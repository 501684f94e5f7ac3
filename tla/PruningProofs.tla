--------------------------- MODULE PruningProofs ---------------------------
(***************************************************************************)
(* Proofs about Pruning, for any number of backups and files and any       *)
(* company of pruners, deleters, runs, readers and holders, when nothing   *)
(* but full backups starts while a prune or delete is at work.             *)
(***************************************************************************)
EXTENDS Pruning, FiniteSetsExt, FiniteSetTheorems, WellFoundedInduction, TLAPS

-----------------------------------------------------------------------------
(* Sets of numbers have a last and a first member *)

\* A set of intervals has a smallest one, so that a set of numbers has a largest.
LEMMA LastOfInterval ==
  ASSUME NEW N \in Nat, NEW T \in SUBSET (0..N), T # {}
  PROVE  Max(T) \in T /\ \A y \in T : y <= Max(T)
<1> DEFINE After == {x..N : x \in T}
           Smaller == StrictSubsetOrdering(0..N)
<1>1. IsWellFoundedOn(Smaller, SUBSET (0..N))
  <2>1. IsFiniteSet(0..N)
    BY FS_Interval
  <2>2. FiniteSubsetsOf(0..N) = SUBSET (0..N)
    BY <2>1, FS_FiniteSubsetsOfFinite
  <2>3. IsWellFoundedOn(Smaller, FiniteSubsetsOf(0..N))
    BY FS_StrictSubsetOrderingWellFounded
  <2> QED BY <2>2, <2>3
<1>2. After \subseteq SUBSET (0..N) /\ After # {}
  <2>1. PICK x : x \in T
    OBVIOUS
  <2>2. x..N \in After
    BY <2>1
  <2>3. \A y \in T : x..N \subseteq 0..N /\ y..N \in SUBSET (0..N)
    BY <2>1
  <2> QED BY <2>2, <2>3
<1>3. PICK I \in After : \A J \in After : <<J, I>> \notin Smaller
  <2> HIDE DEF After, Smaller
  <2> QED BY <1>1, <1>2, WFMin
<1>4. PICK x \in T : I = x..N
  OBVIOUS
<1>5. \A y \in T : y <= x
  <2> SUFFICES ASSUME NEW y \in T, x < y PROVE FALSE
    OBVIOUS
  <2>1. y..N \in After /\ y..N \subseteq x..N /\ x \in x..N /\ x \notin y..N
    OBVIOUS
  <2>2. <<y..N, x..N>> \in Smaller
    BY <2>1, <1>2, <1>4 DEF StrictSubsetOrdering
  <2> QED BY <2>1, <2>2, <1>3, <1>4
<1> QED BY <1>5 DEF Max

\* The first of a set of numbers, likewise.
LEMMA FirstOfInterval ==
  ASSUME NEW N \in Nat, NEW T \in SUBSET (0..N), T # {}
  PROVE  Min(T) \in T /\ \A y \in T : Min(T) <= y
<1> DEFINE Mirror == {N - x : x \in T}
<1>1. Mirror \in SUBSET (0..N) /\ Mirror # {}
  OBVIOUS
<1>2. Max(Mirror) \in Mirror /\ \A y \in Mirror : y <= Max(Mirror)
  <2> HIDE DEF Mirror
  <2> QED BY <1>1, LastOfInterval
<1>3. PICK x \in T : Max(Mirror) = N - x
  BY <1>2
<1>4. \A y \in T : x <= y
  <2> TAKE y \in T
  <2>1. N - y <= N - x
    BY <1>2, <1>3
  <2> QED BY <2>1
<1> QED BY <1>4 DEF Min

USE CountAssumption

-----------------------------------------------------------------------------
(* Ancestors: by least counterexample, since a parent is older than its child *)

Parents == parent \in [Backup -> 0 .. MaxBackup] /\ \A b \in Backup : parent[b] < b

\* The recursion defines a function: it can be solved for 1..n, whatever n is.
LEMMA AncestorsExist ==
  ASSUME Parents, NEW complete
  PROVE  \E up \in [Backup -> SUBSET Backup] :
           up = [c \in Backup |-> IF c \in complete /\ parent[c] # 0
                                  THEN {parent[c]} \cup up[parent[c]] ELSE {}]
<1> DEFINE E(f, c) == IF c \in complete /\ parent[c] # 0 THEN {parent[c]} \cup f[parent[c]] ELSE {}
           Solves(f, n) == \A c \in 1 .. n : f[c] = E(f, c)
           Solution(n) == {f \in [Backup -> SUBSET Backup] : Solves(f, n)}
           Bad == {n \in 0 .. MaxBackup : Solution(n) = {}}
<1>1. \A f \in [Backup -> SUBSET Backup], c \in Backup : E(f, c) \in SUBSET Backup
  BY DEF Parents, Backup
<1>2. Bad = {}
  <2> SUFFICES ASSUME Bad # {} PROVE FALSE
    OBVIOUS
  <2>1. PICK m \in Bad : \A n \in Bad : m <= n
    <3> HIDE DEF Bad
    <3> QED BY FirstOfInterval DEF Bad
  <2>2. m # 0
    <3>1. [c \in Backup |-> {}] \in Solution(0)
      OBVIOUS
    <3> QED BY <3>1, <2>1
  <2>3. PICK f \in [Backup -> SUBSET Backup] : Solves(f, m - 1)
    <3>1. m - 1 \in 0 .. MaxBackup /\ ~ (m <= m - 1)
      BY <2>1, <2>2
    <3>2. m - 1 \notin Bad
      BY <2>1, <3>1
    <3>3. Solution(m - 1) # {}
      <4> HIDE DEF Solution
      <4> QED BY <3>1, <3>2
    <3> HIDE DEF Solves
    <3> QED BY <3>3
  <2> DEFINE g == [f EXCEPT ![m] = E(f, m)]
  <2>4. m \in Backup /\ E(f, m) \in SUBSET Backup
    BY <1>1, <2>1, <2>2, <2>3 DEF Backup
  <2>5. g \in [Backup -> SUBSET Backup]
    <3> HIDE DEF E
    <3> QED BY <2>3, <2>4
  <2>6. \A c \in Backup : g[c] = IF c = m THEN E(f, m) ELSE f[c]
    BY <2>3
  <2>7. \A c \in 1 .. m : E(g, c) = E(f, c)
    <3> TAKE c \in 1 .. m
    <3>1. c \in Backup /\ parent[c] < c /\ parent[c] \in 0 .. MaxBackup
      BY <2>4 DEF Backup, Parents
    <3>2. parent[c] # 0 => parent[c] \in Backup /\ parent[c] # m
      BY <3>1, <2>4 DEF Backup
    <3> HIDE DEF g
    <3> QED BY <3>2, <2>6
  <2>8. \A c \in 1 .. m : g[c] = E(f, c)
    <3> TAKE c \in 1 .. m
    <3>1. c \in Backup
      BY <2>4 DEF Backup
    <3>2. c # m => f[c] = E(f, c)
      <4> SUFFICES ASSUME c # m PROVE f[c] = E(f, c)
        OBVIOUS
      <4>1. c \in 1 .. m - 1
        BY <2>4 DEF Backup
      <4> HIDE DEF E
      <4> QED BY <4>1, <2>3
    <3> HIDE DEF g, E
    <3> QED BY <3>1, <3>2, <2>6
  <2>9. g \in Solution(m)
    <3> HIDE DEF g, E
    <3> QED BY <2>5, <2>7, <2>8
  <2> QED BY <2>1, <2>9
<1>3. PICK f \in [Backup -> SUBSET Backup] : \A c \in Backup : f[c] = E(f, c)
  <2>1. Solution(MaxBackup) # {}
    <3> HIDE DEF Solution
    <3> QED BY <1>2
  <2> HIDE DEF E
  <2> QED BY <2>1 DEF Backup
<1>4. f = [c \in Backup |-> E(f, c)]
  <2> HIDE DEF E
  <2> QED BY <1>3
<1> QED BY <1>4

\* What Ancestors computes.
LEMMA AncestorsDef ==
  ASSUME Parents, NEW complete, NEW b \in Backup
  PROVE  Ancestors(complete, b) = IF b \in complete /\ parent[b] # 0
                                  THEN {parent[b]} \cup Ancestors(complete, parent[b]) ELSE {}
<1> DEFINE Eq(up) == up = [c \in Backup |-> IF c \in complete /\ parent[c] # 0
                                           THEN {parent[c]} \cup up[parent[c]] ELSE {}]
           Up == CHOOSE up : Eq(up)
<1>1. \A c : Ancestors(complete, c) = Up[c]
  BY DEF Ancestors
<1>2. Eq(Up)
  <2>1. \E up \in [Backup -> SUBSET Backup] : Eq(up)
    BY AncestorsExist
  <2> HIDE DEF Eq
  <2> QED BY <2>1
<1> HIDE DEF Up
<1>3. Up[b] = IF b \in complete /\ parent[b] # 0 THEN {parent[b]} \cup Up[parent[b]] ELSE {}
  BY <1>2
<1> QED BY <1>1, <1>3

\* The ancestors of b are older than b.
LEMMA AncestorsType ==
  ASSUME Parents, NEW complete, NEW b \in Backup
  PROVE  Ancestors(complete, b) \subseteq 1 .. b - 1
<1> DEFINE Bad == {c \in Backup : ~ (Ancestors(complete, c) \subseteq 1 .. c - 1)}
<1> SUFFICES Bad = {}
  OBVIOUS
<1> SUFFICES ASSUME Bad # {} PROVE FALSE
  OBVIOUS
<1>1. PICK c \in Bad : \A d \in Bad : c <= d
  <2>1. Bad \in SUBSET (0 .. MaxBackup)
    BY DEF Backup
  <2> HIDE DEF Bad
  <2> QED BY <2>1, FirstOfInterval
<1>2. CASE c \in complete /\ parent[c] # 0
  <2>1. parent[c] \in Backup /\ parent[c] < c
    BY <1>2 DEF Parents, Backup
  <2>2. Ancestors(complete, parent[c]) \subseteq 1 .. parent[c] - 1
    BY <1>1, <2>1 DEF Backup
  <2>3. Ancestors(complete, c) = {parent[c]} \cup Ancestors(complete, parent[c])
    BY <1>2, AncestorsDef
  <2> QED BY <2>1, <2>2, <2>3 DEF Backup
<1>3. CASE ~ (c \in complete /\ parent[c] # 0)
  BY <1>3, AncestorsDef
<1> QED BY <1>2, <1>3

\* A member of the chain that is in the listing has its parent in the chain.
LEMMA AncestorsClosed ==
  ASSUME Parents, NEW complete, NEW b \in Backup, NEW p \in Ancestors(complete, b) \cup {b},
         p \in complete, parent[p] # 0
  PROVE  parent[p] \in Ancestors(complete, b)
<1> DEFINE Bad == {c \in Backup : ~ (p \in Ancestors(complete, c) => parent[p] \in Ancestors(complete, c))}
<1>1. p \in Backup /\ parent[p] \in Ancestors(complete, p)
  BY AncestorsType, AncestorsDef DEF Backup
<1>2. Bad = {}
  <2> SUFFICES ASSUME Bad # {} PROVE FALSE
    OBVIOUS
  <2>1. PICK c \in Bad : \A d \in Bad : c <= d
    <3>1. Bad \in SUBSET (0 .. MaxBackup)
      BY DEF Backup
    <3> HIDE DEF Bad
    <3> QED BY <3>1, FirstOfInterval
  <2>2. c \in complete /\ parent[c] # 0
    BY AncestorsDef
  <2>3. parent[c] \in Backup /\ parent[c] < c
    BY <2>2 DEF Parents, Backup
  <2>4. Ancestors(complete, c) = {parent[c]} \cup Ancestors(complete, parent[c])
    BY <2>2, AncestorsDef
  <2>5. p \in Ancestors(complete, parent[c]) => parent[p] \in Ancestors(complete, parent[c])
    BY <2>1, <2>3 DEF Backup
  <2> QED BY <1>1, <2>4, <2>5
<1> QED BY <1>1, <1>2

\* Whoever is in the chain of b, b apart, is the parent of a member.
LEMMA AncestorsLinked ==
  ASSUME Parents, NEW complete, NEW b \in Backup, NEW p \in Ancestors(complete, b)
  PROVE  \E c \in Ancestors(complete, b) \cup {b} : parent[c] = p
<1> DEFINE Linked(c) == \A q \in Ancestors(complete, c) :
                          \E d \in Ancestors(complete, c) \cup {c} : parent[d] = q
           Bad == {c \in Backup : ~ Linked(c)}
<1>1. Bad = {}
  <2> SUFFICES ASSUME Bad # {} PROVE FALSE
    OBVIOUS
  <2>1. PICK c \in Bad : \A d \in Bad : c <= d
    <3>1. Bad \in SUBSET (0 .. MaxBackup)
      BY DEF Backup
    <3> HIDE DEF Bad
    <3> QED BY <3>1, FirstOfInterval
  <2>2. c \in complete /\ parent[c] # 0
    BY AncestorsDef
  <2>3. parent[c] \in Backup /\ parent[c] < c
    BY <2>2 DEF Parents, Backup
  <2>4. Ancestors(complete, c) = {parent[c]} \cup Ancestors(complete, parent[c])
    BY <2>2, AncestorsDef
  <2>5. Linked(parent[c])
    BY <2>1, <2>3 DEF Backup
  <2>6. Linked(c)
    BY <2>4, <2>5
  <2> QED BY <2>6
<1> QED BY <1>1

\* In a catalog whose chains are intact the chain of a complete backup is complete.
LEMMA ChainComplete ==
  ASSUME Parents, ChainsIntact, NEW b \in Complete
  PROVE  Chain(b) \subseteq Complete
<1> DEFINE Bad == {c \in Complete : ~ (Ancestors(Complete, c) \subseteq Complete)}
<1>1. Bad = {}
  <2> SUFFICES ASSUME Bad # {} PROVE FALSE
    OBVIOUS
  <2>1. PICK c \in Bad : \A d \in Bad : c <= d
    <3>1. Bad \in SUBSET (0 .. MaxBackup)
      BY DEF Backup, Complete
    <3> HIDE DEF Bad
    <3> QED BY <3>1, FirstOfInterval
  <2>2. c \in Backup /\ parent[c] # 0
    BY AncestorsDef DEF Complete
  <2>3. parent[c] \in Complete /\ parent[c] < c
    BY <2>2 DEF Parents, ChainsIntact
  <2>4. Ancestors(Complete, c) = {parent[c]} \cup Ancestors(Complete, parent[c])
    BY <2>2, AncestorsDef
  <2>5. Ancestors(Complete, parent[c]) \subseteq Complete
    BY <2>1, <2>2, <2>3 DEF Backup, Parents
  <2> QED BY <2>3, <2>4, <2>5
<1> QED BY <1>1 DEF Chain

-----------------------------------------------------------------------------
(* The steps, by who takes them *)

\* A prune or delete lists, decides, looks again, gives up.
Looks ==
  \/ PruneList \/ PrunePlan \/ PruneNext \/ PruneRecheck
  \/ \E b \in Backup : DeleteRequest(b)
  \/ \E a \in Deleter : CheckLeases(a) \/ ListObjects(a) \/ ObjectLocked(a) \/ Stop(a)

Deletes ==
  \E a \in Deleter :
    DeleteManifest(a) \/ DeleteObject(a) \/ DeleteAnnotations(a) \/ DeleteCheckpoint(a)

RunSteps ==
  \/ StartFull \/ StartIncremental \/ StartResume
  \/ RunLease \/ RunRefused \/ RunLeaseLapses
  \/ RunWrite \/ RunCheckpoint \/ RunCommit \/ RunRemovesCheckpoint
  \/ RunFail \/ RunRelease \/ RunCrash

ReaderSteps ==
  \/ ReaderPlan \/ ReaderLease \/ ReaderRefused \/ ReaderLeaseLapses \/ ReaderVerify \/ ReaderDrop
  \/ ReaderLoad \/ ReaderEnd

HoldSteps == HoldCheck \/ HoldPut \/ ReleaseHold

LEMMA NextCases ==
  ASSUME [Next]_vars
  PROVE  Looks \/ Deletes \/ RunSteps \/ ReaderSteps \/ HoldSteps \/ GrowIdle \/ LeaseExpires
           \/ UNCHANGED vars
BY DEF Next, Looks, Deletes, RunSteps, ReaderSteps, HoldSteps

-----------------------------------------------------------------------------
(* Types *)

\* Setting one field of what a worker knows.
LEMMA WorkerFields ==
  ASSUME NEW w \in Workers
  PROVE  /\ [w EXCEPT !.pc = "plan"] \in Workers
         /\ [w EXCEPT !.pc = "next"] \in Workers
         /\ [w EXCEPT !.pc = "completed?"] \in Workers
         /\ [w EXCEPT !.pc = "leases"] \in Workers
         /\ [w EXCEPT !.pc = "manifest"] \in Workers
         /\ [w EXCEPT !.pc = "list"] \in Workers
         /\ [w EXCEPT !.pc = "objects"] \in Workers
         /\ [w EXCEPT !.pc = "checkpoint"] \in Workers
         /\ \A S \in SUBSET Backup : /\ [w EXCEPT !.complete = S] \in Workers
                                   /\ [w EXCEPT !.incomplete = S] \in Workers
                                   /\ [w EXCEPT !.held = S] \in Workers
                                   /\ [w EXCEPT !.remove = S] \in Workers
                                   /\ [w EXCEPT !.needed = S] \in Workers
         /\ \A b \in 0 .. MaxBackup : [w EXCEPT !.target = b] \in Workers
         /\ \A L \in SUBSET Object : [w EXCEPT !.listing = L] \in Workers
BY DEF Workers

LEMMA WorkerTypes ==
  ASSUME TypeOK
  PROVE  /\ Free \in Workers
         /\ Complete \in SUBSET Backup /\ Incomplete \in SUBSET Backup
         /\ \A complete : \A b \in Backup : Ancestors(complete, b) \in SUBSET Backup
         /\ \A w \in Workers : \A more \in SUBSET Backup : SkipKeeping(w, more) \in Workers
         /\ \A a \in Deleter : worker[a].target \in Backup => Skipped(a) \in Workers
         /\ \A a \in Deleter : Left(a) \in Workers
<1>1. Free \in Workers
  BY DEF Free, Workers
<1>2. Complete \in SUBSET Backup /\ Incomplete \in SUBSET Backup
  BY DEF Complete, Incomplete
<1>3. \A complete : \A b \in Backup : Ancestors(complete, b) \in SUBSET Backup
  <2> TAKE complete
  <2> TAKE b \in Backup
  <2>1. Ancestors(complete, b) \subseteq 1 .. b - 1
    BY AncestorsType DEF TypeOK, Parents
  <2> QED BY <2>1 DEF Backup
<1>4. \A w \in Workers : /\ w.needed \in SUBSET Backup
                         /\ [w EXCEPT !.pc = "next", !.target = 0, !.listing = {}] \in Workers
  <2> TAKE w \in Workers
  <2>1. 0 \in 0 .. MaxBackup /\ {} \in SUBSET Object /\ w.needed \in SUBSET Backup
    BY DEF Workers
  <2> QED BY <2>1, WorkerFields
<1>5. \A w \in Workers : \A more \in SUBSET Backup : SkipKeeping(w, more) \in Workers
  <2> TAKE w \in Workers
  <2> TAKE more \in SUBSET Backup
  <2> DEFINE next0 == [w EXCEPT !.pc = "next", !.target = 0, !.listing = {}]
  <2>1. next0 \in Workers /\ w.needed \cup more \in SUBSET Backup
    BY <1>4
  <2>2. SkipKeeping(w, more) = [next0 EXCEPT !.needed = w.needed \cup more]
    BY DEF SkipKeeping, Workers
  <2> HIDE DEF next0
  <2> QED BY <2>1, <2>2, WorkerFields
<1>6. \A a \in Deleter : worker[a] \in Workers
  BY DEF TypeOK
<1>7. \A a \in Deleter : worker[a].target \in Backup => Skipped(a) \in Workers
  BY <1>1, <1>3, <1>5, <1>6 DEF Skipped
<1>8. \A a \in Deleter : Left(a) \in Workers
  BY <1>1, <1>4, <1>6 DEF Left
<1> QED BY <1>1, <1>2, <1>3, <1>5, <1>7, <1>8

\* A worker whose target is needed has one.
Aimed == \A a \in Deleter : worker[a].pc \notin {"free", "plan", "next"} => worker[a].target \in Backup

LEMMA TypeLooks ==
  ASSUME TypeOK, Aimed, Looks
  PROVE  TypeOK'
<1> USE DEF storage, notes
<1>1. \A w \in Workers, a \in Deleter : [worker EXCEPT ![a] = w] \in [Deleter -> Workers]
  BY DEF TypeOK
<1>2. worker["prune"] \in Workers /\ "prune" \in Deleter /\ "delete" \in Deleter
  BY DEF TypeOK, Deleter
<1>3. UNCHANGED <<stored, parent, checkpoint, next, idle, leases, held, promised, exposed, cast,
                  run, reader, hold>>
  BY DEF Looks, PruneList, PrunePlan, PruneNext, PruneRecheck, DeleteRequest, CheckLeases,
         ListObjects, ObjectLocked, Stop
<1> SUFFICES worker' \in [Deleter -> Workers]
  BY <1>3 DEF TypeOK
<1>4. CASE PruneList
  <2>1. held \cap Complete \in SUBSET Backup
    BY WorkerTypes
  <2>2. [Free EXCEPT !.pc = "plan", !.complete = Complete,
                    !.incomplete = Incomplete, !.held = held \cap Complete] \in Workers
    BY <2>1, WorkerTypes, WorkerFields
  <2> QED BY <1>1, <1>2, <1>4, <2>2 DEF PruneList
<1>5. CASE PrunePlan
  <2>1. PICK wanted : worker' = [worker EXCEPT !["prune"] =
           [Free EXCEPT !.pc = "next", !.complete = worker["prune"].complete,
              !.remove = (worker["prune"].complete \cup worker["prune"].incomplete)
                           \ Kept(worker["prune"], wanted)]]
    BY <1>5 DEF PrunePlan
  <2>2. /\ worker["prune"].complete \in SUBSET Backup
        /\ (worker["prune"].complete \cup worker["prune"].incomplete)
              \ Kept(worker["prune"], wanted) \in SUBSET Backup
    BY <1>2 DEF Workers
  <2> QED BY <1>1, <1>2, <2>1, <2>2, WorkerTypes, WorkerFields
<1>6. CASE PruneNext
  <2> DEFINE w == worker["prune"]
             b == Max(w.remove)
  <2>1. w.remove \in SUBSET Backup /\ w.remove \ {b} \in SUBSET Backup
    BY <1>2 DEF Workers
  <2>2. w.remove # {} => b \in 0 .. MaxBackup
    <3>1. w.remove \in SUBSET (0 .. MaxBackup)
      BY <2>1 DEF Backup
    <3> HIDE DEF w
    <3>2. w.remove # {} => b \in w.remove
      BY <3>1, LastOfInterval
    <3> QED BY <3>1, <3>2
  <2>3. [w EXCEPT !.remove = @ \ {b}] \in Workers
    BY <1>2, <2>1, WorkerFields
  <2>4. worker' = [worker EXCEPT !["prune"] =
          IF w.remove = {} THEN Free
          ELSE IF b \in w.needed THEN [w EXCEPT !.remove = @ \ {b}]
          ELSE [[w EXCEPT !.remove = @ \ {b}] EXCEPT !.target = b,
                  !.pc = IF b \in w.complete THEN "leases" ELSE "completed?"]]
    BY <1>6 DEF PruneNext
  <2> DEFINE rest == [w EXCEPT !.remove = @ \ {b}]
  <2> HIDE DEF rest, b, w
  <2>5. w.remove # {} => /\ [rest EXCEPT !.target = b, !.pc = "leases"] \in Workers
                         /\ [rest EXCEPT !.target = b, !.pc = "completed?"] \in Workers
    BY <2>2, <2>3, WorkerFields DEF rest
  <2> QED BY <1>1, <1>2, <2>3, <2>4, <2>5, WorkerTypes DEF rest
<1>7. CASE PruneRecheck
  <2> DEFINE w == worker["prune"]
             fresh == IF parent[w.target] = 0 THEN {}
                      ELSE {parent[w.target]} \cup Ancestors(w.complete, parent[w.target])
  <2>1. w.target \in Backup /\ (parent[w.target] # 0 => parent[w.target] \in Backup)
    <3>1. w.target \in Backup
      BY <1>2, <1>7 DEF PruneRecheck, Aimed
    <3>2. parent[w.target] \in 0 .. MaxBackup
      BY <3>1 DEF TypeOK
    <3> QED BY <3>1, <3>2 DEF Backup
  <2>2. fresh \in SUBSET Backup
    BY <2>1, WorkerTypes
  <2>3. worker' = [worker EXCEPT !["prune"] =
          IF Manifest \in stored[w.target] THEN SkipKeeping(w, fresh) ELSE [w EXCEPT !.pc = "leases"]]
    BY <1>7 DEF PruneRecheck
  <2> HIDE DEF fresh
  <2> QED BY <1>1, <1>2, <2>2, <2>3, WorkerTypes, WorkerFields
<1>8. ASSUME NEW b \in Backup, DeleteRequest(b) PROVE worker' \in [Deleter -> Workers]
  <2>1. [Free EXCEPT !.pc = "leases", !.target = b] \in Workers
    <3>1. b \in 0 .. MaxBackup
      BY DEF Backup
    <3> QED BY <3>1, WorkerTypes, WorkerFields
  <2> QED BY <1>1, <1>2, <1>8, <2>1 DEF DeleteRequest
<1>9. ASSUME NEW a \in Deleter, CheckLeases(a) PROVE worker' \in [Deleter -> Workers]
  <2>1. worker[a] \in Workers /\ Skipped(a) \in Workers
    BY <1>9, WorkerTypes DEF CheckLeases, TypeOK, Aimed
  <2> QED BY <1>1, <1>9, <2>1, WorkerFields DEF CheckLeases
<1>10. ASSUME NEW a \in Deleter, ListObjects(a) PROVE worker' \in [Deleter -> Workers]
  <2>1. worker[a] \in Workers /\ stored[worker[a].target] \in SUBSET Object
    BY <1>10 DEF ListObjects, TypeOK, Aimed
  <2>2. [worker[a] EXCEPT !.pc = "objects", !.listing = stored[worker[a].target]] \in Workers
    BY <2>1, WorkerFields
  <2>3. worker' = [worker EXCEPT ![a] =
                     [worker[a] EXCEPT !.pc = "objects", !.listing = stored[worker[a].target]]]
    BY <1>10 DEF ListObjects, TypeOK
  <2> QED BY <1>1, <2>2, <2>3
<1>11. ASSUME NEW a \in Deleter, ObjectLocked(a) PROVE worker' \in [Deleter -> Workers]
  <2>1. Skipped(a) \in Workers
    BY <1>11, WorkerTypes DEF ObjectLocked, Aimed
  <2> QED BY <1>1, <1>11, <2>1 DEF ObjectLocked
<1>12. ASSUME NEW a \in Deleter, Stop(a) PROVE worker' \in [Deleter -> Workers]
  BY <1>1, <1>12, WorkerTypes DEF Stop
<1> QED BY <1>4, <1>5, <1>6, <1>7, <1>8, <1>9, <1>10, <1>11, <1>12 DEF Looks

LEMMA TypeDeletes ==
  ASSUME TypeOK, Aimed, NEW a \in Deleter,
         DeleteManifest(a) \/ DeleteObject(a) \/ DeleteAnnotations(a) \/ DeleteCheckpoint(a)
  PROVE  TypeOK'
<1> USE DEF storage, notes
<1>1. worker[a] \in Workers /\ worker[a].target \in Backup
  BY DEF TypeOK, Aimed, DeleteManifest, DeleteObject, DeleteAnnotations, DeleteCheckpoint
<1>2. \A w \in Workers : [worker EXCEPT ![a] = w] \in [Deleter -> Workers]
  BY DEF TypeOK
<1>3. \A S \in SUBSET Object : [stored EXCEPT ![worker[a].target] = S] \in [Backup -> SUBSET Object]
  BY <1>1 DEF TypeOK
<1>4. CASE DeleteManifest(a)
  <2>1. worker' = [worker EXCEPT ![a] = [worker[a] EXCEPT !.pc = "list"]]
    BY <1>4 DEF DeleteManifest, TypeOK
  <2>2. worker' \in [Deleter -> Workers]
    BY <1>1, <1>2, <2>1, WorkerFields
  <2>3. stored' = [stored EXCEPT ![worker[a].target] = stored[worker[a].target] \ {Manifest}]
    BY <1>4 DEF DeleteManifest
  <2>4. stored' \in [Backup -> SUBSET Object]
    BY <1>1, <1>3, <2>3 DEF TypeOK
  <2> QED BY <1>4, <2>2, <2>4 DEF DeleteManifest, TypeOK
<1>5. CASE DeleteObject(a)
  <2>1. PICK o \in worker[a].listing :
          /\ stored' = [stored EXCEPT ![worker[a].target] = @ \ {o}]
          /\ worker' = [worker EXCEPT ![a].listing = @ \ {o}]
    BY <1>5 DEF DeleteObject
  <2>2. worker' = [worker EXCEPT ![a] = [worker[a] EXCEPT !.listing = worker[a].listing \ {o}]]
    BY <2>1 DEF TypeOK
  <2>3. worker[a].listing \ {o} \in SUBSET Object
    BY <1>1 DEF Workers
  <2>4. worker' \in [Deleter -> Workers]
    BY <1>1, <1>2, <2>2, <2>3, WorkerFields
  <2>5. stored' = [stored EXCEPT ![worker[a].target] = stored[worker[a].target] \ {o}]
    BY <2>1
  <2>6. stored' \in [Backup -> SUBSET Object]
    BY <1>1, <1>3, <2>5 DEF TypeOK
  <2> QED BY <1>5, <2>4, <2>6 DEF DeleteObject, TypeOK
<1>6. CASE DeleteAnnotations(a)
  <2>1. worker' = [worker EXCEPT ![a] = [worker[a] EXCEPT !.pc = "checkpoint"]]
    BY <1>6 DEF DeleteAnnotations, TypeOK
  <2>2. worker' \in [Deleter -> Workers]
    BY <1>1, <1>2, <2>1, WorkerFields
  <2> QED BY <1>6, <2>2 DEF DeleteAnnotations, TypeOK
<1>7. CASE DeleteCheckpoint(a)
  <2>1. worker' \in [Deleter -> Workers]
    BY <1>2, <1>7, WorkerTypes DEF DeleteCheckpoint
  <2>2. checkpoint' \in [Backup -> SUBSET File]
    BY <1>7 DEF DeleteCheckpoint, TypeOK
  <2> QED BY <1>7, <2>1, <2>2 DEF DeleteCheckpoint, TypeOK
<1> QED BY <1>4, <1>5, <1>6, <1>7

LEMMA RunFields ==
  ASSUME NEW r \in Runs
  PROVE  /\ [r EXCEPT !.pc = "write"] \in Runs
         /\ [r EXCEPT !.pc = "committed"] \in Runs
         /\ [r EXCEPT !.pc = "release"] \in Runs
         /\ \A S \in SUBSET File : [r EXCEPT !.done = S] \in Runs
         /\ \A leased \in BOOLEAN : [r EXCEPT !.leased = leased] \in Runs
         /\ NoRun \in Runs
BY DEF Runs, NoRun

\* The bound on new ids keeps them among the backups.
LEMMA NextIsBackup ==
  ASSUME TypeOK, next <= cast.last
  PROVE  next \in Backup
<1>1. cast.last \in 0 .. MaxBackup
  BY CastAssumption DEF TypeOK, AnyCast
<1> QED BY <1>1 DEF TypeOK, Backup

\* A run that starts, the backup it continues being older.
LEMMA TypeBegin ==
  ASSUME TypeOK, NEW kind \in {"full", "incremental", "resume"}, NEW b \in Backup,
         NEW p \in 0 .. b - 1, NEW done \in SUBSET File, Begin(kind, b, p, done),
         next' \in 1 .. MaxBackup + 1
  PROVE  TypeOK'
<1> USE DEF storage, notes
<1>1. run' \in Runs
  <2>1. run' = [pc |-> "lease", kind |-> kind, id |-> b, done |-> done, leased |-> FALSE]
    BY DEF Begin, NoRun
  <2>2. b \in 0 .. MaxBackup
    BY DEF Backup
  <2> QED BY <2>1, <2>2 DEF Runs
<1>2. parent' \in [Backup -> 0 .. MaxBackup] /\ \A c \in Backup : parent'[c] < c
  BY DEF Begin, TypeOK, Backup
<1> QED BY <1>1, <1>2 DEF Begin, TypeOK

LEMMA TypeRuns ==
  ASSUME TypeOK, run.pc # "free" => run.id \in Backup, \A b \in Complete : b < next, RunSteps
  PROVE  TypeOK'
<1> USE DEF storage, notes
<1>1. run \in Runs /\ run.done \in SUBSET File /\ File \subseteq Object /\ Manifest \in Object
  BY DEF TypeOK, Runs, Object
<1>2. \A b, S : b \in Backup /\ S \in SUBSET Object =>
        [stored EXCEPT ![b] = S] \in [Backup -> SUBSET Object]
  BY DEF TypeOK
<1>3. \A b, S : b \in Backup /\ S \in SUBSET File =>
        [checkpoint EXCEPT ![b] = S] \in [Backup -> SUBSET File]
  BY DEF TypeOK
<1>4. CASE StartFull
  <2>1. next' \in 1 .. MaxBackup + 1 /\ next \in Backup /\ 0 \in 0 .. next - 1
    BY <1>4, NextIsBackup DEF StartFull, TypeOK, Backup
  <2> QED BY <1>4, <2>1, TypeBegin DEF StartFull
<1>5. CASE StartIncremental
  <2>1. next' \in 1 .. MaxBackup + 1 /\ next \in Backup
    BY <1>5, NextIsBackup DEF StartIncremental, TypeOK, Backup
  <2>2. PICK p \in Complete : Begin("incremental", next, p, {})
    BY <1>5 DEF StartIncremental
  <2>3. p \in 0 .. next - 1
    BY <2>1, <2>2 DEF Complete, Backup
  <2> QED BY <2>1, <2>2, <2>3, TypeBegin
<1>6. CASE StartResume
  <2>1. PICK b \in Backup : Begin("resume", b, 0, checkpoint[b])
    BY <1>6 DEF StartResume
  <2>2. 0 \in 0 .. b - 1 /\ checkpoint[b] \in SUBSET File /\ next' \in 1 .. MaxBackup + 1
    BY <1>6 DEF StartResume, TypeOK, Backup
  <2> QED BY <2>1, <2>2, TypeBegin
<1>7. CASE RunLease
  <2>1. leases' \subseteq {"run", "reader", "dead"} \X Backup
    BY <1>7 DEF RunLease, TypeOK
  <2>2. run' = [[run EXCEPT !.pc = "write"] EXCEPT !.leased = TRUE]
    BY <1>7 DEF RunLease
  <2>3. run' \in Runs
    BY <1>1, <2>2, RunFields
  <2> QED BY <1>7, <2>1, <2>3 DEF RunLease, TypeOK
<1>15. CASE RunRefused
  <2>1. run' \in Runs
    BY <1>1, <1>15, RunFields DEF RunRefused
  <2> QED BY <1>15, <2>1 DEF RunRefused, TypeOK
<1>16. CASE RunLeaseLapses
  <2>1. run' \in Runs /\ leases' \subseteq leases
    BY <1>1, <1>16, RunFields DEF RunLeaseLapses
  <2> QED BY <1>16, <2>1 DEF RunLeaseLapses, TypeOK
<1>8. CASE RunWrite
  <2>1. PICK f \in File \ run.done :
          /\ stored' = [stored EXCEPT ![run.id] = @ \cup {f}]
          /\ run' = [run EXCEPT !.done = @ \cup {f}]
    BY <1>8 DEF RunWrite
  <2>2. run' \in Runs
    BY <1>1, <2>1, RunFields
  <2>3. run.id \in Backup /\ stored[run.id] \cup {f} \in SUBSET Object
    BY <1>1, <1>8 DEF RunWrite, TypeOK
  <2>4. stored' \in [Backup -> SUBSET Object]
    BY <1>2, <2>1, <2>3
  <2> QED BY <1>8, <2>2, <2>4 DEF RunWrite, TypeOK
<1>9. CASE RunCheckpoint
  <2>1. checkpoint' \in [Backup -> SUBSET File]
    BY <1>1, <1>3, <1>9 DEF RunCheckpoint
  <2> QED BY <1>9, <2>1 DEF RunCheckpoint, TypeOK
<1>10. CASE RunCommit
  <2>1. run' \in Runs
    BY <1>1, <1>10, RunFields DEF RunCommit
  <2>2. run.id \in Backup /\ (stored[run.id] \cap run.done) \cup {Manifest} \in SUBSET Object
    BY <1>1, <1>10 DEF RunCommit, TypeOK
  <2>3. stored' = [stored EXCEPT ![run.id] = (stored[run.id] \cap run.done) \cup {Manifest}]
    BY <1>10 DEF RunCommit
  <2>4. stored' \in [Backup -> SUBSET Object]
    BY <1>2, <2>2, <2>3
  <2>5. exposed' \subseteq Backup
    BY <1>10, <2>2 DEF RunCommit, TypeOK
  <2> QED BY <1>10, <2>1, <2>4, <2>5 DEF RunCommit, TypeOK
<1>11. CASE RunRemovesCheckpoint
  <2>1. run' \in Runs /\ checkpoint' \in [Backup -> SUBSET File]
    BY <1>1, <1>3, <1>11, RunFields DEF RunRemovesCheckpoint
  <2> QED BY <1>11, <2>1 DEF RunRemovesCheckpoint, TypeOK
<1>12. CASE RunFail
  <2>1. run' \in Runs
    BY <1>1, <1>12, RunFields DEF RunFail
  <2>2. checkpoint' \in [Backup -> SUBSET File]
    <3>1. \E S \in {run.done, {}} : checkpoint' = [checkpoint EXCEPT ![run.id] = S]
      BY <1>12 DEF RunFail
    <3>2. run.id \in Backup
      BY <1>12 DEF RunFail
    <3> QED BY <1>1, <1>3, <3>1, <3>2
  <2>3. run.id \in Backup /\ stored[run.id] \ run.done \in SUBSET Object
    BY <1>12 DEF RunFail, TypeOK
  <2>4. UNCHANGED stored \/ stored' = [stored EXCEPT ![run.id] = stored[run.id] \ run.done]
    BY <1>12 DEF RunFail
  <2>5. stored' \in [Backup -> SUBSET Object]
    BY <1>2, <2>3, <2>4 DEF TypeOK
  <2> QED BY <1>12, <2>1, <2>2, <2>5 DEF RunFail, TypeOK
<1>13. CASE RunRelease
  <2>1. run' \in Runs /\ leases' \subseteq leases
    BY <1>1, <1>13, RunFields DEF RunRelease
  <2> QED BY <1>13, <2>1 DEF RunRelease, TypeOK
<1>14. CASE RunCrash
  <2>1. run' \in Runs
    BY <1>1, <1>14, RunFields DEF RunCrash
  <2>2. leases' \subseteq {"run", "reader", "dead"} \X Backup
    BY <1>14 DEF RunCrash, TypeOK
  <2> QED BY <1>14, <2>1, <2>2 DEF RunCrash, TypeOK
<1> QED BY <1>4, <1>5, <1>6, <1>7, <1>8, <1>9, <1>10, <1>11, <1>12, <1>13, <1>14,
         <1>15, <1>16 DEF RunSteps

LEMMA ReaderFields ==
  ASSUME NEW r \in Readers
  PROVE  /\ [r EXCEPT !.pc = "lease"] \in Readers
         /\ [r EXCEPT !.pc = "verify"] \in Readers
         /\ [r EXCEPT !.pc = "load"] \in Readers
         /\ [r EXCEPT !.pc = "failed"] \in Readers
         /\ \A b \in 0 .. MaxBackup : [r EXCEPT !.id = b] \in Readers
         /\ \A S \in SUBSET Backup : [r EXCEPT !.members = S] \in Readers
         /\ \A S \in SUBSET Backup : [r EXCEPT !.left = S] \in Readers
         /\ NoReader \in Readers
BY DEF Readers, NoReader

LEMMA ReaderMarked ==
  ASSUME NEW r \in Readers, NEW shielded \in BOOLEAN
  PROVE  [r EXCEPT !.shielded = shielded] \in Readers
BY DEF Readers

LEMMA TypeReaders ==
  ASSUME TypeOK, reader.pc # "free" => reader.id \in Backup, ReaderSteps
  PROVE  TypeOK'
<1> USE DEF storage, notes
<1>1. reader \in Readers /\ reader.members \in SUBSET Backup /\ reader.left \in SUBSET Backup
  BY DEF TypeOK, Readers
<1>2. CASE ReaderPlan
  <2>1. PICK b \in Complete :
          reader' = [NoReader EXCEPT !.pc = "lease", !.id = b, !.members = Chain(b)]
    BY <1>2 DEF ReaderPlan
  <2>2. b \in Backup /\ b \in 0 .. MaxBackup
    BY <2>1 DEF Complete, Backup
  <2>3. Chain(b) \in SUBSET Backup
    BY <2>2, WorkerTypes DEF Chain
  <2>4. reader' \in Readers
    BY <2>1, <2>2, <2>3, ReaderFields, <1>1
  <2> QED BY <1>2, <2>4 DEF ReaderPlan, TypeOK
<1>3. CASE ReaderLease
  <2> DEFINE mark == /\ \A c \in reader.members : c \in Complete /\ Readable(c)
                     /\ \A a \in Working :
                          worker[a].pc \notin {"plan", "next", "completed?", "leases"}
                            => worker[a].target \notin reader.members
  <2>1. reader' = [reader EXCEPT !.pc = "verify", !.left = reader.members, !.shielded = mark]
    BY <1>3 DEF ReaderLease
  <2>2. mark \in BOOLEAN
    OBVIOUS
  <2> HIDE DEF mark
  <2>3. [reader EXCEPT !.pc = "verify", !.left = reader.members] \in Readers
    BY <1>1, ReaderFields
  <2>4. reader' = [[reader EXCEPT !.pc = "verify", !.left = reader.members] EXCEPT !.shielded = mark]
    BY <2>1
  <2>5. reader' \in Readers
    BY <2>2, <2>3, <2>4, ReaderMarked
  <2>6. leases' \subseteq {"run", "reader", "dead"} \X Backup
    BY <1>3 DEF ReaderLease, TypeOK
  <2> QED BY <1>3, <2>5, <2>6 DEF ReaderLease, TypeOK
<1>4. CASE ReaderRefused
  <2>1. reader' \in Readers
    BY <1>1, <1>4, ReaderFields DEF ReaderRefused
  <2> QED BY <1>4, <2>1 DEF ReaderRefused, TypeOK
<1>8. CASE ReaderLeaseLapses
  <2>1. reader' = [reader EXCEPT !.shielded = FALSE] /\ leases' \subseteq leases
    BY <1>8 DEF ReaderLeaseLapses
  <2>2. reader' \in Readers
    BY <1>1, <2>1, ReaderMarked
  <2> QED BY <1>8, <2>1, <2>2 DEF ReaderLeaseLapses, TypeOK
<1>5. ASSUME NEW pc, ReadMember(pc) PROVE TypeOK'
  <2>1. PICK c \in reader.left :
          reader' = IF Readable(c) THEN [reader EXCEPT !.left = @ \ {c}]
                                   ELSE [reader EXCEPT !.pc = "failed", !.left = {}]
    BY <1>5 DEF ReadMember
  <2>2. reader.left \ {c} \in SUBSET Backup /\ {} \in SUBSET Backup
    BY <1>1
  <2>3. /\ [reader EXCEPT !.left = reader.left \ {c}] \in Readers
        /\ [reader EXCEPT !.pc = "failed", !.left = {}] \in Readers
    BY <1>1, <2>2, ReaderFields
  <2>4. reader' \in Readers
    BY <2>1, <2>3
  <2> QED BY <1>5, <2>4 DEF ReadMember, TypeOK
<1>6. CASE ReaderDrop
  <2>1. reader' \in Readers
    BY <1>1, <1>6, ReaderFields DEF ReaderDrop
  <2> QED BY <1>6, <2>1 DEF ReaderDrop, TypeOK
<1>7. CASE ReaderEnd
  <2>1. reader' \in Readers /\ leases' \subseteq leases
    BY <1>1, <1>7, ReaderFields DEF ReaderEnd
  <2> QED BY <1>7, <2>1 DEF ReaderEnd, TypeOK
<1> QED BY <1>2, <1>3, <1>4, <1>5, <1>6, <1>7, <1>8 DEF ReaderSteps, ReaderVerify, ReaderLoad

LEMMA TypeRest ==
  ASSUME TypeOK, hold.pc = "put" => hold.id \in Backup,
         HoldSteps \/ GrowIdle \/ LeaseExpires \/ UNCHANGED vars
  PROVE  TypeOK'
<1> USE DEF storage, notes
<1>1. CASE HoldCheck
  <2>1. hold' \in [pc : {"free", "put"}, id : 0 .. MaxBackup]
    BY <1>1 DEF HoldCheck, Complete, Backup
  <2> QED BY <1>1, <2>1 DEF HoldCheck, TypeOK
<1>2. CASE HoldPut
  <2>1. hold' \in [pc : {"free", "put"}, id : 0 .. MaxBackup]
    BY <1>2 DEF HoldPut, NoHold
  <2>2. held' \subseteq Backup /\ promised' \subseteq Backup
    BY <1>2 DEF HoldPut, TypeOK
  <2> QED BY <1>2, <2>1, <2>2 DEF HoldPut, TypeOK
<1>3. CASE ReleaseHold
  BY <1>3 DEF ReleaseHold, TypeOK
<1>4. CASE GrowIdle
  BY <1>4 DEF GrowIdle, TypeOK, Incomplete
<1>5. CASE LeaseExpires
  BY <1>5 DEF LeaseExpires, TypeOK
<1>6. CASE UNCHANGED vars
  BY <1>6 DEF vars, TypeOK
<1> QED BY <1>1, <1>2, <1>3, <1>4, <1>5, <1>6 DEF HoldSteps

\* Whoever is busy is busy with a backup, and nothing is stored under an id not given yet.
Numbered ==
  /\ Aimed
  /\ run.pc # "free" => run.id \in 1 .. next - 1
  /\ reader.pc # "free" => reader.id \in Backup
  /\ hold.pc = "put" => hold.id \in Backup
  /\ \A b \in Backup : b >= next => stored[b] = {}

LEMMA TypeNext ==
  ASSUME TypeOK, Numbered, [Next]_vars
  PROVE  TypeOK'
<1>1. run.pc # "free" => run.id \in Backup
  BY DEF Numbered, TypeOK, Backup
<1>2. \A b \in Complete : b < next
  <2> TAKE b \in Complete
  <2>1. b \in Backup /\ ~ (b >= next)
    BY DEF Complete, Numbered
  <2> QED BY <2>1 DEF TypeOK, Backup
<1> QED BY <1>1, <1>2, NextCases, TypeLooks, TypeDeletes, TypeRuns, TypeReaders, TypeRest
        DEF Deletes, Numbered

\* A worker that has got a target keeps it until it is done with it.
LEMMA AimedNext ==
  ASSUME TypeOK, Aimed, [Next]_vars
  PROVE  Aimed'
<1> USE DEF TypeOK
<1>1. ASSUME NEW a \in Deleter, NEW u, worker' = [worker EXCEPT ![a] = u],
             u.pc \in {"free", "plan", "next"} \/ u.target \in Backup
      PROVE  Aimed'
  BY <1>1 DEF Aimed
<1>2. "prune" \in Deleter /\ "delete" \in Deleter
  BY DEF Deleter
<1>3. \A a \in Deleter : worker[a] \in Workers
  OBVIOUS
<1>4. CASE UNCHANGED worker
  BY <1>4 DEF Aimed
<1>5. CASE PruneList
  <2> DEFINE u == [Free EXCEPT !.pc = "plan", !.complete = Complete,
                    !.incomplete = Incomplete, !.held = held \cap Complete]
  <2>1. worker' = [worker EXCEPT !["prune"] = u] /\ u.pc = "plan"
    BY <1>5 DEF PruneList, Free
  <2> HIDE DEF u
  <2> QED BY <1>1, <1>2, <2>1
<1>6. CASE PrunePlan
  <2>1. PICK wanted : worker' = [worker EXCEPT !["prune"] =
           [Free EXCEPT !.pc = "next", !.complete = worker["prune"].complete,
              !.remove = (worker["prune"].complete \cup worker["prune"].incomplete)
                           \ Kept(worker["prune"], wanted)]]
    BY <1>6 DEF PrunePlan
  <2> DEFINE u == [Free EXCEPT !.pc = "next", !.complete = worker["prune"].complete,
              !.remove = (worker["prune"].complete \cup worker["prune"].incomplete)
                           \ Kept(worker["prune"], wanted)]
  <2>2. worker' = [worker EXCEPT !["prune"] = u] /\ u.pc = "next"
    BY <2>1 DEF Free
  <2> HIDE DEF u
  <2> QED BY <1>1, <1>2, <2>2
<1>7. CASE PruneNext
  <2> DEFINE w == worker["prune"]
             b == Max(w.remove)
             rest == [w EXCEPT !.remove = @ \ {b}]
             u == IF w.remove = {} THEN Free
                  ELSE IF b \in w.needed THEN rest
                  ELSE [rest EXCEPT !.target = b,
                          !.pc = IF b \in w.complete THEN "leases" ELSE "completed?"]
  <2>1. worker' = [worker EXCEPT !["prune"] = u]
    BY <1>7 DEF PruneNext
  <2>2. w.remove # {} => b \in Backup
    <3>1. w.remove \in SUBSET (0 .. MaxBackup) /\ w.remove \subseteq Backup
      BY <1>2, <1>3 DEF Workers, Backup
    <3> QED BY <3>1, LastOfInterval
  <2> HIDE DEF b
  <2>3. u.pc \in {"free", "plan", "next"} \/ u.target \in Backup
    BY <1>2, <1>3, <1>7, <2>2 DEF PruneNext, Free, Workers
  <2> HIDE DEF u
  <2> QED BY <1>1, <1>2, <2>1, <2>3
<1>8. CASE PruneRecheck
  <2> DEFINE w == worker["prune"]
  <2>1. PICK more : worker' = [worker EXCEPT !["prune"] =
          IF Manifest \in stored[w.target] THEN SkipKeeping(w, more) ELSE [w EXCEPT !.pc = "leases"]]
    BY <1>8 DEF PruneRecheck
  <2> DEFINE u == IF Manifest \in stored[w.target] THEN SkipKeeping(w, more)
                                                  ELSE [w EXCEPT !.pc = "leases"]
  <2>2. w.target \in Backup
    BY <1>2, <1>8 DEF PruneRecheck, Aimed
  <2>3. u.pc \in {"free", "plan", "next"} \/ u.target \in Backup
    BY <1>2, <1>3, <2>2 DEF SkipKeeping, Workers
  <2>4. worker' = [worker EXCEPT !["prune"] = u]
    BY <2>1
  <2> HIDE DEF u
  <2> QED BY <1>1, <1>2, <2>3, <2>4
<1>9. ASSUME NEW b \in Backup, DeleteRequest(b) PROVE Aimed'
  <2> DEFINE u == [Free EXCEPT !.pc = "leases", !.target = b]
  <2>1. worker' = [worker EXCEPT !["delete"] = u] /\ u.target = b
    BY <1>9 DEF DeleteRequest, Free
  <2> HIDE DEF u
  <2> QED BY <1>1, <1>2, <2>1
<1>10. ASSUME NEW a \in Deleter,
              CheckLeases(a) \/ ObjectLocked(a) \/ DeleteCheckpoint(a) \/ Stop(a)
       PROVE  Aimed'
  <2>1. Skipped(a).pc \in {"free", "next"} /\ Left(a).pc \in {"free", "next"} /\ Free.pc = "free"
    BY <1>3 DEF Skipped, Left, SkipKeeping, Free, Workers
  <2> DEFINE u == [worker[a] EXCEPT !.pc = "manifest"]
  <2>2. u.target = worker[a].target
    BY <1>3 DEF Workers
  <2>3. CheckLeases(a) => worker[a].target \in Backup
    BY DEF CheckLeases, Aimed
  <2>4. worker' = [worker EXCEPT ![a] = Skipped(a)] \/ worker' = [worker EXCEPT ![a] = Left(a)]
          \/ worker' = [worker EXCEPT ![a] = Free]
          \/ (CheckLeases(a) /\ worker' = [worker EXCEPT ![a] = u])
    BY <1>10 DEF CheckLeases, ObjectLocked, DeleteCheckpoint, Stop
  <2> HIDE DEF u
  <2> QED BY <1>1, <2>1, <2>2, <2>3, <2>4
<1>11. ASSUME NEW a \in Deleter,
              DeleteManifest(a) \/ ListObjects(a) \/ DeleteObject(a) \/ DeleteAnnotations(a)
       PROVE  Aimed'
  <2>1. worker[a].target \in Backup
    BY <1>11 DEF DeleteManifest, ListObjects, DeleteObject, DeleteAnnotations, Aimed
  <2>2. ASSUME NEW pc, NEW listing,
               \/ worker' = [worker EXCEPT ![a] = [worker[a] EXCEPT !.pc = pc]]
               \/ worker' = [worker EXCEPT ![a] = [worker[a] EXCEPT !.listing = listing]]
               \/ worker' = [worker EXCEPT ![a] = [worker[a] EXCEPT !.pc = pc, !.listing = listing]]
        PROVE  Aimed'
    <3>1. /\ [worker[a] EXCEPT !.pc = pc].target = worker[a].target
          /\ [worker[a] EXCEPT !.listing = listing].target = worker[a].target
          /\ [worker[a] EXCEPT !.pc = pc, !.listing = listing].target = worker[a].target
      BY <1>3 DEF Workers
    <3> QED BY <1>1, <2>1, <2>2, <3>1
  <2>3. CASE DeleteManifest(a)
    <3>1. worker' = [worker EXCEPT ![a] = [worker[a] EXCEPT !.pc = "list"]]
      BY <2>3 DEF DeleteManifest
    <3> QED BY <2>2, <3>1
  <2>4. CASE ListObjects(a)
    <3>1. worker' = [worker EXCEPT ![a] = [worker[a] EXCEPT !.pc = "objects",
                                             !.listing = stored[worker[a].target]]]
      BY <2>4 DEF ListObjects
    <3> QED BY <2>2, <3>1
  <2>5. CASE DeleteObject(a)
    <3>1. PICK o : worker' = [worker EXCEPT ![a].listing = @ \ {o}]
      BY <2>5 DEF DeleteObject
    <3>2. worker' = [worker EXCEPT ![a] = [worker[a] EXCEPT !.listing = worker[a].listing \ {o}]]
      BY <3>1
    <3> QED BY <2>2, <3>2
  <2>6. CASE DeleteAnnotations(a)
    <3>1. worker' = [worker EXCEPT ![a] = [worker[a] EXCEPT !.pc = "checkpoint"]]
      BY <2>6 DEF DeleteAnnotations
    <3> QED BY <2>2, <3>1
  <2> QED BY <1>11, <2>3, <2>4, <2>5, <2>6
<1>12. CASE RunSteps \/ ReaderSteps \/ HoldSteps \/ GrowIdle \/ LeaseExpires \/ UNCHANGED vars
  <2>1. UNCHANGED worker
    BY <1>12 DEF RunSteps, StartFull, StartIncremental, StartResume, Begin, RunLease, RunRefused,
       RunLeaseLapses, RunWrite,
       RunCheckpoint, RunCommit, RunRemovesCheckpoint, RunFail, RunRelease, RunCrash,
       ReaderSteps, ReaderPlan, ReaderLease, ReaderRefused, ReaderLeaseLapses, ReaderVerify,
       ReaderDrop, ReaderLoad,
       ReaderEnd, ReadMember, HoldSteps, HoldCheck, HoldPut, ReleaseHold, GrowIdle, LeaseExpires,
       vars
  <2> QED BY <1>4, <2>1
<1> QED BY <1>5, <1>6, <1>7, <1>8, <1>9, <1>10, <1>11, <1>12, NextCases DEF Looks, Deletes

LEMMA NumberedNext ==
  ASSUME TypeOK, Numbered, [Next]_vars
  PROVE  Numbered'
<1> USE DEF TypeOK
<1>1. Aimed'
  BY AimedNext DEF Numbered
<1>2. next \in Nat /\ (run.pc # "free" => run.id \in Backup /\ run.id < next)
  BY DEF Numbered, Backup
<1>3. \/ UNCHANGED <<run, next>>
      \/ run'.pc = "free" /\ UNCHANGED next
      \/ run.pc # "free" /\ run'.id = run.id /\ UNCHANGED next
      \/ run'.id = next /\ next \in Backup /\ next' = next + 1
      \/ /\ run'.id \in Backup /\ stored[run'.id] # {} /\ UNCHANGED next
  <2>1. ASSUME StartFull \/ StartIncremental
        PROVE  run'.id = next /\ next \in Backup /\ next' = next + 1
    BY <2>1, NextIsBackup DEF StartFull, StartIncremental, Begin, NoRun
  <2>2. ASSUME StartResume
        PROVE  run'.id \in Backup /\ stored[run'.id] # {} /\ UNCHANGED next
    BY <2>2 DEF StartResume, Begin, NoRun
  <2>3. ASSUME \/ RunLease \/ RunRefused \/ RunLeaseLapses \/ RunWrite \/ RunCheckpoint
               \/ RunCommit \/ RunRemovesCheckpoint \/ RunFail
        PROVE  run.pc # "free" /\ run'.id = run.id /\ UNCHANGED next
    BY <2>3 DEF RunLease, RunRefused, RunLeaseLapses, RunWrite, RunCheckpoint, RunCommit,
       RunRemovesCheckpoint, RunFail, Runs
  <2>4. ASSUME RunRelease \/ RunCrash PROVE run'.pc = "free" /\ UNCHANGED next
    BY <2>4 DEF RunRelease, RunCrash, NoRun
  <2>5. ASSUME Looks \/ Deletes \/ ReaderSteps \/ HoldSteps \/ GrowIdle \/ LeaseExpires \/ UNCHANGED vars
        PROVE  UNCHANGED <<run, next>>
    BY <2>5 DEF Looks, PruneList, PrunePlan, PruneNext, PruneRecheck, DeleteRequest, CheckLeases,
       ListObjects, ObjectLocked, Stop, Deletes, DeleteManifest, DeleteObject, DeleteAnnotations,
       DeleteCheckpoint, ReaderSteps, ReaderPlan, ReaderLease, ReaderRefused, ReaderLeaseLapses,
       ReaderVerify,
       ReaderDrop, ReaderLoad, ReaderEnd, ReadMember, HoldSteps, HoldCheck, HoldPut, ReleaseHold,
       GrowIdle, LeaseExpires, vars
  <2> QED BY <2>1, <2>2, <2>3, <2>4, <2>5, NextCases DEF RunSteps
<1>4. \A b \in Backup : stored[b] # {} => b < next
  BY <1>2 DEF Numbered, Backup
<1>5. (run'.pc # "free" => run'.id \in 1 .. next' - 1) /\ next <= next'
  <2>1. next \in Int /\ next' \in Int /\ next <= next'
    BY <1>2, <1>3
  <2>2. CASE UNCHANGED next
    <3>1. run'.pc = "free" \/ (run.pc # "free" /\ run'.id = run.id) \/ UNCHANGED run
            \/ (run'.id \in Backup /\ run'.id < next)
      BY <1>2, <1>3, <1>4, <2>2
    <3> QED BY <2>1, <2>2, <3>1 DEF Numbered, Backup
  <2>3. CASE next' # next
    <3>1. run'.id = next /\ next \in Backup /\ next' = next + 1
      BY <1>3, <2>3
    <3> QED BY <2>1, <3>1 DEF Backup
  <2> QED BY <2>1, <2>2, <2>3
<1>6. reader'.pc # "free" => reader'.id \in Backup
  <2>1. ASSUME ReaderSteps PROVE reader'.pc = "free" \/ reader'.id \in Backup
    <3>1. CASE ReaderPlan
      BY <3>1 DEF ReaderPlan, NoReader, Complete
    <3>2. CASE ReaderEnd
      BY <3>2 DEF ReaderEnd, NoReader
    <3>3. CASE ReaderLease \/ ReaderRefused \/ ReaderLeaseLapses \/ ReaderVerify \/ ReaderDrop \/ ReaderLoad
      BY <3>3 DEF ReaderLease, ReaderRefused, ReaderLeaseLapses, ReaderVerify, ReaderDrop,
         ReaderLoad, ReadMember,
         Readers, Numbered
    <3> QED BY <2>1, <3>1, <3>2, <3>3 DEF ReaderSteps
  <2>2. ASSUME Looks \/ Deletes \/ RunSteps \/ HoldSteps \/ GrowIdle \/ LeaseExpires \/ UNCHANGED vars
        PROVE  UNCHANGED reader
    BY <2>2 DEF Looks, PruneList, PrunePlan, PruneNext, PruneRecheck, DeleteRequest, CheckLeases,
       ListObjects, ObjectLocked, Stop, Deletes, DeleteManifest, DeleteObject, DeleteAnnotations,
       DeleteCheckpoint, RunSteps, StartFull, StartIncremental, StartResume, Begin, RunLease,
       RunRefused, RunLeaseLapses, RunWrite,
       RunCheckpoint, RunCommit, RunRemovesCheckpoint, RunFail, RunRelease, RunCrash, HoldSteps,
       HoldCheck, HoldPut, ReleaseHold, GrowIdle, LeaseExpires, vars
  <2> QED BY <2>1, <2>2, NextCases DEF Numbered
<1>7. hold'.pc = "put" => hold'.id \in Backup
  <2>1. ASSUME HoldSteps PROVE hold' = hold \/ hold'.pc = "free" \/ hold'.id \in Backup
    BY <2>1 DEF HoldSteps, HoldCheck, HoldPut, ReleaseHold, NoHold, Complete
  <2>2. ASSUME Looks \/ Deletes \/ RunSteps \/ ReaderSteps \/ GrowIdle \/ LeaseExpires \/ UNCHANGED vars
        PROVE  UNCHANGED hold
    BY <2>2 DEF Looks, PruneList, PrunePlan, PruneNext, PruneRecheck, DeleteRequest, CheckLeases,
       ListObjects, ObjectLocked, Stop, Deletes, DeleteManifest, DeleteObject, DeleteAnnotations,
       DeleteCheckpoint, RunSteps, StartFull, StartIncremental, StartResume, Begin, RunLease,
       RunRefused, RunLeaseLapses, RunWrite,
       RunCheckpoint, RunCommit, RunRemovesCheckpoint, RunFail, RunRelease, RunCrash, ReaderSteps,
       ReaderPlan, ReaderLease, ReaderRefused, ReaderLeaseLapses, ReaderVerify, ReaderDrop,
       ReaderLoad, ReaderEnd,
       ReadMember, GrowIdle, LeaseExpires, vars
  <2> QED BY <2>1, <2>2, NextCases DEF Numbered
<1>8. \A b \in Backup : b >= next' => stored'[b] = {}
  <2>1. \A b \in Backup : stored[b] = {} /\ ~ (run.pc # "free" /\ b = run.id) => stored'[b] = {}
    <3>1. ASSUME Looks \/ ReaderSteps \/ HoldSteps \/ GrowIdle \/ LeaseExpires \/ UNCHANGED vars
          PROVE  UNCHANGED stored
      BY <3>1 DEF Looks, PruneList, PrunePlan, PruneNext, PruneRecheck, DeleteRequest, CheckLeases,
         ListObjects, ObjectLocked, Stop, ReaderSteps, ReaderPlan, ReaderLease, ReaderRefused,
         ReaderLeaseLapses,
         ReaderVerify, ReaderDrop, ReaderLoad, ReaderEnd, ReadMember, HoldSteps, HoldCheck, HoldPut,
         ReleaseHold, GrowIdle, LeaseExpires, vars, storage
    <3>2. ASSUME NEW a \in Deleter,
                 DeleteManifest(a) \/ DeleteObject(a) \/ DeleteAnnotations(a) \/ DeleteCheckpoint(a)
          PROVE  \A b \in Backup : stored'[b] \subseteq stored[b]
      BY <3>2 DEF DeleteManifest, DeleteObject, DeleteAnnotations, DeleteCheckpoint, storage
    <3>3. ASSUME RunSteps
          PROVE  \A b \in Backup : ~ (run.pc # "free" /\ b = run.id) => stored'[b] = stored[b]
      BY <1>2, <3>3 DEF RunSteps, StartFull, StartIncremental, StartResume, Begin, RunLease,
         RunRefused, RunLeaseLapses, RunWrite,
         RunCheckpoint, RunCommit, RunRemovesCheckpoint, RunFail, RunRelease, RunCrash, storage
    <3> QED BY <3>1, <3>2, <3>3, NextCases DEF Deletes
  <2>2. \A b \in Backup : b >= next' => b >= next /\ ~ (run.pc # "free" /\ b = run.id)
    <3>1. next \in Int /\ next' \in Int /\ (run.pc # "free" => run.id \in Int)
      BY <1>2, <1>3 DEF Backup
    <3> QED BY <1>2, <1>5, <3>1 DEF Backup
  <2> QED BY <2>1, <2>2 DEF Numbered
<1> QED BY <1>1, <1>5, <1>6, <1>7, <1>8 DEF Numbered

-----------------------------------------------------------------------------
(* The inductive invariant *)

\* The company of the theorems: while a prune or delete is at work no incremental, no
\* resume and no hold begins.  A full backup may, and restores may at any time.
Uncontested == \A c \in Cast : c.overlap \subseteq {"full"}

pruner == worker["prune"]
deleter == worker["delete"]

AtWork(a) == worker[a].pc # "free"

\* A worker that has looked at the leases for the last time, and goes on.
Past(a) == worker[a].pc \in {"manifest", "list", "objects", "checkpoint"}

\* What the prune at work may still delete.
Doomed == pruner.remove \cup ({pruner.target} \cap Backup)

\* Nothing is stored under an id not given yet; only full backups have a checkpoint.
CatalogInv ==
  /\ \A b \in Backup : b >= next => stored[b] = {} /\ checkpoint[b] = {}
  /\ \A b \in Backup : checkpoint[b] # {} => parent[b] = 0

\* What is at risk: the backup a full run is writing without a lease.
AtRisk == IF run.pc = "write" /\ run.kind = "full" /\ ~ run.leased THEN {run.id} ELSE {}

\* What a run is writing and nobody may touch.
Written == IF run.pc \in {"lease", "write"} THEN {run.id} \ AtRisk ELSE {}

\* A run writes under an id of its own.  What it has written is there unless it is at risk,
\* for its lease was there before its first object.
RunInv ==
  run.pc # "free" =>
    /\ run.id \in 1 .. next - 1
    /\ run.kind # "incremental" => parent[run.id] = 0
    /\ run.pc \in {"lease", "write"} => run.id \notin Complete
    /\ run.id \in Written => run.done \subseteq stored[run.id]
    /\ run.pc = "write" /\ run.leased => <<"run", run.id>> \in leases
    /\ run.pc = "lease" => ~ run.leased
    /\ run.pc = "lease" /\ run.kind = "full" => stored[run.id] = {}
    /\ run.kind # "full" => \A a \in Deleter : ~ AtWork(a)
    /\ run.kind = "incremental" /\ run.pc \in {"lease", "write"} => parent[run.id] \in Complete

HoldInv == hold.pc = "put" => hold.id \in Complete /\ \A a \in Deleter : ~ AtWork(a)

\* A worker that looked at the leases does not aim at the backup the run is writing, and
\* one that deleted a manifest does not aim at a complete backup, unless that was written at
\* risk since, nor at one with a promise or a child.
WorkerInv(a) ==
  /\ AtWork(a) => a \in Actor
  /\ worker[a].pc \in {"free", "plan", "next"} <=> worker[a].target = 0
  /\ worker[a].target < next
  /\ worker[a].pc \in {"list", "objects", "checkpoint"} =>
       /\ worker[a].target \in Complete => worker[a].target \in exposed /\ parent[worker[a].target] = 0
       /\ worker[a].target \notin promised
       /\ \A c \in Complete : parent[c] # worker[a].target
  /\ worker[a].target \in Written => ~ Past(a) /\ run.pc # "lease"

\* Until its manifest goes, the target of a delete has no promise and no child.
DeleteInv ==
  deleter.pc \in {"leases", "manifest"} =>
    /\ deleter.target \notin promised
    /\ \A c \in Complete : parent[c] # deleter.target

\* What the prune listed: old backups, every complete incremental, every promise.
ListingInv ==
  /\ pruner.complete \cup pruner.incomplete \cup pruner.remove \subseteq 1 .. next - 1
  /\ run.pc = "lease" => run.id \notin pruner.complete \cup pruner.incomplete
  /\ AtWork("prune") => \A c \in Complete : parent[c] # 0 => c \in pruner.complete
  /\ pruner.pc = "plan" => promised \subseteq pruner.held
  /\ pruner.pc \in {"free", "plan"} => pruner.remove = {} /\ pruner.needed = {}
  /\ ~ AtWork("prune") => pruner.complete = {} /\ pruner.incomplete = {}

\* What it aims at: the newest of what is left, not needed, and listed as complete if it
\* is complete.
TargetInv ==
  /\ \A r \in pruner.remove : pruner.target # 0 => r < pruner.target
  /\ pruner.pc \in {"completed?", "leases", "manifest"} => pruner.target \notin pruner.needed
  /\ pruner.pc \in {"leases", "manifest"} /\ pruner.target \in Complete =>
       pruner.target \in pruner.complete \cup exposed

\* What it spares: the backup a run writes under its lease, and every promise.
SparedInv ==
  /\ Doomed \cap Written = {}
  /\ Doomed \cap promised = {}

\* With a backup it goes for or spares, its children (or its parent) go or are spared too.
ClosedInv ==
  /\ \A c \in Complete \cap pruner.needed : parent[c] # 0 => parent[c] \in pruner.needed
  /\ \A c \in Complete : parent[c] \in Doomed \ pruner.needed => c \in Doomed

PruneInv == ListingInv /\ TargetInv /\ SparedInv /\ ClosedInv

\* The chain a restore works on: every member but the newest is the parent of a member.
MembersInv ==
  /\ reader.pc # "free" =>
       /\ reader.id \in reader.members /\ reader.id < next
       /\ reader.left \subseteq reader.members
       /\ \A m \in reader.members :
            m <= reader.id /\ (m # reader.id => \E c \in reader.members : parent[c] = m)
  /\ reader.pc \in {"free", "lease"} => ~ reader.shielded
  /\ reader.shielded =>
       /\ reader.members \subseteq Complete
       /\ \A m \in reader.members : Readable(m)
       /\ <<"reader", reader.id>> \in leases

\* No worker that went past its last look aims at a member of a shielded chain.
ShieldInv(a) == reader.shielded /\ Past(a) => worker[a].target \notin reader.members

PromisesInv == promised \subseteq held \cap Complete

StorageInv ==
  CatalogInv /\ PromisesInv /\ ChainsIntact /\ CommittedIsWhole

IInv ==
  /\ TypeOK
  /\ StorageInv /\ RunInv /\ HoldInv /\ DeleteInv /\ PruneInv
  /\ MembersInv /\ ShieldedReaderFinishes
  /\ \A a \in Deleter : WorkerInv(a) /\ ShieldInv(a)

LEMMA Alone ==
  ASSUME Uncontested, IInv
  PROVE  /\ MayStart("incremental") => \A a \in Deleter : ~ AtWork(a)
         /\ MayStart("resume") => \A a \in Deleter : ~ AtWork(a)
         /\ MayStart("hold") => \A a \in Deleter : ~ AtWork(a)
         /\ MayDelete => (run.pc # "free" => run.kind = "full") /\ hold.pc # "put"
<1>1. Concurrent \subseteq {"full"}
  BY DEF Uncontested, Concurrent, IInv, TypeOK
<1>2. Working = {} => \A a \in Deleter : ~ AtWork(a)
  BY DEF Working, AtWork, IInv, WorkerInv
<1> QED BY <1>1, <1>2 DEF MayStart, MayDelete

\* What the invariant says of the ids at hand.
LEMMA Ids ==
  ASSUME IInv
  PROVE  /\ Parents
         /\ \A b \in Complete : b \in Backup /\ b \in 1 .. next - 1
         /\ \A b \in Incomplete : b \in Backup /\ b \in 1 .. next - 1
         /\ run.pc # "free" => run.id \in Backup
         /\ reader.pc # "free" => reader.id \in Backup
         /\ hold.pc = "put" => hold.id \in Backup
         /\ Aimed
         /\ Doomed \subseteq Backup /\ 0 \notin Doomed
         /\ Written \subseteq Backup /\ 0 \notin Written
         /\ \A a \in Deleter : Past(a) => AtWork(a) /\ worker[a].target \in Backup
<1> USE DEF IInv
<1>1. Parents
  BY DEF TypeOK, Parents
<1>2. \A b \in Backup : stored[b] # {} => b \in 1 .. next - 1
  <2>1. \A b \in Backup : stored[b] # {} => ~ (b >= next)
    BY DEF StorageInv, CatalogInv
  <2>2. next \in Int
    BY DEF TypeOK
  <2> QED BY <2>1, <2>2 DEF Backup
<1>3. Complete \subseteq Backup /\ Incomplete \subseteq Backup
  BY DEF Complete, Incomplete
<1>4. \A b \in Complete \cup Incomplete : stored[b] # {}
  BY DEF Complete, Incomplete
<1>5. run.pc # "free" => run.id \in Backup
  BY DEF RunInv, TypeOK, Backup
<1>6. reader.pc # "free" => reader.id \in Backup
  BY DEF MembersInv, TypeOK, Readers
<1>7. hold.pc = "put" => hold.id \in Backup
  BY <1>3 DEF HoldInv
<1>8. \A a \in Deleter : worker[a] \in Workers /\ worker[a].target \in 0 .. MaxBackup
  BY DEF TypeOK, Workers
<1>9. Aimed
  BY <1>8 DEF WorkerInv, Aimed, Backup
<1>10. \A a \in Deleter : Past(a) => AtWork(a) /\ worker[a].target \in Backup
  BY <1>9 DEF Aimed, Past, AtWork
<1>11. Doomed \subseteq Backup /\ 0 \notin Doomed
  <2>1. pruner.remove \subseteq Backup
    BY DEF TypeOK, Deleter, pruner, Workers
  <2> QED BY <2>1 DEF Doomed, Backup
<1>12. Written \subseteq Backup /\ 0 \notin Written
  <2>1. Written # {} => Written = {run.id} /\ run.pc # "free"
    BY DEF Written
  <2> QED BY <1>5, <2>1 DEF Backup
<1> QED BY <1>1, <1>2, <1>3, <1>4, <1>5, <1>6, <1>7, <1>9, <1>10, <1>11, <1>12

-----------------------------------------------------------------------------
(* Looking: nothing changes but one worker (and a checkpoint may go) *)

SameWorld ==
  /\ UNCHANGED <<stored, parent, next, leases, held, promised, exposed, cast, run, reader, hold>>
  /\ \A b \in Backup : checkpoint'[b] # {} => checkpoint[b] # {}

LEMMA LookFrame ==
  ASSUME Looks
  PROVE  SameWorld
BY DEF Looks, PruneList, PrunePlan, PruneNext, PruneRecheck, DeleteRequest, CheckLeases,
       ListObjects, ObjectLocked, Stop, storage, notes, SameWorld

\* While a prune or delete is at work, what a run writes is in use from its lease on.
LEMMA WrittenInUse ==
  ASSUME IInv, NEW a \in Deleter, AtWork(a), NEW b \in Written
  PROVE  InUse(b) \/ (run.pc = "lease" /\ run.id = b)
<1>1. b = run.id /\ run.pc \in {"lease", "write"} /\ run.id \notin AtRisk
  BY DEF Written
<1>2. run.kind = "full" /\ (run.leased /\ run.pc = "write" => <<"run", run.id>> \in leases)
  BY <1>1 DEF IInv, RunInv, TypeOK, Runs
<1>3. run.leased \in BOOLEAN
  BY DEF IInv, TypeOK, Runs
<1> QED BY <1>1, <1>2, <1>3 DEF AtRisk, InUse

\* What is written depends on the run alone.
LEMMA SameRun ==
  ASSUME UNCHANGED run
  PROVE  Written' = Written
BY DEF Written, AtRisk

\* What remains to be shown when the prune takes a look.
LEMMA PrunerLooks ==
  ASSUME Uncontested, IInv, TypeOK', SameWorld, NEW u,
         worker' = [worker EXCEPT !["prune"] = u],
         u.pc # "free" => AtWork("prune") \/ MayDelete,
         WorkerInv("prune")', PruneInv', ShieldInv("prune")'
  PROVE  IInv'
<1> USE DEF IInv, SameWorld
<1>1. Deleter = {"prune", "delete"} /\ worker'["prune"] = u /\ worker'["delete"] = worker["delete"]
  BY DEF TypeOK, Deleter
<1>2. Complete' = Complete /\ Written' = Written
  BY SameRun DEF Complete
<1>3. StorageInv' /\ MembersInv' /\ ShieldedReaderFinishes'
  BY <1>2 DEF StorageInv, CatalogInv, PromisesInv, ChainsIntact, CommittedIsWhole, Readable,
     MembersInv,
     ShieldedReaderFinishes
<1>4. \A a \in Deleter : AtWork(a)' => AtWork(a) \/ MayDelete
  BY <1>1 DEF AtWork
<1>5. RunInv' /\ HoldInv'
  BY <1>2, <1>4, Alone DEF RunInv, HoldInv
<1>6. WorkerInv("delete")' /\ ShieldInv("delete")' /\ DeleteInv'
  BY <1>1, <1>2 DEF WorkerInv, ShieldInv, DeleteInv, Past, AtWork, Actor, deleter, Deleter
<1> QED BY <1>1, <1>3, <1>5, <1>6

\* The same for a delete.
LEMMA DeleterLooks ==
  ASSUME Uncontested, IInv, TypeOK', SameWorld, NEW u,
         worker' = [worker EXCEPT !["delete"] = u],
         u.pc # "free" => AtWork("delete") \/ MayDelete,
         WorkerInv("delete")', DeleteInv', ShieldInv("delete")'
  PROVE  IInv'
<1> USE DEF IInv, SameWorld
<1>1. Deleter = {"prune", "delete"} /\ worker'["delete"] = u /\ worker'["prune"] = worker["prune"]
  BY DEF TypeOK, Deleter
<1>2. Complete' = Complete /\ Written' = Written
  BY SameRun DEF Complete
<1>3. StorageInv' /\ MembersInv' /\ ShieldedReaderFinishes'
  BY <1>2 DEF StorageInv, CatalogInv, PromisesInv, ChainsIntact, CommittedIsWhole, Readable,
     MembersInv,
     ShieldedReaderFinishes
<1>4. \A a \in Deleter : AtWork(a)' => AtWork(a) \/ MayDelete
  BY <1>1 DEF AtWork
<1>5. RunInv' /\ HoldInv'
  BY <1>2, <1>4, Alone DEF RunInv, HoldInv
<1>6. WorkerInv("prune")' /\ ShieldInv("prune")'
  BY <1>1, <1>2 DEF WorkerInv, ShieldInv, Past, AtWork, Actor, Deleter
<1>7. PruneInv'
  BY <1>1, <1>2 DEF PruneInv, ListingInv, TargetInv, SparedInv, ClosedInv, Doomed, pruner, AtWork
<1> QED BY <1>1, <1>3, <1>5, <1>6, <1>7

-----------------------------------------------------------------------------
(* The prune's looks *)

\* It passes over its target and keeps more: whatever its target needs.
LEMMA PrunerSkips ==
  ASSUME Uncontested, IInv, TypeOK', SameWorld,
         pruner.pc \in {"completed?", "leases", "manifest", "objects", "checkpoint"}, NEW more,
         worker' = [worker EXCEPT !["prune"] = SkipKeeping(pruner, more)],
         \A c \in Complete \cap more : parent[c] # 0 => parent[c] \in more,
         pruner.target \in Complete /\ parent[pruner.target] # 0 => parent[pruner.target] \in more
  PROVE  IInv'
<1> USE DEF IInv, SameWorld
<1>1. "prune" \in Deleter /\ pruner \in Workers
  BY DEF TypeOK, Deleter, pruner
<1>2. /\ pruner'.pc = "next" /\ pruner'.target = 0
      /\ pruner'.complete = pruner.complete /\ pruner'.incomplete = pruner.incomplete
      /\ pruner'.remove = pruner.remove /\ pruner'.needed = pruner.needed \cup more
  BY <1>1 DEF pruner, SkipKeeping, Workers, TypeOK
<1>3. Complete' = Complete /\ Doomed' \subseteq Doomed /\ Doomed \subseteq Doomed' \cup {pruner.target}
  BY <1>2 DEF Complete, Doomed, Backup
<1>11. Written' = Written
  BY SameRun
<1>4. AtWork("prune") /\ AtWork("prune")' /\ ~ Past("prune")'
  BY <1>2 DEF AtWork, Past, pruner
<1>5. ListingInv'
  BY <1>2, <1>3, <1>4 DEF PruneInv, ListingInv
<1>6. TargetInv'
  BY <1>2 DEF TargetInv
<1>7. SparedInv'
  BY <1>3, <1>11 DEF PruneInv, SparedInv
<1>8. ClosedInv'
  <2>1. \A c \in Complete \cap pruner'.needed : parent[c] # 0 => parent[c] \in pruner'.needed
    BY <1>2 DEF PruneInv, ClosedInv
  <2>2. ASSUME NEW c \in Complete, parent[c] \in Doomed' \ pruner'.needed PROVE c \in Doomed'
    <3>1. parent[c] \in Doomed \ pruner.needed /\ parent[c] \notin more
      BY <1>2, <1>3, <2>2
    <3>2. c \in Doomed /\ parent[c] # 0
      BY <3>1, Ids DEF PruneInv, ClosedInv
    <3>3. c # pruner.target
      BY <3>1, <3>2
    <3> QED BY <1>3, <3>2, <3>3
  <2> QED BY <1>3, <2>1, <2>2 DEF ClosedInv
<1>9. WorkerInv("prune")' /\ ShieldInv("prune")'
  <2>1. "prune" \in Actor'
    BY <1>1, <1>4 DEF WorkerInv, Actor
  <2>2. pruner'.target < next' /\ pruner'.target \notin Written'
    BY <1>2, SameRun, Ids DEF TypeOK
  <2> QED BY <1>2, <1>4, <2>1, <2>2 DEF WorkerInv, ShieldInv, pruner
<1>10. worker' = [worker EXCEPT !["prune"] = SkipKeeping(pruner, more)]
  OBVIOUS
<1> DEFINE u == SkipKeeping(pruner, more)
<1> HIDE DEF u
<1> QED BY <1>4, <1>5, <1>6, <1>7, <1>8, <1>9, <1>10, PrunerLooks DEF PruneInv, u

\* It goes on to the next step with the same target.
LEMMA PrunerGoesOn ==
  ASSUME Uncontested, IInv, TypeOK', SameWorld, NEW u \in Workers,
         worker' = [worker EXCEPT !["prune"] = u],
         pruner.pc \in {"completed?", "leases", "list"},
         /\ u.target = pruner.target
         /\ u.complete = pruner.complete /\ u.incomplete = pruner.incomplete
         /\ u.remove = pruner.remove /\ u.needed = pruner.needed,
         \/ pruner.pc = "completed?" /\ u.pc = "leases" /\ pruner.target \notin Complete
         \/ /\ pruner.pc = "leases" /\ u.pc = "manifest"
            /\ pruner.target \notin Written
            /\ reader.shielded => pruner.target \notin reader.members
         \/ pruner.pc = "list" /\ u.pc = "objects"
  PROVE  IInv'
<1> USE DEF IInv, SameWorld
<1>1. "prune" \in Deleter /\ pruner' = u /\ worker'["prune"] = u /\ pruner = worker["prune"]
  BY DEF TypeOK, Deleter, pruner
<1>2. Complete' = Complete /\ Doomed' = Doomed /\ Written' = Written
  BY <1>1, SameRun DEF Complete, Doomed
<1>3. AtWork("prune") /\ AtWork("prune")'
  BY <1>1 DEF AtWork
<1>4. PruneInv'
  BY <1>1, <1>2, <1>3 DEF PruneInv, ListingInv, TargetInv, SparedInv, ClosedInv
<1>5. WorkerInv("prune")'
  BY <1>1, <1>2, <1>3 DEF WorkerInv, Past, Actor
<1>6. ShieldInv("prune")'
  BY <1>1 DEF ShieldInv, Past
<1> QED BY <1>3, <1>4, <1>5, <1>6, PrunerLooks

\* The worker gives up: the process is free again.
LEMMA PrunerFree ==
  ASSUME Uncontested, IInv, TypeOK', SameWorld, worker' = [worker EXCEPT !["prune"] = Free]
  PROVE  IInv'
<1> USE DEF IInv
<1>1. "prune" \in Deleter /\ pruner = worker["prune"]
  BY DEF pruner, Deleter
<1>2. /\ pruner'.pc = "free" /\ pruner'.target = 0
      /\ pruner'.complete = {} /\ pruner'.incomplete = {}
      /\ pruner'.remove = {} /\ pruner'.needed = {}
  BY <1>1 DEF pruner, Free, TypeOK
<1>3. PruneInv'
  BY <1>2 DEF PruneInv, ListingInv, TargetInv, SparedInv, ClosedInv, Doomed, Backup, AtWork, pruner
<1>4. WorkerInv("prune")' /\ ShieldInv("prune")'
  <2>1. 0 < next' /\ 0 \notin Written'
    BY SameRun, Ids DEF SameWorld, TypeOK
  <2> QED BY <1>2, <2>1 DEF WorkerInv, ShieldInv, Past, AtWork, pruner
<1>5. Free.pc = "free"
  BY DEF Free
<1> QED BY <1>3, <1>4, <1>5, PrunerLooks

LEMMA DeleterFree ==
  ASSUME Uncontested, IInv, TypeOK', SameWorld, worker' = [worker EXCEPT !["delete"] = Free]
  PROVE  IInv'
<1> USE DEF IInv
<1>1. "delete" \in Deleter /\ deleter = worker["delete"]
  BY DEF deleter, Deleter
<1>2. deleter'.pc = "free" /\ deleter'.target = 0
  BY <1>1 DEF deleter, Free, TypeOK
<1>3. DeleteInv'
  BY <1>2 DEF DeleteInv
<1>4. WorkerInv("delete")' /\ ShieldInv("delete")'
  <2>1. 0 < next' /\ 0 \notin Written'
    BY SameRun, Ids DEF SameWorld, TypeOK
  <2> QED BY <1>2, <2>1 DEF WorkerInv, ShieldInv, Past, AtWork, deleter
<1>5. Free.pc = "free"
  BY DEF Free
<1> QED BY <1>3, <1>4, <1>5, DeleterLooks

LEMMA PruneListKeeps ==
  ASSUME Uncontested, IInv, TypeOK', PruneList
  PROVE  IInv'
<1> USE DEF IInv
<1>1. Looks /\ SameWorld
  BY LookFrame DEF Looks
<1> DEFINE u == [Free EXCEPT !.pc = "plan", !.complete = Complete,
                    !.incomplete = Incomplete, !.held = held \cap Complete]
<1>2. worker' = [worker EXCEPT !["prune"] = u] /\ MayDelete
  BY DEF PruneList
<1>3. /\ pruner'.pc = "plan" /\ pruner'.target = 0
      /\ pruner'.complete = Complete /\ pruner'.incomplete = Incomplete
      /\ pruner'.held = held \cap Complete
      /\ pruner'.remove = {} /\ pruner'.needed = {}
  BY <1>2 DEF Free, pruner, TypeOK, Deleter
<1>4. Complete' = Complete /\ Doomed' = {}
  BY <1>1, <1>3 DEF Complete, Doomed, SameWorld, Backup
<1>5. ListingInv'
  <2>1. run.pc = "lease" => run.id \notin Complete \cup Incomplete
    <3>1. run.pc = "lease" => stored[run.id] = {}
      BY <1>2, Alone DEF RunInv
    <3> QED BY <3>1 DEF Complete, Incomplete
  <2>2. Complete \cup Incomplete \subseteq 1 .. next - 1
    BY Ids
  <2>3. promised \subseteq held \cap Complete
    BY DEF StorageInv, PromisesInv
  <2> QED BY <1>1, <1>3, <1>4, <2>1, <2>2, <2>3 DEF ListingInv, SameWorld, AtWork, pruner
<1>6. TargetInv' /\ SparedInv' /\ ClosedInv'
  BY <1>3, <1>4 DEF TargetInv, SparedInv, ClosedInv
<1>7. WorkerInv("prune")' /\ ShieldInv("prune")'
  <2>1. "prune" \in Actor' /\ 0 < next' /\ 0 \notin Written'
    BY <1>1, SameRun, Ids DEF PruneList, Actor, SameWorld, TypeOK
  <2> QED BY <1>3, <2>1 DEF WorkerInv, ShieldInv, pruner, Past
<1> HIDE DEF u
<1> QED BY <1>1, <1>2, <1>5, <1>6, <1>7, PrunerLooks DEF PruneInv

\* The plan: what goes has no complete child that stays, for whoever is kept keeps its chain.
LEMMA PrunePlanKeeps ==
  ASSUME Uncontested, IInv, TypeOK', PrunePlan
  PROVE  IInv'
<1> USE DEF IInv
<1>1. Looks /\ SameWorld
  BY LookFrame DEF Looks
<1>2. pruner.pc = "plan" /\ pruner = worker["prune"] /\ pruner \in Workers /\ "prune" \in Deleter
  BY DEF PrunePlan, pruner, TypeOK, Deleter
<1> DEFINE listed == pruner.complete \cup pruner.incomplete
<1>3. PICK wanted \in SUBSET pruner.complete :
        worker' = [worker EXCEPT !["prune"] =
               [Free EXCEPT !.pc = "next", !.complete = pruner.complete,
                  !.remove = (pruner.complete \cup pruner.incomplete) \ Kept(pruner, wanted)]]
  BY <1>2 DEF PrunePlan
<1> DEFINE kept == Kept(pruner, wanted)
           reasons == wanted \cup pruner.held \cup (pruner.incomplete \ idle)
                        \cup {b \in pruner.complete \cup pruner.incomplete : InUse(b)}
<1>4. kept = reasons \cup UNION {Ancestors(pruner.complete, b) : b \in reasons}
  BY DEF Kept
<1>5. /\ pruner'.pc = "next" /\ pruner'.target = 0
      /\ pruner'.complete = pruner.complete /\ pruner'.incomplete = {}
      /\ pruner'.remove = listed \ kept /\ pruner'.needed = {}
  BY <1>2, <1>3 DEF Free, pruner, TypeOK
<1>6. listed \subseteq Backup /\ reasons \subseteq Backup
  BY <1>2 DEF Workers
<1>7. Complete' = Complete /\ Doomed' = listed \ kept
  BY <1>1, <1>5 DEF Complete, Doomed, SameWorld, Backup
<1> HIDE DEF kept, reasons
<1>8. ListingInv'
  <2>1. listed \subseteq 1 .. next - 1 /\ (run.pc = "lease" => run.id \notin listed)
    BY DEF PruneInv, ListingInv
  <2>2. \A c \in Complete : parent[c] # 0 => c \in pruner.complete
    BY <1>2 DEF PruneInv, ListingInv, AtWork
  <2> QED BY <1>1, <1>2, <1>5, <1>7, <2>1, <2>2 DEF ListingInv, SameWorld, AtWork, pruner
<1>9. TargetInv'
  BY <1>5 DEF TargetInv
<1>10. SparedInv'
  <2>1. Written \cap (listed \ kept) = {}
    <3>1. \A b \in Written : InUse(b) \/ (run.pc = "lease" /\ run.id = b)
      BY <1>2, WrittenInUse DEF AtWork
    <3>2. run.pc = "lease" => run.id \notin listed
      BY DEF PruneInv, ListingInv
    <3>3. \A b \in listed : InUse(b) => b \in kept
      BY <1>4 DEF reasons
    <3> QED BY <3>1, <3>2, <3>3
  <2>2. promised \subseteq kept
    BY <1>2, <1>4 DEF PruneInv, ListingInv, reasons
  <2> QED BY <1>1, <1>7, <2>1, <2>2, SameRun DEF SparedInv, SameWorld
<1>11. ClosedInv'
  <2>1. ASSUME NEW c \in Complete, parent[c] \in listed \ kept PROVE c \in listed \ kept
    <3>1. parent[c] # 0 /\ c \in pruner.complete
      <4>1. parent[c] # 0
        BY <1>6, <2>1 DEF Backup
      <4> QED BY <1>2, <4>1 DEF PruneInv, ListingInv, AtWork
    <3>2. ASSUME c \in kept PROVE FALSE
      <4>1. PICK b \in reasons : c \in Ancestors(pruner.complete, b) \cup {b}
        BY <1>4, <3>2
      <4>2. b \in Backup /\ Parents
        BY <1>6, Ids
      <4>3. parent[c] \in Ancestors(pruner.complete, b)
        BY <3>1, <4>1, <4>2, AncestorsClosed
      <4> QED BY <1>4, <2>1, <4>3
    <3> QED BY <3>1, <3>2
  <2> QED BY <1>1, <1>5, <1>7, <2>1 DEF ClosedInv, SameWorld
<1>12. WorkerInv("prune")' /\ ShieldInv("prune")'
  <2>1. "prune" \in Actor' /\ 0 < next' /\ 0 \notin Written'
    BY <1>1, <1>2, SameRun, Ids DEF Actor, SameWorld, TypeOK, WorkerInv, AtWork
  <2> QED BY <1>5, <2>1 DEF WorkerInv, ShieldInv, pruner, Past
<1>13. AtWork("prune")
  BY <1>2 DEF AtWork
<1> DEFINE u == [Free EXCEPT !.pc = "next", !.complete = pruner.complete,
                  !.remove = (pruner.complete \cup pruner.incomplete) \ Kept(pruner, wanted)]
<1>14. worker' = [worker EXCEPT !["prune"] = u]
  BY <1>3
<1> HIDE DEF u
<1> QED BY <1>1, <1>8, <1>9, <1>10, <1>11, <1>12, <1>13, <1>14, PrunerLooks DEF PruneInv

\* The newest of what is left: passed over when something kept needs it, else aimed at.
LEMMA PruneNextKeeps ==
  ASSUME Uncontested, IInv, TypeOK', PruneNext
  PROVE  IInv'
<1> USE DEF IInv
<1>1. Looks /\ SameWorld
  BY LookFrame DEF Looks
<1>2. pruner.pc = "next" /\ pruner = worker["prune"] /\ pruner \in Workers /\ "prune" \in Deleter
  BY DEF PruneNext, pruner, TypeOK, Deleter
<1>3. pruner.target = 0 /\ AtWork("prune") /\ "prune" \in Actor
  BY <1>2 DEF WorkerInv, AtWork
<1>4. Complete' = Complete /\ Doomed = pruner.remove
  BY <1>1, <1>3 DEF Complete, SameWorld, Doomed, Backup
<1> DEFINE b == Max(pruner.remove)
           rest == [pruner EXCEPT !.remove = @ \ {b}]
           aimed == [rest EXCEPT !.target = b,
                       !.pc = IF b \in pruner.complete THEN "leases" ELSE "completed?"]
<1>5. worker' = [worker EXCEPT !["prune"] =
          IF pruner.remove = {} THEN Free ELSE IF b \in pruner.needed THEN rest ELSE aimed]
  BY <1>2 DEF PruneNext
<1>6. pruner.remove # {} => b \in pruner.remove /\ \A r \in pruner.remove : r <= b
  <2>1. pruner.remove \in SUBSET (0 .. MaxBackup)
    BY <1>2 DEF Workers, Backup
  <2> QED BY <2>1, LastOfInterval
<1>7. pruner.remove \subseteq Backup /\ pruner.remove \subseteq 1 .. next - 1
  BY <1>2 DEF Workers, PruneInv, ListingInv
<1>8. CASE pruner.remove = {}
  <2>1. worker' = [worker EXCEPT !["prune"] = Free]
    BY <1>5, <1>8
  <2> QED BY <1>1, <2>1, PrunerFree
<1> HIDE DEF b
<1>9. CASE pruner.remove # {} /\ b \in pruner.needed
  <2>1. worker' = [worker EXCEPT !["prune"] = rest]
    BY <1>5, <1>9
  <2>2. /\ pruner'.pc = "next" /\ pruner'.target = 0
        /\ pruner'.complete = pruner.complete /\ pruner'.incomplete = pruner.incomplete
        /\ pruner'.remove = pruner.remove \ {b} /\ pruner'.needed = pruner.needed
    BY <1>2, <1>3, <2>1 DEF pruner, Workers, TypeOK
  <2>3. Doomed' = Doomed \ {b}
    BY <1>4, <2>2 DEF Doomed, Backup
  <2>4. ListingInv' /\ TargetInv' /\ SparedInv'
    BY <1>1, <1>2, <1>3, <1>4, <2>2, <2>3, SameRun
       DEF PruneInv, ListingInv, TargetInv, SparedInv, SameWorld, AtWork, pruner
  <2>5. ClosedInv'
    <3>1. ASSUME NEW c \in Complete, parent[c] \in Doomed' \ pruner.needed PROVE c \in Doomed'
      <4>1. c \in Doomed /\ parent[c] # 0
        BY <2>3, <3>1, Ids DEF PruneInv, ClosedInv
      <4>2. c # b
        BY <1>9, <3>1, <4>1 DEF PruneInv, ClosedInv
      <4> QED BY <2>3, <4>1, <4>2
    <3> QED BY <1>1, <1>4, <2>2, <3>1 DEF PruneInv, ClosedInv, SameWorld
  <2>6. WorkerInv("prune")' /\ ShieldInv("prune")'
    <3>1. 0 < next' /\ 0 \notin Written' /\ "prune" \in Actor'
      BY <1>1, <1>3, SameRun, Ids DEF SameWorld, TypeOK, Actor
    <3> QED BY <2>2, <3>1 DEF WorkerInv, ShieldInv, Past, AtWork, pruner
  <2> HIDE DEF rest
  <2> QED BY <1>1, <1>3, <2>1, <2>4, <2>5, <2>6, PrunerLooks DEF PruneInv
<1>10. CASE pruner.remove # {} /\ b \notin pruner.needed
  <2>1. worker' = [worker EXCEPT !["prune"] = aimed]
    BY <1>5, <1>10
  <2>2. /\ pruner'.pc = IF b \in pruner.complete THEN "leases" ELSE "completed?"
        /\ pruner'.target = b
        /\ pruner'.complete = pruner.complete /\ pruner'.incomplete = pruner.incomplete
        /\ pruner'.remove = pruner.remove \ {b} /\ pruner'.needed = pruner.needed
    BY <1>2, <2>1 DEF pruner, Workers, TypeOK
  <2>3. b \in Backup /\ b \in 1 .. next - 1 /\ b \in pruner.remove
    BY <1>6, <1>7, <1>10
  <2>4. Doomed' = Doomed
    BY <1>4, <2>2, <2>3 DEF Doomed
  <2>5. ListingInv'
    BY <1>1, <1>3, <1>4, <2>2 DEF PruneInv, ListingInv, SameWorld, AtWork, pruner
  <2>6. TargetInv'
    <3>1. \A r \in pruner.remove \ {b} : r < b
      BY <1>6, <1>7, <2>3 DEF Backup
    <3> QED BY <1>10, <2>2, <3>1 DEF TargetInv
  <2>7. SparedInv' /\ ClosedInv'
    BY <1>1, <1>4, <2>2, <2>4, SameRun DEF PruneInv, SparedInv, ClosedInv, SameWorld
  <2>8. WorkerInv("prune")' /\ ShieldInv("prune")'
    <3>1. b # 0 /\ b < next' /\ "prune" \in Actor'
      BY <1>1, <1>3, <2>3 DEF SameWorld, TypeOK, Actor
    <3>2. b \notin Written'
      BY <1>1, <1>4, <2>3, SameRun DEF PruneInv, SparedInv, SameWorld
    <3> QED BY <2>2, <3>1, <3>2 DEF WorkerInv, ShieldInv, Past, AtWork, pruner
  <2> HIDE DEF aimed
  <2> QED BY <1>1, <1>3, <2>1, <2>5, <2>6, <2>7, <2>8, PrunerLooks DEF PruneInv
<1> QED BY <1>8, <1>9, <1>10

\* A backup listed as incomplete that committed since is passed over with its chain.
LEMMA PruneRecheckKeeps ==
  ASSUME Uncontested, IInv, TypeOK', PruneRecheck
  PROVE  IInv'
<1> USE DEF IInv
<1>1. Looks /\ SameWorld
  BY LookFrame DEF Looks
<1>2. pruner.pc = "completed?" /\ pruner = worker["prune"] /\ pruner \in Workers /\ "prune" \in Deleter
  BY DEF PruneRecheck, pruner, TypeOK, Deleter
<1>3. pruner.target \in Backup /\ Parents
  BY <1>2, Ids DEF Aimed
<1> DEFINE p == parent[pruner.target]
           fresh == IF p = 0 THEN {} ELSE {p} \cup Ancestors(pruner.complete, p)
<1>4. worker' = [worker EXCEPT !["prune"] =
          IF Manifest \in stored[pruner.target] THEN SkipKeeping(pruner, fresh)
                                               ELSE [pruner EXCEPT !.pc = "leases"]]
  BY <1>2 DEF PruneRecheck
<1>5. CASE Manifest \in stored[pruner.target]
  <2>1. \A c \in Complete : parent[c] # 0 => c \in pruner.complete
    BY <1>2 DEF PruneInv, ListingInv, AtWork
  <2>2. p # 0 => p \in Backup
    BY <1>3 DEF Parents, Backup
  <2>3. ASSUME NEW c \in Complete \cap fresh, parent[c] # 0 PROVE parent[c] \in fresh
    <3>1. p # 0 /\ c \in Ancestors(pruner.complete, p) \cup {p}
      BY <2>3
    <3> HIDE DEF p
    <3>2. parent[c] \in Ancestors(pruner.complete, p)
      BY <1>3, <2>1, <2>2, <2>3, <3>1, AncestorsClosed
    <3> QED BY <3>1, <3>2
  <2>4. p # 0 => p \in fresh
    OBVIOUS
  <2>5. worker' = [worker EXCEPT !["prune"] = SkipKeeping(pruner, fresh)]
    BY <1>4, <1>5
  <2> HIDE DEF fresh
  <2> QED BY <1>1, <1>2, <2>3, <2>4, <2>5, PrunerSkips
<1>6. CASE Manifest \notin stored[pruner.target]
  <2>1. worker' = [worker EXCEPT !["prune"] = [pruner EXCEPT !.pc = "leases"]]
    BY <1>4, <1>6
  <2>2. pruner.target \notin Complete
    BY <1>6 DEF Complete
  <2> DEFINE u == [pruner EXCEPT !.pc = "leases"]
  <2>3. /\ u.pc = "leases" /\ u.target = pruner.target
        /\ u.complete = pruner.complete /\ u.incomplete = pruner.incomplete
        /\ u.remove = pruner.remove /\ u.needed = pruner.needed
    BY <1>2 DEF Workers
  <2>4. u \in Workers
    BY <1>2, WorkerFields
  <2> HIDE DEF u
  <2> QED BY <1>1, <1>2, <2>1, <2>2, <2>3, <2>4, PrunerGoesOn DEF u
<1> QED BY <1>5, <1>6

\* What a skip keeps: the chain of the target.
LEMMA PrunerSkipsChain ==
  ASSUME Uncontested, IInv, TypeOK', SameWorld,
         pruner.pc \in {"leases", "manifest", "objects"},
         worker' = [worker EXCEPT !["prune"] = Skipped("prune")]
  PROVE  IInv'
<1> USE DEF IInv
<1> DEFINE more == Ancestors(pruner.complete, pruner.target)
<1>1. pruner.target \in Backup /\ Parents /\ AtWork("prune")
  BY Ids DEF Aimed, pruner, Deleter, AtWork
<1>2. \A c \in Complete : parent[c] # 0 => c \in pruner.complete
  BY <1>1 DEF PruneInv, ListingInv
<1>3. \A c \in Complete \cap (more \cup {pruner.target}) : parent[c] # 0 => parent[c] \in more
  BY <1>1, <1>2, AncestorsClosed
<1>4. worker' = [worker EXCEPT !["prune"] = SkipKeeping(pruner, more)]
  BY DEF Skipped, pruner
<1> HIDE DEF more
<1> QED BY <1>3, <1>4, PrunerSkips

-----------------------------------------------------------------------------
(* Both: the looks they share *)

\* The last look: a target nobody uses is in no shielded chain.  The prune's target is not
\* needed, so had it a member of the chain for a target, the whole chain up to the leased
\* backup would be doomed; a delete's target has no child.
LEMMA UnusedIsUnshielded ==
  ASSUME IInv, NEW a \in Deleter, worker[a].pc = "leases", ~ InUse(worker[a].target), reader.shielded
  PROVE  worker[a].target \notin reader.members
<1> USE DEF IInv
<1> SUFFICES ASSUME worker[a].target \in reader.members PROVE FALSE
  OBVIOUS
<1>1. /\ reader.pc # "free" /\ reader.id \in reader.members
      /\ reader.members \subseteq Complete
      /\ \A m \in reader.members :
           m <= reader.id /\ (m # reader.id => \E c \in reader.members : parent[c] = m)
  BY DEF MembersInv
<1>2. InUse(reader.id)
  BY DEF MembersInv, InUse
<1>3. CASE a = "delete"
  <2>1. \A c \in Complete : parent[c] # worker[a].target
    BY <1>3 DEF DeleteInv, deleter
  <2> QED BY <1>1, <1>2, <2>1
<1>4. CASE a = "prune"
  <2> DEFINE Lost == {m \in reader.members : m \in Doomed \ pruner.needed}
  <2>1. pruner.target \in Lost /\ pruner.pc = "leases"
    <3>1. pruner.target \in Backup
      BY <1>4, Ids DEF Aimed, pruner
    <3> QED BY <1>4, <3>1 DEF PruneInv, TargetInv, Doomed, pruner
  <2>2. Lost \in SUBSET (0 .. MaxBackup)
    BY <1>1, Ids DEF Backup
  <2>3. PICK m \in Lost : \A n \in Lost : n <= m
    <3> HIDE DEF Lost
    <3> QED BY <2>1, <2>2, LastOfInterval
  <2>4. m = reader.id
    <3> SUFFICES ASSUME m # reader.id PROVE FALSE
      OBVIOUS
    <3>1. PICK c \in reader.members : parent[c] = m
      BY <1>1, <2>3
    <3>2. c \in Complete /\ m # 0
      BY <1>1, <2>3, <3>1, Ids
    <3>3. c \in Doomed /\ c \notin pruner.needed
      BY <2>3, <3>1, <3>2 DEF PruneInv, ClosedInv
    <3>4. c \in Lost
      BY <3>1, <3>3
    <3>5. m < c /\ c \in Int /\ m \in Int
      BY <2>2, <3>1, <3>2, <3>4, Ids DEF Parents, Backup
    <3> QED BY <2>3, <3>4, <3>5
  <2>5. reader.id \in Doomed /\ pruner.target <= reader.id /\ reader.id # pruner.target
    BY <1>2, <1>4, <2>1, <2>3, <2>4 DEF pruner
  <2>6. reader.id < pruner.target
    <3>1. reader.id \in pruner.remove /\ pruner.target # 0
      BY <2>1, <2>5, Ids DEF Doomed
    <3> QED BY <3>1 DEF PruneInv, TargetInv
  <2> QED BY <2>1, <2>2, <2>3, <2>4, <2>5, <2>6
<1> QED BY <1>3, <1>4 DEF Deleter

\* Nor is it the backup a run is writing: that run has its lease.
LEMMA UnusedIsUnwritten ==
  ASSUME IInv, NEW a \in Deleter, worker[a].pc = "leases", ~ InUse(worker[a].target)
  PROVE  worker[a].target \notin Written
<1> SUFFICES ASSUME worker[a].target \in Written PROVE FALSE
  OBVIOUS
<1>1. run.pc # "lease"
  BY DEF IInv, WorkerInv
<1>2. AtWork(a)
  BY DEF AtWork
<1> QED BY <1>1, <1>2, WrittenInUse

\* The delete goes on to its next step.
LEMMA DeleterGoesOn ==
  ASSUME Uncontested, IInv, TypeOK', SameWorld, NEW u \in Workers,
         worker' = [worker EXCEPT !["delete"] = u], u.target = deleter.target,
         \/ /\ deleter.pc = "leases" /\ u.pc = "manifest"
            /\ deleter.target \notin Written
            /\ reader.shielded => deleter.target \notin reader.members
         \/ deleter.pc = "list" /\ u.pc = "objects"
  PROVE  IInv'
<1> USE DEF IInv, SameWorld
<1>1. "delete" \in Deleter /\ deleter' = u /\ worker'["delete"] = u /\ deleter = worker["delete"]
  BY DEF TypeOK, Deleter, deleter
<1>2. Complete' = Complete /\ Written' = Written
  BY SameRun DEF Complete
<1>3. AtWork("delete") /\ AtWork("delete")'
  BY <1>1 DEF AtWork
<1>4. DeleteInv'
  BY <1>1, <1>2 DEF DeleteInv
<1>5. WorkerInv("delete")'
  BY <1>1, <1>2, <1>3 DEF WorkerInv, Past, Actor
<1>6. ShieldInv("delete")'
  BY <1>1 DEF ShieldInv, Past
<1> QED BY <1>3, <1>4, <1>5, <1>6, DeleterLooks

LEMMA DeleteRequestKeeps ==
  ASSUME Uncontested, IInv, TypeOK', NEW b \in Backup, DeleteRequest(b)
  PROVE  IInv'
<1> USE DEF IInv
<1>1. Looks /\ SameWorld
  BY LookFrame DEF Looks
<1> DEFINE u == [Free EXCEPT !.pc = "leases", !.target = b]
<1>2. worker' = [worker EXCEPT !["delete"] = u] /\ MayDelete /\ "delete" \in Actor
  BY DEF DeleteRequest
<1>3. deleter'.pc = "leases" /\ deleter'.target = b /\ deleter' = worker'["delete"]
  BY <1>2 DEF Free, deleter, TypeOK, Deleter
<1>4. b \in Complete \cup Incomplete /\ stored[b] # {} /\ b < next
  BY Ids DEF DeleteRequest, Complete, Incomplete, TypeOK, Backup
<1>5. Complete' = Complete
  BY <1>1 DEF Complete, SameWorld
<1>6. DeleteInv'
  <2>1. b \notin promised
    BY DEF DeleteRequest, Deletable, StorageInv, PromisesInv
  <2>2. ASSUME NEW c \in Complete PROVE parent[c] # b
    <3> SUFFICES ASSUME parent[c] = b PROVE FALSE
      OBVIOUS
    <3>1. c \in Backup /\ Parents /\ b # 0
      BY Ids DEF Backup
    <3>2. c # b /\ b \in Ancestors(Complete, c)
      BY <3>1, AncestorsDef DEF Parents, Backup
    <3> QED BY <3>2 DEF DeleteRequest, Deletable
  <2> QED BY <1>1, <1>3, <1>5, <2>1, <2>2 DEF DeleteInv, SameWorld
<1>7. WorkerInv("delete")' /\ ShieldInv("delete")'
  <2>1. run.pc # "free" => run.kind = "full"
    BY <1>2, Alone
  <2>2. ~ (run.pc = "lease" /\ run.id = b)
    BY <1>4, <2>1 DEF RunInv
  <2>3. b \in Written' => run.id = b
    BY <1>1, SameRun DEF Written, SameWorld
  <2> QED BY <2>3, <1>1, <1>2, <1>3, <1>4, <2>2 DEF WorkerInv, ShieldInv, Past, AtWork, Actor,
  SameWorld, Backup
<1> HIDE DEF u
<1> QED BY <1>1, <1>2, <1>6, <1>7, DeleterLooks

LEMMA CheckLeasesKeeps ==
  ASSUME Uncontested, IInv, TypeOK', NEW a \in Deleter, CheckLeases(a)
  PROVE  IInv'
<1> USE DEF IInv
<1>1. Looks /\ SameWorld
  BY LookFrame DEF Looks
<1> DEFINE u == [worker[a] EXCEPT !.pc = "manifest"]
<1>2. worker[a].pc = "leases" /\ worker[a] \in Workers
  BY DEF CheckLeases, TypeOK
<1>3. worker' = [worker EXCEPT ![a] = IF InUse(worker[a].target) THEN Skipped(a) ELSE u]
  BY DEF CheckLeases
<1>4. /\ u \in Workers
      /\ u.pc = "manifest" /\ u.target = worker[a].target
      /\ u.complete = worker[a].complete /\ u.incomplete = worker[a].incomplete
      /\ u.remove = worker[a].remove /\ u.needed = worker[a].needed
  <2>1. u \in Workers
    BY <1>2, WorkerFields
  <2> QED BY <1>2, <2>1 DEF Workers
<1> HIDE DEF u
<1>5. CASE a = "prune" /\ InUse(worker[a].target)
  BY <1>1, <1>2, <1>3, <1>5, PrunerSkipsChain DEF pruner
<1>6. CASE a = "delete" /\ InUse(worker[a].target)
  <2>1. Skipped(a) = Free
    BY <1>6 DEF Skipped
  <2> QED BY <1>1, <1>3, <1>6, <2>1, DeleterFree
<1>7. CASE ~ InUse(worker[a].target)
  <2>1. /\ reader.shielded => worker[a].target \notin reader.members
        /\ worker[a].target \notin Written
    BY <1>2, <1>7, UnusedIsUnshielded, UnusedIsUnwritten
  <2>2. worker' = [worker EXCEPT ![a] = u]
    BY <1>3, <1>7
  <2>3. CASE a = "prune"
    BY <1>1, <1>2, <1>4, <2>1, <2>2, <2>3, PrunerGoesOn DEF pruner
  <2>4. CASE a = "delete"
    BY <1>1, <1>2, <1>4, <2>1, <2>2, <2>4, DeleterGoesOn DEF deleter
  <2> QED BY <2>3, <2>4 DEF Deleter
<1> QED BY <1>5, <1>6, <1>7 DEF Deleter

LEMMA ListObjectsKeeps ==
  ASSUME Uncontested, IInv, TypeOK', NEW a \in Deleter, ListObjects(a)
  PROVE  IInv'
<1> USE DEF IInv
<1>1. Looks /\ SameWorld
  BY LookFrame DEF Looks
<1> DEFINE u == [worker[a] EXCEPT !.pc = "objects", !.listing = stored[worker[a].target]]
<1>2. worker[a].pc = "list" /\ worker[a] \in Workers /\ stored[worker[a].target] \in SUBSET Object
  BY Ids DEF ListObjects, TypeOK, Aimed
<1>3. worker' = [worker EXCEPT ![a] = u]
  BY DEF ListObjects, TypeOK
<1>4. u \in Workers
  BY <1>2, WorkerFields
<1>5. u.pc = "objects" /\ u.target = worker[a].target
      /\ u.complete = worker[a].complete /\ u.incomplete = worker[a].incomplete
      /\ u.remove = worker[a].remove /\ u.needed = worker[a].needed
  BY <1>2 DEF Workers
<1> HIDE DEF u
<1>6. CASE a = "prune"
  BY <1>1, <1>2, <1>3, <1>4, <1>5, <1>6, PrunerGoesOn DEF pruner
<1>7. CASE a = "delete"
  BY <1>1, <1>2, <1>3, <1>4, <1>5, <1>7, DeleterGoesOn DEF deleter
<1> QED BY <1>6, <1>7 DEF Deleter

LEMMA ObjectLockedKeeps ==
  ASSUME Uncontested, IInv, TypeOK', NEW a \in Deleter, ObjectLocked(a)
  PROVE  IInv'
<1>1. Looks /\ SameWorld
  BY LookFrame DEF Looks
<1>2. worker[a].pc \in {"manifest", "objects"} /\ worker' = [worker EXCEPT ![a] = Skipped(a)]
  BY DEF ObjectLocked
<1>3. CASE a = "prune"
  BY <1>1, <1>2, <1>3, PrunerSkipsChain DEF pruner
<1>4. CASE a = "delete"
  <2>1. Skipped(a) = Free
    BY <1>4 DEF Skipped
  <2> QED BY <1>1, <1>2, <1>4, <2>1, DeleterFree
<1> QED BY <1>3, <1>4 DEF Deleter

LEMMA LooksKeep ==
  ASSUME Uncontested, IInv, TypeOK', Looks
  PROVE  IInv'
<1>1. ASSUME NEW a \in Deleter, Stop(a) PROVE IInv'
  <2>1. SameWorld /\ worker' = [worker EXCEPT ![a] = Free]
    BY <1>1, LookFrame DEF Stop
  <2> QED BY <2>1, PrunerFree, DeleterFree DEF Deleter
<1> QED BY <1>1, PruneListKeeps, PrunePlanKeeps, PruneNextKeeps, PruneRecheckKeeps,
           DeleteRequestKeeps, CheckLeasesKeeps, ListObjectsKeeps, ObjectLockedKeeps DEF Looks

-----------------------------------------------------------------------------
(* Deleting *)

\* What goes is promised to nobody and has no complete child.
LEMMA TargetSpares ==
  ASSUME IInv, NEW a \in Deleter, worker[a].pc = "manifest"
  PROVE  /\ worker[a].target \in Backup
         /\ worker[a].target \notin promised
         /\ \A c \in Complete : parent[c] # worker[a].target
<1> USE DEF IInv
<1>1. worker[a].target \in Backup
  BY Ids DEF Aimed
<1>2. CASE a = "delete"
  BY <1>1, <1>2 DEF DeleteInv, deleter
<1>3. CASE a = "prune"
  <2>1. pruner.target \in Doomed \ pruner.needed /\ pruner.target \in Int
    BY <1>1, <1>3 DEF Doomed, pruner, PruneInv, TargetInv, Backup
  <2>2. ASSUME NEW c \in Complete, parent[c] = pruner.target PROVE FALSE
    <3>1. c \in Doomed /\ pruner.target < c /\ c \in Int
      BY <2>1, <2>2, Ids DEF PruneInv, ClosedInv, Parents, Backup
    <3>2. c \in pruner.remove /\ pruner.target # 0
      BY <2>1, <3>1, Ids DEF Doomed
    <3> QED BY <2>1, <3>1, <3>2 DEF PruneInv, TargetInv
  <2> QED BY <1>1, <1>3, <2>1, <2>2 DEF PruneInv, SparedInv, pruner
<1> QED BY <1>2, <1>3 DEF Deleter

\* A worker goes on with the same target: all others, and its own plan, stay.
LEMMA SamePlan ==
  ASSUME TypeOK, NEW a \in Deleter, NEW u, worker' = [worker EXCEPT ![a] = u],
         /\ u.target = worker[a].target
         /\ u.complete = worker[a].complete /\ u.incomplete = worker[a].incomplete
         /\ u.remove = worker[a].remove /\ u.needed = worker[a].needed
  PROVE  /\ \A b \in Deleter : worker'[b].target = worker[b].target
         /\ \A b \in Deleter : b # a => worker'[b] = worker[b]
         /\ worker'[a] = u
         /\ pruner'.target = pruner.target
         /\ pruner'.complete = pruner.complete /\ pruner'.incomplete = pruner.incomplete
         /\ pruner'.remove = pruner.remove /\ pruner'.needed = pruner.needed
         /\ deleter'.target = deleter.target
         /\ Doomed' = Doomed
<1>1. \A b \in Deleter : worker'[b] = IF b = a THEN u ELSE worker[b]
  BY DEF TypeOK
<1> QED BY <1>1 DEF pruner, deleter, Doomed, Deleter

LEMMA DeleteManifestKeeps ==
  ASSUME Uncontested, IInv, TypeOK', NEW a \in Deleter, DeleteManifest(a)
  PROVE  IInv'
<1> USE DEF IInv
<1> DEFINE t == worker[a].target
           u == [worker[a] EXCEPT !.pc = "list"]
<1>1. /\ worker[a].pc = "manifest" /\ worker[a] \in Workers /\ AtWork(a) /\ Past(a)
      /\ stored' = [stored EXCEPT ![t] = stored[t] \ {Manifest}]
      /\ exposed' = exposed \ {t}
      /\ UNCHANGED <<parent, checkpoint, next, idle, leases, held, promised, cast, run, reader, hold>>
      /\ worker' = [worker EXCEPT ![a] = u]
  BY DEF DeleteManifest, TypeOK, AtWork, Past
<1>2. /\ t \in Backup /\ t \notin promised
      /\ \A c \in Complete : parent[c] # t
  BY <1>1, TargetSpares
<1>3. /\ u.pc = "list" /\ u.target = t
      /\ u.complete = worker[a].complete /\ u.incomplete = worker[a].incomplete
      /\ u.remove = worker[a].remove /\ u.needed = worker[a].needed
  BY <1>1 DEF Workers
<1>4. \A b \in Backup : stored'[b] = IF b = t THEN stored[b] \ {Manifest} ELSE stored[b]
  BY <1>1, <1>2 DEF TypeOK
<1>5. Complete' = Complete \ {t} /\ Written' = Written
  BY <1>1, <1>4, SameRun DEF Complete
<1> HIDE DEF u
<1>6. /\ \A b \in Deleter : worker'[b].target = worker[b].target
      /\ \A b \in Deleter : b # a => worker'[b] = worker[b]
      /\ worker'[a] = u
      /\ pruner'.target = pruner.target
      /\ pruner'.complete = pruner.complete /\ pruner'.incomplete = pruner.incomplete
      /\ pruner'.remove = pruner.remove /\ pruner'.needed = pruner.needed
      /\ deleter'.target = deleter.target
      /\ Doomed' = Doomed
  BY <1>1, <1>3, SamePlan
<1> HIDE DEF t
<1>7. StorageInv'
  <2>1. CatalogInv'
    BY <1>1, <1>4 DEF StorageInv, CatalogInv
  <2>2. PromisesInv'
    BY <1>1, <1>2, <1>5 DEF StorageInv, PromisesInv
  <2>3. ChainsIntact'
    BY <1>1, <1>2, <1>5 DEF StorageInv, ChainsIntact
  <2>4. CommittedIsWhole'
    <3>1. \A b \in Complete' \ exposed' : stored'[b] = stored[b] /\ b \in Complete \ exposed
      BY <1>1, <1>4, <1>5, Ids
    <3> QED BY <3>1 DEF StorageInv, CommittedIsWhole, Readable
  <2> QED BY <2>1, <2>2, <2>3, <2>4 DEF StorageInv
<1>8. t \notin Written /\ (run.pc # "free" => run.id \in Backup /\ run.kind = "full")
  BY <1>1, Ids DEF WorkerInv, t, RunInv, TypeOK, Runs
<1>9. RunInv' /\ HoldInv'
  <2>1. hold.pc # "put"
    BY <1>1 DEF HoldInv
  <2>2. run.pc # "free" => /\ run.id \in Written => stored'[run.id] = stored[run.id]
                           /\ stored'[run.id] \subseteq stored[run.id]
    BY <1>4, <1>8
  <2> QED BY <1>1, <1>5, <1>8, <2>1, <2>2 DEF RunInv, HoldInv
<1>10. ASSUME NEW b \in Deleter PROVE WorkerInv(b)' /\ ShieldInv(b)'
  <2>1. b = a => WorkerInv(b)' /\ ShieldInv(b)'
    BY <1>1, <1>2, <1>3, <1>5, <1>6, <1>8 DEF WorkerInv, ShieldInv, Past, AtWork, Actor, t
  <2>2. b # a => WorkerInv(b)' /\ ShieldInv(b)'
    BY <1>1, <1>5, <1>6 DEF WorkerInv, ShieldInv, Past, AtWork, Actor
  <2> QED BY <2>1, <2>2
<1>11. DeleteInv'
  BY <1>1, <1>3, <1>5, <1>6 DEF DeleteInv, deleter, Deleter
<1>12. PruneInv'
  <2>1. /\ a = "prune" => pruner'.pc = "list" /\ AtWork("prune")' /\ AtWork("prune")
        /\ a # "prune" => /\ pruner'.pc = pruner.pc /\ pruner'.held = pruner.held
                          /\ AtWork("prune")' = AtWork("prune")
    BY <1>1, <1>3, <1>6 DEF pruner, AtWork, Deleter
  <2>2. ListingInv'
    BY <1>1, <1>5, <1>6, <2>1 DEF PruneInv, ListingInv
  <2>3. TargetInv' /\ SparedInv'
    BY <1>1, <1>5, <1>6, <2>1 DEF PruneInv, TargetInv, SparedInv
  <2>4. ClosedInv'
    BY <1>1, <1>5, <1>6 DEF PruneInv, ClosedInv
  <2> QED BY <2>2, <2>3, <2>4 DEF PruneInv
<1>13. MembersInv' /\ ShieldedReaderFinishes'
  <2>1. reader.shielded => t \notin reader.members
    BY <1>1 DEF ShieldInv, t
  <2>2. reader.shielded => \A m \in reader.members : Readable(m)'
    BY <1>4, <2>1, Ids DEF MembersInv, Readable
  <2> QED BY <1>1, <1>5, <2>1, <2>2 DEF MembersInv, ShieldedReaderFinishes
<1> QED BY <1>7, <1>9, <1>10, <1>11, <1>12, <1>13

LEMMA DeleteObjectKeeps ==
  ASSUME Uncontested, IInv, TypeOK', NEW a \in Deleter, DeleteObject(a)
  PROVE  IInv'
<1> USE DEF IInv
<1> DEFINE t == worker[a].target
<1>1. PICK o \in worker[a].listing :
        /\ stored' = [stored EXCEPT ![t] = stored[t] \ {o}]
        /\ worker' = [worker EXCEPT ![a].listing = worker[a].listing \ {o}]
  BY DEF DeleteObject
<1> DEFINE u == [worker[a] EXCEPT !.listing = worker[a].listing \ {o}]
<1>2. /\ worker[a].pc = "objects" /\ worker[a] \in Workers /\ AtWork(a) /\ Past(a)
      /\ UNCHANGED <<parent, checkpoint, next, idle, leases, notes, run, reader, hold>>
      /\ worker' = [worker EXCEPT ![a] = u]
  BY <1>1 DEF DeleteObject, TypeOK, AtWork, Past
<1>3. /\ t \in Backup /\ t \notin promised
      /\ t \in Complete => t \in exposed
      /\ \A c \in Complete : parent[c] # t
  BY <1>2, Ids DEF WorkerInv
<1>4. /\ u.pc = worker[a].pc /\ u.target = t
      /\ u.complete = worker[a].complete /\ u.incomplete = worker[a].incomplete
      /\ u.remove = worker[a].remove /\ u.needed = worker[a].needed
  BY <1>2 DEF Workers
<1>5. \A b \in Backup : stored'[b] \subseteq stored[b] /\ (b # t => stored'[b] = stored[b])
  BY <1>1, <1>3 DEF TypeOK
<1>6. Complete' \subseteq Complete /\ Complete \ {t} \subseteq Complete' /\ Written' = Written
  BY <1>2, <1>3, <1>5, SameRun DEF Complete
<1> HIDE DEF u
<1>7. /\ \A b \in Deleter : worker'[b].target = worker[b].target /\ worker'[b].pc = worker[b].pc
      /\ pruner'.target = pruner.target /\ pruner'.pc = pruner.pc
      /\ pruner'.complete = pruner.complete /\ pruner'.incomplete = pruner.incomplete
      /\ pruner'.remove = pruner.remove /\ pruner'.needed = pruner.needed
      /\ pruner'.held = pruner.held
      /\ deleter'.target = deleter.target /\ deleter'.pc = deleter.pc
      /\ Doomed' = Doomed
  <2>1. pruner'.held = pruner.held
    BY <1>1 DEF pruner, TypeOK, Deleter, Workers
  <2>2. /\ \A b \in Deleter : worker'[b].target = worker[b].target
        /\ \A b \in Deleter : b # a => worker'[b] = worker[b]
        /\ worker'[a] = u
        /\ pruner'.target = pruner.target
        /\ pruner'.complete = pruner.complete /\ pruner'.incomplete = pruner.incomplete
        /\ pruner'.remove = pruner.remove /\ pruner'.needed = pruner.needed
        /\ deleter'.target = deleter.target
        /\ Doomed' = Doomed
    BY <1>2, <1>4, SamePlan
  <2>3. \A b \in Deleter : worker'[b].pc = worker[b].pc
    BY <1>4, <2>2
  <2>4. pruner'.pc = pruner.pc /\ deleter'.pc = deleter.pc
    BY <2>3 DEF pruner, deleter, Deleter
  <2> QED BY <2>1, <2>2, <2>3, <2>4
<1> HIDE DEF t
<1>8. StorageInv'
  <2>1. \A b \in Complete \ exposed : stored'[b] = stored[b]
    BY <1>3, <1>5, Ids
  <2>2. CatalogInv'
    BY <1>2, <1>5 DEF StorageInv, CatalogInv
  <2>3. PromisesInv' /\ ChainsIntact'
    BY <1>2, <1>3, <1>6 DEF StorageInv, PromisesInv, ChainsIntact, notes
  <2>4. CommittedIsWhole'
    BY <1>2, <1>6, <2>1 DEF StorageInv, CommittedIsWhole, Readable, notes
  <2> QED BY <2>2, <2>3, <2>4 DEF StorageInv
<1>9. RunInv' /\ HoldInv'
  <2>1. t \notin Written /\ hold.pc # "put" /\ (run.pc # "free" => run.id \in Backup /\ run.kind = "full")
    BY <1>2, Ids DEF WorkerInv, HoldInv, RunInv, TypeOK, Runs, t
  <2>2. run.pc # "free" => /\ run.id \in Written => stored'[run.id] = stored[run.id]
                           /\ stored'[run.id] \subseteq stored[run.id]
    BY <1>5, <2>1
  <2> QED BY <1>2, <1>6, <1>7, <2>1, <2>2 DEF RunInv, HoldInv
<1>10. ASSUME NEW b \in Deleter PROVE WorkerInv(b)' /\ ShieldInv(b)'
  BY <1>2, <1>6, <1>7 DEF WorkerInv, ShieldInv, Past, AtWork, Actor, notes
<1>11. DeleteInv'
  BY <1>2, <1>6, <1>7 DEF DeleteInv, notes
<1>12. PruneInv'
  <2>1. AtWork("prune")' = AtWork("prune")
    BY <1>7 DEF AtWork, Deleter
  <2> QED BY <1>2, <1>6, <1>7, <2>1 DEF PruneInv, ListingInv, TargetInv, SparedInv, ClosedInv, notes
<1>13. MembersInv' /\ ShieldedReaderFinishes'
  <2>1. reader.shielded => t \notin reader.members
    BY <1>2 DEF ShieldInv, t
  <2>2. reader.shielded => \A m \in reader.members : Readable(m)'
    BY <1>5, <2>1, Ids DEF MembersInv, Readable
  <2> QED BY <1>2, <1>6, <2>1, <2>2 DEF MembersInv, ShieldedReaderFinishes
<1> QED BY <1>8, <1>9, <1>10, <1>11, <1>12, <1>13

LEMMA DeleteAnnotationsKeeps ==
  ASSUME Uncontested, IInv, TypeOK', NEW a \in Deleter, DeleteAnnotations(a)
  PROVE  IInv'
<1> USE DEF IInv
<1> DEFINE t == worker[a].target
           u == [worker[a] EXCEPT !.pc = "checkpoint"]
<1>1. /\ worker[a].pc = "objects" /\ worker[a] \in Workers /\ AtWork(a) /\ Past(a)
      /\ UNCHANGED <<storage, parent, next, promised, exposed, cast, run, reader, hold>>
      /\ held' = held \ {t} /\ leases' = {l \in leases : l[2] # t}
      /\ worker' = [worker EXCEPT ![a] = u]
  BY DEF DeleteAnnotations, TypeOK, AtWork, Past
<1>2. t \in Backup /\ t \notin promised
  BY <1>1, Ids DEF WorkerInv
<1>3. /\ u.pc = "checkpoint" /\ u.target = t
      /\ u.complete = worker[a].complete /\ u.incomplete = worker[a].incomplete
      /\ u.remove = worker[a].remove /\ u.needed = worker[a].needed
  BY <1>1 DEF Workers
<1>4. Complete' = Complete /\ Written' = Written
  BY <1>1, SameRun DEF Complete, storage
<1> HIDE DEF u
<1>5. /\ \A b \in Deleter : worker'[b].target = worker[b].target
      /\ \A b \in Deleter : b # a => worker'[b] = worker[b]
      /\ worker'[a] = u
      /\ pruner'.target = pruner.target
      /\ pruner'.complete = pruner.complete /\ pruner'.incomplete = pruner.incomplete
      /\ pruner'.remove = pruner.remove /\ pruner'.needed = pruner.needed
      /\ deleter'.target = deleter.target
      /\ Doomed' = Doomed
  BY <1>1, <1>3, SamePlan
<1> HIDE DEF t
<1>6. StorageInv'
  BY <1>1, <1>2, <1>4 DEF StorageInv, CatalogInv, PromisesInv, ChainsIntact, CommittedIsWhole,
     Readable, storage
<1>7. RunInv' /\ HoldInv'
  <2>1. t \notin Written /\ (run.pc # "free" => run.kind = "full")
    BY <1>1 DEF WorkerInv, t, RunInv, TypeOK, Runs
  <2>3. run.pc = "write" /\ run.leased => run.id \in Written
    BY DEF Written, AtRisk
  <2>2. hold.pc # "put"
    BY <1>1 DEF HoldInv
  <2> QED BY <1>1, <1>4, <2>1, <2>2, <2>3 DEF RunInv, HoldInv, storage
<1>8. ASSUME NEW b \in Deleter PROVE WorkerInv(b)' /\ ShieldInv(b)'
  <2>1. b = a => WorkerInv(b)' /\ ShieldInv(b)'
    BY <1>1, <1>2, <1>3, <1>4, <1>5 DEF WorkerInv, ShieldInv, Past, AtWork, Actor, t
  <2>2. b # a => WorkerInv(b)' /\ ShieldInv(b)'
    BY <1>1, <1>4, <1>5 DEF WorkerInv, ShieldInv, Past, AtWork, Actor
  <2> QED BY <2>1, <2>2
<1>9. DeleteInv'
  BY <1>1, <1>3, <1>4, <1>5 DEF DeleteInv, deleter, Deleter
<1>10. PruneInv'
  <2>1. /\ a = "prune" => pruner'.pc = "checkpoint" /\ AtWork("prune")' /\ AtWork("prune")
        /\ a # "prune" => /\ pruner'.pc = pruner.pc /\ pruner'.held = pruner.held
                          /\ AtWork("prune")' = AtWork("prune")
    BY <1>1, <1>3, <1>5 DEF pruner, AtWork, Deleter
  <2> QED BY <1>1, <1>4, <1>5, <2>1 DEF PruneInv, ListingInv, TargetInv, SparedInv, ClosedInv
<1>11. MembersInv' /\ ShieldedReaderFinishes'
  <2>1. reader.shielded => reader.id # t
    BY <1>1 DEF ShieldInv, MembersInv, t
  <2> QED BY <1>1, <1>4, <2>1 DEF MembersInv, ShieldedReaderFinishes, Readable, storage
<1> QED BY <1>6, <1>7, <1>8, <1>9, <1>10, <1>11

LEMMA DeleteCheckpointKeeps ==
  ASSUME Uncontested, IInv, TypeOK', NEW a \in Deleter, DeleteCheckpoint(a)
  PROVE  IInv'
<1> USE DEF IInv
<1>1. /\ worker[a].pc = "checkpoint" /\ worker[a] \in Workers
      /\ worker' = [worker EXCEPT ![a] = Left(a)]
  BY DEF DeleteCheckpoint, TypeOK
<1>2. SameWorld
  <2>1. \A b \in Backup : checkpoint'[b] # {} => checkpoint[b] # {}
    BY DEF DeleteCheckpoint, TypeOK
  <2> QED BY <2>1 DEF DeleteCheckpoint, SameWorld, notes
<1>3. CASE a = "prune"
  <2>1. Left("prune") = SkipKeeping(pruner, {})
    BY <1>1, <1>3 DEF Left, SkipKeeping, pruner, Workers
  <2>2. pruner.pc = "checkpoint" /\ (pruner.target \in Complete => parent[pruner.target] = 0)
    BY <1>1, <1>3 DEF pruner, WorkerInv
  <2>3. worker' = [worker EXCEPT !["prune"] = SkipKeeping(pruner, {})]
    BY <1>1, <1>3, <2>1
  <2>4. \A c \in Complete \cap {} : parent[c] # 0 => parent[c] \in {}
    OBVIOUS
  <2> QED BY <1>2, <2>2, <2>3, <2>4, PrunerSkips
<1>4. CASE a = "delete"
  <2>1. Left(a) = Free
    BY <1>4 DEF Left
  <2> QED BY <1>1, <1>2, <1>4, <2>1, DeleterFree
<1> QED BY <1>3, <1>4 DEF Deleter

-----------------------------------------------------------------------------
(* Runs *)

\* A run begins under the next id, or resumes an incomplete full one while nobody deletes.
LEMMA BeginKeeps ==
  ASSUME IInv, TypeOK', NEW kind \in {"full", "incremental", "resume"}, NEW b \in Backup,
         NEW p, NEW done, Begin(kind, b, p, done),
         b \notin Complete, b < next', next' \in {next, next + 1},
         b # next => b < next /\ p = parent[b],
         kind = "full" => b = next,
         kind # "full" => \A a \in Deleter : ~ AtWork(a),
         IF kind = "incremental" THEN p \in Complete ELSE p = 0,
         done \subseteq stored[b]
  PROVE  IInv'
<1> USE DEF IInv
<1>1. /\ run.pc = "free" /\ UNCHANGED <<storage, leases, notes, worker, reader, hold>>
      /\ run' = [pc |-> "lease", kind |-> kind, id |-> b, done |-> done,
                leased |-> FALSE]
      /\ parent' = [parent EXCEPT ![b] = p]
  BY DEF Begin, NoRun
<1>2. /\ run'.pc = "lease" /\ run'.id = b /\ run'.kind = kind /\ run'.done = done /\ ~ run'.leased
      /\ Complete' = Complete /\ Written' = {b} /\ Written = {}
      /\ \A c \in Backup : parent'[c] = IF c = b THEN p ELSE parent[c]
  BY <1>1 DEF Complete, Written, AtRisk, storage, TypeOK
<1>3. /\ \A c \in Complete : parent'[c] = parent[c]
      /\ next \in Nat /\ next <= next'
      /\ Doomed' = Doomed /\ pruner' = pruner /\ deleter' = deleter
      /\ \A a \in Deleter : AtWork(a)' = AtWork(a)
  BY <1>1, <1>2, Ids DEF TypeOK, Doomed, pruner, deleter, AtWork
<1>4. CatalogInv'
  <2>1. \A c \in Backup : c >= next' => stored[c] = {} /\ checkpoint[c] = {}
    BY <1>3 DEF StorageInv, CatalogInv, Backup, TypeOK
  <2>2. \A c \in Backup : checkpoint[c] # {} => parent'[c] = 0
    <3>1. b = next => checkpoint[b] = {}
      BY <1>3 DEF StorageInv, CatalogInv
    <3> QED BY <1>2, <3>1 DEF StorageInv, CatalogInv
  <2> QED BY <1>1, <2>1, <2>2 DEF CatalogInv, storage
<1>5. StorageInv'
  BY <1>1, <1>2, <1>3, <1>4 DEF StorageInv, PromisesInv, ChainsIntact, CommittedIsWhole, Readable,
     storage, notes
<1>6. RunInv'
  <2>1. kind = "full" => stored[b] = {}
    BY <1>3 DEF StorageInv, CatalogInv
  <2>2. b \in 1 .. next' - 1
    BY <1>3 DEF Backup
  <2> QED BY <1>1, <1>2, <1>3, <2>1, <2>2 DEF RunInv, storage
<1>7. HoldInv' /\ DeleteInv'
  BY <1>1, <1>2, <1>3 DEF HoldInv, DeleteInv, notes
<1>8. ASSUME NEW a \in Deleter PROVE WorkerInv(a)' /\ ShieldInv(a)'
  <2>1. worker[a].target \in Int /\ worker[a].target < next /\ worker[a].target < next'
    <3>1. worker[a].target \in Int
      BY DEF TypeOK, Workers
    <3> QED BY <1>3, <3>1 DEF WorkerInv
  <2>2. b # worker[a].target
    BY <1>3, <2>1 DEF WorkerInv, AtWork, Backup
  <2> QED BY <1>1, <1>2, <2>1, <2>2 DEF WorkerInv, ShieldInv, Past, AtWork, Actor, notes
<1>9. PruneInv'
  <2>1. b \notin pruner.complete \cup pruner.incomplete \cup Doomed
    <3>1. CASE kind = "full"
      <4>1. b \notin pruner.complete \cup pruner.incomplete \cup pruner.remove
        BY <1>3, <3>1 DEF PruneInv, ListingInv
      <4>2. b # pruner.target
        BY <1>3, <3>1 DEF WorkerInv, pruner, Deleter
      <4> QED BY <4>1, <4>2 DEF Doomed
    <3>2. CASE kind # "full"
      <4>1. ~ AtWork("prune")
        BY <3>2 DEF Deleter
      <4> QED BY <4>1 DEF PruneInv, ListingInv, Doomed, AtWork, WorkerInv, pruner, Deleter, Backup
    <3> QED BY <3>1, <3>2
  <2>2. pruner.complete \cup pruner.incomplete \cup pruner.remove \subseteq 1 .. next' - 1
    BY <1>3 DEF PruneInv, ListingInv, TypeOK
  <2>3. ListingInv'
    BY <1>1, <1>2, <1>3, <2>1, <2>2 DEF PruneInv, ListingInv, notes, Deleter
  <2>4. TargetInv' /\ SparedInv'
    BY <1>1, <1>2, <1>3, <2>1 DEF PruneInv, TargetInv, SparedInv, notes
  <2>5. ClosedInv'
    BY <1>2, <1>3 DEF PruneInv, ClosedInv
  <2> QED BY <2>3, <2>4, <2>5 DEF PruneInv
<1>10. MembersInv' /\ ShieldedReaderFinishes'
  <2>1. reader.pc # "free" => /\ reader.id < next /\ reader.id < next'
                              /\ \A c \in reader.members : parent'[c] = parent[c]
    <3> SUFFICES ASSUME reader.pc # "free"
                 PROVE  reader.id < next /\ reader.id < next' /\ \A c \in reader.members : parent'[c] = parent[c]
      OBVIOUS
    <3>1. /\ reader.id \in Backup /\ reader.members \subseteq Backup
          /\ reader.id < next /\ \A c \in reader.members : c <= reader.id
      BY Ids DEF MembersInv, TypeOK, Readers
    <3>2. reader.id < next'
      BY <1>3, <3>1 DEF Backup
    <3>3. \A c \in reader.members : b = next => c # b
      BY <1>3, <3>1 DEF Backup
    <3> QED BY <1>2, <3>1, <3>2, <3>3
  <2> QED BY <1>1, <1>2, <2>1 DEF MembersInv, ShieldedReaderFinishes, Readable, storage
<1> QED BY <1>5, <1>6, <1>7, <1>8, <1>9, <1>10

LEMMA StartsKeep ==
  ASSUME Uncontested, IInv, TypeOK', StartFull \/ StartIncremental \/ StartResume
  PROVE  IInv'
<1> USE DEF IInv
<1>1. next \in Nat /\ next \notin Complete /\ (next \in Backup => {} \subseteq stored[next])
  BY Ids DEF TypeOK
<1>2. CASE StartFull
  BY <1>1, <1>2, NextIsBackup, BeginKeeps DEF StartFull
<1>3. CASE StartIncremental
  <2>1. PICK p \in Complete : Begin("incremental", next, p, {})
    BY <1>3 DEF StartIncremental
  <2>2. next \in Backup /\ next' = next + 1
    BY <1>3, NextIsBackup DEF StartIncremental
  <2>3. \A a \in Deleter : ~ AtWork(a)
    BY <2>1, Alone DEF Begin
  <2> QED BY <1>1, <2>1, <2>2, <2>3, BeginKeeps
<1>4. CASE StartResume
  <2>1. PICK b \in Backup \ Complete : /\ checkpoint[b] # {} /\ checkpoint[b] \subseteq stored[b]
                                       /\ Begin("resume", b, 0, checkpoint[b])
    BY <1>4 DEF StartResume
  <2>2. next' = next /\ b < next /\ parent[b] = 0
    <3>1. next' = next /\ ~ (b >= next) /\ parent[b] = 0
      BY <1>4, <2>1 DEF StartResume, StorageInv, CatalogInv
    <3> QED BY <1>1, <3>1 DEF Backup
  <2>3. \A a \in Deleter : ~ AtWork(a)
    BY <2>1, Alone DEF Begin
  <2> QED BY <2>1, <2>2, <2>3, BeginKeeps
<1> QED BY <1>2, <1>3, <1>4

\* What remains to be shown when a run goes on, or ends, without a commit.
LEMMA RunGoesOn ==
  ASSUME IInv, TypeOK', run.pc # "free",
         UNCHANGED <<parent, next, notes, worker, reader, hold>>,
         Complete' = Complete,
         \A b \in Backup : b >= next => stored'[b] = {} /\ checkpoint'[b] = {},
         \A b \in Backup : checkpoint'[b] # {} => parent[b] = 0,
         \A b \in Complete : Readable(b) => Readable(b)',
         run'.pc # "free" => run'.id = run.id /\ run'.kind = run.kind,
         run'.pc = "lease" => run.pc = "lease" /\ ~ run'.leased /\ UNCHANGED stored,
         run'.pc = "write" => run.pc \in {"lease", "write"},
         Written' \subseteq Written,
         run.id \in Written' => run'.done \subseteq stored'[run.id],
         run'.pc = "write" /\ run'.leased => <<"run", run.id>> \in leases',
         \A b \in Backup : <<"reader", b>> \in leases => <<"reader", b>> \in leases'
  PROVE  IInv'
<1> USE DEF IInv
<1>1. Doomed' = Doomed /\ pruner' = pruner /\ deleter' = deleter
      /\ \A a \in Deleter : AtWork(a)' = AtWork(a)
  BY DEF Doomed, pruner, deleter, AtWork
<1>2. StorageInv'
  BY DEF StorageInv, CatalogInv, PromisesInv, ChainsIntact, CommittedIsWhole, notes
<1>3. RunInv'
  BY <1>1 DEF RunInv
<1>4. HoldInv' /\ DeleteInv'
  BY <1>1 DEF HoldInv, DeleteInv, notes
<1>5. ASSUME NEW a \in Deleter PROVE WorkerInv(a)' /\ ShieldInv(a)'
  BY DEF WorkerInv, ShieldInv, Past, AtWork, Actor, notes
<1>6. PruneInv'
  <2>1. ListingInv'
    BY <1>1 DEF PruneInv, ListingInv, notes, Deleter
  <2>2. TargetInv' /\ SparedInv' /\ ClosedInv'
    BY <1>1 DEF PruneInv, TargetInv, SparedInv, ClosedInv, notes
  <2> QED BY <2>1, <2>2 DEF PruneInv
<1>7. MembersInv' /\ ShieldedReaderFinishes'
  BY Ids DEF MembersInv, ShieldedReaderFinishes
<1> QED BY <1>2, <1>3, <1>4, <1>5, <1>6, <1>7

LEMMA RunLeaseKeeps ==
  ASSUME IInv, TypeOK', RunLease
  PROVE  IInv'
<1> USE DEF IInv
<1>1. /\ run'.pc = "write" /\ run'.id = run.id /\ run'.kind = run.kind
      /\ run'.done = run.done /\ run'.leased = TRUE
  BY DEF RunLease, TypeOK, Runs
<1>2. UNCHANGED <<storage, parent, next, notes, worker, reader, hold>>
      /\ run.pc = "lease" /\ leases' = leases \cup {<<"run", run.id>>}
  BY DEF RunLease
<1>3. Complete' = Complete /\ \A b \in Complete : Readable(b) => Readable(b)'
  BY <1>2 DEF Complete, Readable, storage
<1>4. Written = {run.id} /\ Written' = {run.id}
  BY <1>1, <1>2 DEF Written, AtRisk
<1>5. run'.done \subseteq stored'[run.id]
  BY <1>1, <1>2, <1>4 DEF RunInv, storage
<1>6. /\ \A b \in Backup : b >= next => stored'[b] = {} /\ checkpoint'[b] = {}
      /\ \A b \in Backup : checkpoint'[b] # {} => parent[b] = 0
  BY <1>2 DEF StorageInv, CatalogInv, storage
<1> QED BY <1>1, <1>2, <1>3, <1>4, <1>5, <1>6, RunGoesOn

\* Without its lease a full run is at risk; any other run has no prune or delete about.
LEMMA RunUnleasedKeeps ==
  ASSUME IInv, TypeOK', RunRefused \/ RunLeaseLapses
  PROVE  IInv'
<1> USE DEF IInv
<1>1. UNCHANGED <<storage, parent, next, notes, worker, reader, hold>> /\ run.pc # "free"
  <2>1. CASE RunRefused
    BY <2>1 DEF RunRefused
  <2>2. CASE RunLeaseLapses
    BY <2>2 DEF RunLeaseLapses
  <2> QED BY <2>1, <2>2
<1>2. run'.id = run.id /\ run'.kind = run.kind /\ run'.done = run.done
  BY DEF RunRefused, RunLeaseLapses, TypeOK, Runs
<1>3. \/ run.pc = "lease" /\ run'.pc = "write" /\ run'.leased = run.leased
      \/ run'.pc = run.pc /\ run'.leased = FALSE
  BY DEF RunRefused, RunLeaseLapses, TypeOK, Runs
<1>4. Complete' = Complete /\ \A b \in Complete : Readable(b) => Readable(b)'
  BY <1>1 DEF Complete, Readable, storage
<1>5. Written' \subseteq Written
  BY <1>2, <1>3 DEF Written, AtRisk
<1>6. run.id \in Written' => run'.done \subseteq stored'[run.id]
  BY <1>1, <1>2, <1>5 DEF RunInv, storage
<1>7. ~ run'.leased
  BY <1>3 DEF RunInv
<1>8. /\ \A b \in Backup : b >= next => stored'[b] = {} /\ checkpoint'[b] = {}
      /\ \A b \in Backup : checkpoint'[b] # {} => parent[b] = 0
  BY <1>1 DEF StorageInv, CatalogInv, storage
<1>9. \A b \in Backup : <<"reader", b>> \in leases => <<"reader", b>> \in leases'
  BY DEF RunRefused, RunLeaseLapses
<1>10. UNCHANGED stored
  BY <1>1 DEF storage
<1> QED BY <1>1, <1>2, <1>3, <1>4, <1>5, <1>6, <1>7, <1>8, <1>9, <1>10, RunGoesOn

\* A data file more: nothing else is stored, and only under the run's own id.
LEMMA RunWriteKeeps ==
  ASSUME IInv, TypeOK', RunWrite
  PROVE  IInv'
<1> USE DEF IInv
<1>1. PICK f \in File \ run.done :
        /\ stored' = [stored EXCEPT ![run.id] = @ \cup {f}]
        /\ run' = [run EXCEPT !.done = @ \cup {f}]
  BY DEF RunWrite
<1>2. /\ run'.pc = "write" /\ run'.id = run.id /\ run'.kind = run.kind
      /\ run'.done = run.done \cup {f} /\ run'.leased = run.leased
  BY <1>1 DEF RunWrite, TypeOK, Runs
<1>3. UNCHANGED <<parent, checkpoint, next, leases, notes, worker, reader, hold>> /\ run.pc = "write"
  BY DEF RunWrite
<1>4. run.id \in Backup /\ run.id < next
  BY <1>3, Ids DEF RunInv, TypeOK
<1>5. \A b \in Backup : stored'[b] = IF b = run.id THEN stored[b] \cup {f} ELSE stored[b]
  BY <1>1, <1>4 DEF TypeOK
<1>6. Complete' = Complete
  BY <1>5, ManifestAssumption DEF Complete
<1>7. Written' = Written /\ (run.id \in Written => run.done \subseteq stored[run.id])
  BY <1>2, <1>3 DEF RunInv, Written, AtRisk
<1>8. \A b \in Backup : b >= next => stored'[b] = {} /\ checkpoint'[b] = {}
  BY <1>3, <1>4, <1>5 DEF StorageInv, CatalogInv, TypeOK, Backup
<1>9. \A b \in Complete : Readable(b) => Readable(b)'
  BY <1>5, Ids DEF Readable
<1>10. \A b \in Backup : checkpoint'[b] # {} => parent[b] = 0
  BY <1>3 DEF StorageInv, CatalogInv
<1>11. /\ run.id \in Written' => run'.done \subseteq stored'[run.id]
       /\ run'.leased => <<"run", run.id>> \in leases'
  BY <1>2, <1>3, <1>4, <1>5, <1>7 DEF RunInv
<1> QED BY <1>2, <1>3, <1>6, <1>7, <1>8, <1>9, <1>10, <1>11, RunGoesOn

LEMMA RunCheckpointKeeps ==
  ASSUME IInv, TypeOK', RunCheckpoint
  PROVE  IInv'
<1> USE DEF IInv
<1>1. UNCHANGED <<stored, parent, next, leases, notes, worker, run, reader, hold>>
      /\ run.pc = "write" /\ run.kind # "incremental"
  BY DEF RunCheckpoint
<1>2. run.id \in Backup /\ run.id < next /\ parent[run.id] = 0
  BY <1>1, Ids DEF RunInv, TypeOK
<1>3. \A b \in Backup : b # run.id => checkpoint'[b] = checkpoint[b]
  BY <1>2 DEF RunCheckpoint, TypeOK
<1>4. \A b \in Backup : b >= next => stored'[b] = {} /\ checkpoint'[b] = {}
  <2>1. \A b \in Backup : b >= next => b # run.id
    BY <1>2 DEF TypeOK, Backup
  <2> QED BY <1>1, <1>3, <2>1 DEF StorageInv, CatalogInv
<1>5. \A b \in Backup : checkpoint'[b] # {} => parent[b] = 0
  BY <1>2, <1>3 DEF StorageInv, CatalogInv
<1>6. Complete' = Complete /\ \A b \in Complete : Readable(b) => Readable(b)'
  BY <1>1 DEF Complete, Readable
<1>7. /\ Written' = Written
      /\ run.id \in Written => run.done \subseteq stored'[run.id]
      /\ run.leased => <<"run", run.id>> \in leases'
  BY <1>1, SameRun DEF RunInv
<1> QED BY <1>1, <1>4, <1>5, <1>6, <1>7, RunGoesOn

LEMMA RunRemovesCheckpointKeeps ==
  ASSUME IInv, TypeOK', RunRemovesCheckpoint
  PROVE  IInv'
<1> USE DEF IInv
<1>1. UNCHANGED <<stored, parent, next, leases, notes, worker, reader, hold>> /\ run.pc = "committed"
  BY DEF RunRemovesCheckpoint
<1>2. run'.pc = "release" /\ run'.id = run.id /\ run'.kind = run.kind
  BY DEF RunRemovesCheckpoint, TypeOK, Runs
<1>3. \A b \in Backup : checkpoint'[b] \in {checkpoint[b], {}}
  BY DEF RunRemovesCheckpoint, TypeOK
<1>4. \A b \in Backup : b >= next => stored'[b] = {} /\ checkpoint'[b] = {}
  BY <1>1, <1>3 DEF StorageInv, CatalogInv
<1>5. \A b \in Backup : checkpoint'[b] # {} => parent[b] = 0
  BY <1>3 DEF StorageInv, CatalogInv
<1>6. Complete' = Complete /\ \A b \in Complete : Readable(b) => Readable(b)'
  BY <1>1 DEF Complete, Readable
<1>7. Written' = {}
  BY <1>2 DEF Written
<1> QED BY <1>1, <1>2, <1>4, <1>5, <1>6, <1>7, RunGoesOn

\* A failed run removes what it wrote, or keeps it for a resume.
LEMMA RunFailKeeps ==
  ASSUME IInv, TypeOK', RunFail
  PROVE  IInv'
<1> USE DEF IInv
<1>1. UNCHANGED <<parent, next, leases, notes, worker, reader, hold>> /\ run.pc = "write"
  BY DEF RunFail
<1>2. run'.pc = "release" /\ run'.id = run.id /\ run'.kind = run.kind
  BY DEF RunFail, TypeOK, Runs
<1>3. /\ run.id \in Backup /\ run.id < next /\ run.id \notin Complete
      /\ run.kind # "incremental" => parent[run.id] = 0
  BY <1>1, Ids DEF RunInv, TypeOK
<1>4. \A b \in Backup : /\ stored'[b] \subseteq stored[b]
                        /\ b # run.id => stored'[b] = stored[b] /\ checkpoint'[b] = checkpoint[b]
  BY <1>3 DEF RunFail, TypeOK
<1>5. checkpoint'[run.id] # {} => parent[run.id] = 0
  <2>1. checkpoint'[run.id] # {} => run.kind = "resume" \/ checkpoint[run.id] # {}
    BY <1>3 DEF RunFail, TypeOK
  <2> QED BY <1>3, <2>1 DEF StorageInv, CatalogInv
<1>6. \A b \in Backup : b >= next => stored'[b] = {} /\ checkpoint'[b] = {}
  <2>1. \A b \in Backup : b >= next => b # run.id
    BY <1>3 DEF TypeOK, Backup
  <2> QED BY <1>4, <2>1 DEF StorageInv, CatalogInv
<1>7. \A b \in Backup : checkpoint'[b] # {} => parent[b] = 0
  BY <1>4, <1>5 DEF StorageInv, CatalogInv
<1>8. Complete' = Complete
  BY <1>3, <1>4 DEF Complete
<1>9. \A b \in Complete : Readable(b) => Readable(b)'
  <2>1. \A b \in Complete : stored'[b] = stored[b]
    BY <1>3, <1>4, Ids
  <2> QED BY <2>1 DEF Readable
<1>10. Written' = {}
  BY <1>2 DEF Written
<1> QED BY <1>1, <1>2, <1>6, <1>7, <1>8, <1>9, <1>10, RunGoesOn

LEMMA RunEndsKeep ==
  ASSUME IInv, TypeOK', RunRelease \/ RunCrash
  PROVE  IInv'
<1> USE DEF IInv
<1>1. /\ UNCHANGED <<storage, parent, next, notes, worker, reader, hold>>
      /\ run.pc # "free" /\ run' = NoRun
  BY DEF RunRelease, RunCrash
<1>2. \A b \in Backup : <<"reader", b>> \in leases => <<"reader", b>> \in leases'
  <2>1. CASE RunRelease
    BY <2>1 DEF RunRelease
  <2>2. CASE RunCrash
    <3> TAKE b \in Backup
    <3> HAVE <<"reader", b>> \in leases
    <3> DEFINE l == <<"reader", b>>
    <3>1. l[1] = "reader" /\ l[2] = b
      OBVIOUS
    <3>2. <<IF l[1] = "run" THEN "dead" ELSE l[1], l[2]>> \in leases'
      BY <2>2 DEF RunCrash
    <3> QED BY <3>1, <3>2
  <2> QED BY <2>1, <2>2
<1>3. run'.pc = "free" /\ Written' = {}
  BY <1>1 DEF NoRun, Written
<1>4. Complete' = Complete /\ \A b \in Complete : Readable(b) => Readable(b)'
  BY <1>1 DEF Complete, Readable, storage
<1> QED BY <1>1, <1>2, <1>3, <1>4, RunGoesOn DEF StorageInv, CatalogInv, storage

\* A commit: the backup is whole, its parent is there, and no worker had seen it.
LEMMA RunCommitKeeps ==
  ASSUME IInv, TypeOK', RunCommit
  PROVE  IInv'
<1> USE DEF IInv
<1>1. /\ UNCHANGED <<parent, checkpoint, next, leases, held, promised, cast, worker, reader, hold>>
      /\ exposed' = IF run.leased THEN exposed \ {run.id} ELSE exposed \cup {run.id}
      /\ run.pc = "write" /\ run.done = File
      /\ stored' = [stored EXCEPT ![run.id] = (@ \cap run.done) \cup {Manifest}]
  BY DEF RunCommit
<1>2. run'.pc = "committed" /\ run'.id = run.id /\ run'.kind = run.kind /\ Written' = {}
  BY DEF RunCommit, TypeOK, Runs, Written
<1>15. run.leased => run.id \in Written
  BY <1>1 DEF Written, AtRisk
<1>3. /\ run.id \in Backup /\ run.id < next /\ run.id \notin Complete
      /\ run.kind # "incremental" => parent[run.id] = 0
      /\ run.kind = "incremental" => parent[run.id] \in Complete
      /\ run.kind # "full" => \A a \in Deleter : ~ AtWork(a)
      /\ run.leased => File \subseteq stored[run.id]
  BY <1>1, <1>15, Ids DEF RunInv, TypeOK
<1>4. /\ \A b \in Backup : b # run.id => stored'[b] = stored[b]
      /\ stored'[run.id] = (stored[run.id] \cap File) \cup {Manifest}
  BY <1>1, <1>3 DEF TypeOK
<1>5. Complete' = Complete \cup {run.id}
  BY <1>3, <1>4 DEF Complete
<1>6. Doomed' = Doomed /\ pruner' = pruner /\ deleter' = deleter
      /\ \A a \in Deleter : AtWork(a)' = AtWork(a)
  BY <1>1 DEF Doomed, pruner, deleter, AtWork
<1>7. \A a \in Deleter : AtWork(a) => parent[run.id] = 0
  BY <1>3
<1>8. StorageInv'
  <2>1. CatalogInv'
    BY <1>1, <1>3, <1>4 DEF StorageInv, CatalogInv, TypeOK, Backup
  <2>2. PromisesInv' /\ ChainsIntact'
    BY <1>1, <1>3, <1>5 DEF StorageInv, PromisesInv, ChainsIntact
  <2>3. CommittedIsWhole'
    <3>1. \A b \in Complete : stored'[b] = stored[b]
      BY <1>3, <1>4, Ids
    <3>2. \A b \in Complete' \ exposed' : b # run.id => b \in Complete \ exposed
      BY <1>1, <1>5
    <3>3. run.id \notin exposed' => File \subseteq stored'[run.id]
      BY <1>1, <1>3, <1>4
    <3> QED BY <3>1, <3>2, <3>3 DEF StorageInv, CommittedIsWhole, Readable
  <2> QED BY <2>1, <2>2, <2>3 DEF StorageInv
<1>9. RunInv'
  BY <1>1, <1>2, <1>3, <1>6 DEF RunInv
<1>10. HoldInv'
  BY <1>1, <1>5, <1>6 DEF HoldInv
<1>11. DeleteInv'
  <2>1. deleter.pc \in {"leases", "manifest"} => deleter.target # 0 /\ AtWork("delete") /\ "delete" \in Deleter
    BY DEF WorkerInv, AtWork, deleter, Deleter
  <2> QED BY <1>1, <1>5, <1>6, <1>7, <2>1 DEF DeleteInv
<1>12. ASSUME NEW a \in Deleter PROVE WorkerInv(a)' /\ ShieldInv(a)'
  <2>1. Past(a) => /\ run.leased => run.id # worker[a].target
                   /\ parent[run.id] = 0 /\ worker[a].target # 0
    BY <1>7, <1>15, Ids DEF WorkerInv, Past, AtWork, Backup
  <2>2. worker[a].pc \in {"list", "objects", "checkpoint"} /\ worker[a].target \in Complete' =>
          worker[a].target \in exposed' /\ parent[worker[a].target] = 0
    BY <1>1, <1>5, <2>1 DEF WorkerInv, Past
  <2>3. worker[a].pc \in {"list", "objects", "checkpoint"} =>
          \A c \in Complete' : parent[c] # worker[a].target
    BY <1>5, <2>1 DEF WorkerInv, Past
  <2>4. WorkerInv(a)'
    BY <1>1, <1>2, <2>2, <2>3 DEF WorkerInv, AtWork, Actor
  <2>5. ShieldInv(a)'
    BY <1>1 DEF ShieldInv, Past
  <2> QED BY <2>4, <2>5
<1>13. PruneInv'
  <2>1. ListingInv'
    BY <1>1, <1>2, <1>5, <1>6, <1>7 DEF PruneInv, ListingInv, Deleter
  <2>2. SparedInv'
    BY <1>1, <1>2, <1>6 DEF PruneInv, SparedInv
  <2>3. TargetInv'
    <3>1. pruner.pc \in {"leases", "manifest"} /\ run.leased => pruner.target # run.id
      <4>1. pruner.pc \in {"leases", "manifest"} => pruner.target \in Backup
        BY Ids DEF Aimed, pruner, Deleter
      <4> QED BY <1>15, <4>1 DEF PruneInv, SparedInv, Doomed
    <3> QED BY <1>1, <1>5, <1>6, <3>1 DEF PruneInv, TargetInv
  <2>4. ClosedInv'
    <3>1. AtWork("prune") \/ (Doomed = {} /\ pruner.needed = {})
      BY DEF AtWork, pruner, Doomed, PruneInv, ListingInv, WorkerInv, Deleter, Backup
    <3>2. parent[run.id] = 0 \/ (Doomed = {} /\ pruner.needed = {})
      BY <1>7, <3>1 DEF Deleter
    <3> QED BY <1>1, <1>5, <1>6, <3>2, Ids DEF PruneInv, ClosedInv
  <2> QED BY <2>1, <2>2, <2>3, <2>4 DEF PruneInv
<1>14. MembersInv' /\ ShieldedReaderFinishes'
  <2>1. \A m \in Complete : stored'[m] = stored[m]
    BY <1>3, <1>4, Ids
  <2>2. reader.shielded => \A m \in reader.members : Readable(m)'
    BY <2>1 DEF MembersInv, Readable
  <2> QED BY <1>1, <1>5, <2>2 DEF MembersInv, ShieldedReaderFinishes
<1> QED BY <1>8, <1>9, <1>10, <1>11, <1>12, <1>13, <1>14

LEMMA RunStepsKeep ==
  ASSUME Uncontested, IInv, TypeOK', RunSteps
  PROVE  IInv'
BY StartsKeep, RunLeaseKeeps, RunUnleasedKeeps, RunWriteKeeps, RunCheckpointKeeps, RunCommitKeeps,
   RunRemovesCheckpointKeeps, RunFailKeeps, RunEndsKeep DEF RunSteps

-----------------------------------------------------------------------------
(* Restores, holds, time *)

\* What remains to be shown when a restore goes on.
LEMMA ReaderGoesOn ==
  ASSUME IInv, TypeOK', UNCHANGED <<storage, parent, next, notes, worker, run, hold>>,
         \A b \in Backup : <<"run", b>> \in leases => <<"run", b>> \in leases',
         MembersInv', ShieldedReaderFinishes', \A a \in Deleter : ShieldInv(a)'
  PROVE  IInv'
<1> USE DEF IInv
<1>1. Complete' = Complete /\ Written' = Written /\ Doomed' = Doomed /\ pruner' = pruner /\ deleter' = deleter
      /\ \A a \in Deleter : AtWork(a)' = AtWork(a)
  BY SameRun DEF Complete, Doomed, pruner, deleter, AtWork, storage
<1>2. StorageInv'
  BY <1>1 DEF StorageInv, CatalogInv, PromisesInv, ChainsIntact, CommittedIsWhole, Readable,
     storage, notes
<1>3. RunInv'
  BY <1>1, Ids DEF RunInv, storage
<1>4. HoldInv' /\ DeleteInv'
  BY <1>1 DEF HoldInv, DeleteInv, notes
<1>5. \A a \in Deleter : WorkerInv(a)'
  BY <1>1 DEF WorkerInv, Past, AtWork, Actor, notes
<1>6. ListingInv'
  BY <1>1 DEF PruneInv, ListingInv, notes, Deleter
<1>7. TargetInv' /\ SparedInv' /\ ClosedInv'
  BY <1>1 DEF PruneInv, TargetInv, SparedInv, ClosedInv, notes
<1> QED BY <1>2, <1>3, <1>4, <1>5, <1>6, <1>7 DEF PruneInv

\* The chain a restore plans: whole, and linked by parents.
LEMMA ReaderPlanKeeps ==
  ASSUME IInv, TypeOK', ReaderPlan
  PROVE  IInv'
<1> USE DEF IInv
<1>1. PICK b \in Complete :
        reader' = [NoReader EXCEPT !.pc = "lease", !.id = b, !.members = Chain(b)]
  BY DEF ReaderPlan
<1>2. UNCHANGED <<storage, parent, next, leases, notes, worker, run, hold>>
  BY DEF ReaderPlan
<1>3. /\ reader'.pc = "lease" /\ reader'.id = b /\ reader'.members = Chain(b)
      /\ reader'.left = {} /\ reader'.shielded = FALSE
  BY <1>1 DEF NoReader
<1>4. b \in Backup /\ b < next /\ Parents
  BY Ids DEF TypeOK
<1>5. \A m \in Chain(b) : m <= b /\ (m # b => \E c \in Chain(b) : parent[c] = m)
  <2>1. Ancestors(Complete, b) \subseteq 1 .. b - 1
    BY <1>4, AncestorsType
  <2>2. \A m \in Ancestors(Complete, b) : \E c \in Ancestors(Complete, b) \cup {b} : parent[c] = m
    BY <1>4, AncestorsLinked
  <2> QED BY <1>4, <2>1, <2>2 DEF Chain, Backup
<1>6. MembersInv'
  BY <1>2, <1>3, <1>4, <1>5 DEF MembersInv, Chain
<1>7. ShieldedReaderFinishes' /\ \A a \in Deleter : ShieldInv(a)'
  BY <1>3 DEF ShieldedReaderFinishes, ShieldInv
<1> QED BY <1>2, <1>6, <1>7, ReaderGoesOn

LEMMA ReaderLeaseKeeps ==
  ASSUME IInv, TypeOK', ReaderLease
  PROVE  IInv'
<1> USE DEF IInv
<1>1. /\ UNCHANGED <<storage, parent, next, notes, worker, run, hold>>
      /\ reader.pc = "lease" /\ leases' = leases \cup {<<"reader", reader.id>>}
  BY DEF ReaderLease
<1>2. /\ reader'.pc = "verify" /\ reader'.id = reader.id
      /\ reader'.members = reader.members /\ reader'.left = reader.members
      /\ reader'.shielded =>
           /\ \A c \in reader.members : c \in Complete /\ Readable(c)
           /\ \A a \in Working : worker[a].pc \notin {"plan", "next", "completed?", "leases"}
                                   => worker[a].target \notin reader.members
  BY DEF ReaderLease, TypeOK, Readers
<1>3. Complete' = Complete
  BY <1>1 DEF Complete, storage
<1>4. MembersInv'
  BY <1>1, <1>2, <1>3 DEF MembersInv, Readable, storage
<1>5. \A a \in Deleter : ShieldInv(a)'
  <2>1. \A a \in Deleter : Past(a) => a \in Working
    BY DEF Past, AtWork, Working, WorkerInv
  <2> QED BY <1>1, <1>2, <2>1 DEF ShieldInv, Past
<1>6. ShieldedReaderFinishes'
  BY <1>2 DEF ShieldedReaderFinishes
<1> QED BY <1>1, <1>4, <1>5, <1>6, ReaderGoesOn

\* A shielded restore finds every file: no member has lost one.
LEMMA ReadKeeps ==
  ASSUME IInv, TypeOK', NEW pc \in {"verify", "load"}, ReadMember(pc)
  PROVE  IInv'
<1> USE DEF IInv
<1>1. PICK c \in reader.left :
         reader' = IF Readable(c) THEN [reader EXCEPT !.left = @ \ {c}]
                                  ELSE [reader EXCEPT !.pc = "failed", !.left = {}]
  BY DEF ReadMember
<1>2. /\ UNCHANGED <<storage, parent, next, leases, notes, worker, run, hold>>
      /\ reader.pc = pc
  BY DEF ReadMember
<1>3. /\ reader'.id = reader.id /\ reader'.members = reader.members
      /\ reader'.shielded = reader.shielded /\ reader'.left \subseteq reader.left
      /\ reader'.pc = IF Readable(c) THEN pc ELSE "failed"
  BY <1>1, <1>2 DEF TypeOK, Readers
<1>4. Complete' = Complete
  BY <1>2 DEF Complete, storage
<1>5. MembersInv'
  BY <1>2, <1>3, <1>4 DEF MembersInv, Readable, storage
<1>6. \A a \in Deleter : ShieldInv(a)'
  BY <1>2, <1>3 DEF ShieldInv, Past
<1>7. ShieldedReaderFinishes'
  <2>1. reader.shielded => Readable(c)
    BY <1>1, <1>2 DEF MembersInv
  <2> QED BY <1>3, <2>1 DEF ShieldedReaderFinishes
<1> QED BY <1>2, <1>5, <1>6, <1>7, ReaderGoesOn

LEMMA ReaderStepsKeep ==
  ASSUME IInv, TypeOK', ReaderSteps
  PROVE  IInv'
<1> USE DEF IInv
<1>1. CASE ReaderRefused \/ ReaderDrop
  <2>1. /\ UNCHANGED <<storage, parent, next, leases, notes, worker, run, hold>>
        /\ reader.pc \in {"lease", "verify"}
    BY <1>1 DEF ReaderRefused, ReaderDrop
  <2>2. /\ reader'.pc \in {"verify", "load"} /\ reader'.id = reader.id
        /\ reader'.members = reader.members /\ reader'.left = reader.members
        /\ reader'.shielded = reader.shielded
    BY <1>1 DEF ReaderRefused, ReaderDrop, TypeOK, Readers
  <2>3. Complete' = Complete
    BY <2>1 DEF Complete, storage
  <2>4. MembersInv'
    BY <2>1, <2>2, <2>3 DEF MembersInv, Readable, storage
  <2>5. ShieldedReaderFinishes' /\ \A a \in Deleter : ShieldInv(a)'
    BY <2>1, <2>2 DEF ShieldedReaderFinishes, ShieldInv, Past
  <2> QED BY <2>1, <2>4, <2>5, ReaderGoesOn
<1>2. CASE ReaderEnd
  <2>1. /\ UNCHANGED <<storage, parent, next, notes, worker, run, hold>>
        /\ leases' = leases \ {<<"reader", reader.id>>} /\ reader' = NoReader
    BY <1>2 DEF ReaderEnd
  <2>2. MembersInv' /\ ShieldedReaderFinishes' /\ \A a \in Deleter : ShieldInv(a)'
    BY <2>1 DEF NoReader, MembersInv, ShieldedReaderFinishes, ShieldInv
  <2> QED BY <2>1, <2>2, ReaderGoesOn
<1>4. CASE ReaderLeaseLapses
  <2>1. /\ UNCHANGED <<storage, parent, next, notes, worker, run, hold>>
        /\ leases' = leases \ {<<"reader", reader.id>>}
        /\ reader'.pc = reader.pc /\ reader'.id = reader.id /\ reader'.members = reader.members
        /\ reader'.left = reader.left /\ ~ reader'.shielded
    BY <1>4 DEF ReaderLeaseLapses, TypeOK, Readers
  <2>2. MembersInv' /\ ShieldedReaderFinishes' /\ \A a \in Deleter : ShieldInv(a)'
    BY <2>1 DEF MembersInv, ShieldedReaderFinishes, ShieldInv
  <2> QED BY <2>1, <2>2, ReaderGoesOn
<1>3. CASE ReaderVerify \/ ReaderLoad
  BY <1>3, ReadKeeps DEF ReaderVerify, ReaderLoad
<1> QED BY <1>1, <1>2, <1>3, <1>4, ReaderPlanKeeps, ReaderLeaseKeeps DEF ReaderSteps

\* Holds and time touch no object.
LEMMA RestKeeps ==
  ASSUME Uncontested, IInv, TypeOK', HoldSteps \/ GrowIdle \/ LeaseExpires \/ UNCHANGED vars
  PROVE  IInv'
<1> USE DEF IInv
<1>1. /\ UNCHANGED <<stored, parent, checkpoint, next, exposed, cast, worker, run, reader>>
      /\ \A b \in Backup : /\ <<"run", b>> \in leases => <<"run", b>> \in leases'
                           /\ <<"reader", b>> \in leases => <<"reader", b>> \in leases'
  BY DEF HoldSteps, HoldCheck, HoldPut, ReleaseHold, GrowIdle, LeaseExpires, vars, storage, notes
<1>2. Complete' = Complete /\ Written' = Written /\ Doomed' = Doomed /\ pruner' = pruner /\ deleter' = deleter
      /\ \A a \in Deleter : AtWork(a)' = AtWork(a)
  BY <1>1, SameRun DEF Complete, Doomed, pruner, deleter, AtWork
<1>3. \/ promised' \subseteq promised
      \/ promised' = promised \cup {hold.id} /\ hold.pc = "put"
  BY DEF HoldSteps, HoldCheck, HoldPut, ReleaseHold, GrowIdle, LeaseExpires, vars, notes
<1>4. PromisesInv'
  <2>1. promised' \subseteq held'
    BY DEF StorageInv, PromisesInv, HoldSteps, HoldCheck, HoldPut, ReleaseHold, GrowIdle,
           LeaseExpires, vars, notes
  <2>2. promised' \subseteq Complete
    BY <1>3 DEF StorageInv, PromisesInv, HoldInv
  <2> QED BY <1>2, <2>1, <2>2 DEF PromisesInv
<1>5. StorageInv'
  BY <1>1, <1>2, <1>4 DEF StorageInv, CatalogInv, ChainsIntact, CommittedIsWhole, Readable
<1>6. RunInv'
  BY <1>1, <1>2, Ids DEF RunInv
<1>7. HoldInv'
  <2>1. hold' = hold \/ hold'.pc = "free" \/ (hold'.id \in Complete /\ MayStart("hold"))
    BY DEF HoldSteps, HoldCheck, HoldPut, ReleaseHold, GrowIdle, LeaseExpires, vars, NoHold
  <2> QED BY <1>2, <2>1, Alone DEF HoldInv
<1>8. hold.pc = "put" => ~ AtWork("prune") /\ ~ AtWork("delete")
  BY DEF HoldInv, Deleter
<1>9. DeleteInv'
  BY <1>1, <1>2, <1>3, <1>8 DEF DeleteInv, AtWork, deleter
<1>10. \A a \in Deleter : WorkerInv(a)' /\ ShieldInv(a)'
  BY <1>1, <1>2, <1>3, <1>8 DEF WorkerInv, ShieldInv, Past, AtWork, Actor, Deleter
<1>11. ListingInv'
  BY <1>1, <1>2, <1>3, <1>8 DEF PruneInv, ListingInv, Deleter, AtWork, pruner
<1>12. SparedInv'
  <2>1. hold.pc = "put" => Doomed = {}
    BY <1>8 DEF Doomed, PruneInv, ListingInv, AtWork, pruner, WorkerInv, Deleter, Backup
  <2> QED BY <1>1, <1>2, <1>3, <2>1 DEF PruneInv, SparedInv
<1>13. TargetInv' /\ ClosedInv'
  BY <1>1, <1>2 DEF PruneInv, TargetInv, ClosedInv
<1>14. MembersInv' /\ ShieldedReaderFinishes'
  BY <1>1, <1>2, Ids DEF MembersInv, ShieldedReaderFinishes, Readable
<1> QED BY <1>5, <1>6, <1>7, <1>9, <1>10, <1>11, <1>12, <1>13, <1>14 DEF PruneInv

-----------------------------------------------------------------------------
(* The theorems *)

LEMMA NextKeeps ==
  ASSUME Uncontested, IInv, [Next]_vars
  PROVE  IInv'
<1>1. TypeOK'
  <2>1. TypeOK /\ Numbered
    BY Ids DEF IInv, Numbered, RunInv, StorageInv, CatalogInv
  <2> QED BY <2>1, TypeNext
<1>2. ASSUME Deletes PROVE IInv'
  BY <1>1, <1>2, DeleteManifestKeeps, DeleteObjectKeeps, DeleteAnnotationsKeeps,
     DeleteCheckpointKeeps
     DEF Deletes
<1> QED BY <1>1, <1>2, NextCases, LooksKeep, RunStepsKeep, ReaderStepsKeep, RestKeeps

\* In the beginning: complete chains, abandoned runs, and nobody at work.
LEMMA InitHolds ==
  ASSUME Init
  PROVE  IInv
<1>1. PICK complete \in SUBSET (1 .. cast.older) :
        /\ parent \in [Backup -> {0} \cup complete]
        /\ \A b \in Backup : parent[b] # 0 => b \in complete /\ parent[b] < b
        /\ stored \in [Backup -> SUBSET Object]
        /\ \A b \in Backup :
             /\ b \in complete => stored[b] = Object
             /\ b \notin complete => stored[b] \subseteq File
             /\ b > cast.older => stored[b] = {}
  BY DEF Init
<1>2. /\ cast \in Cast /\ next = cast.older + 1
      /\ checkpoint \in [Backup -> SUBSET File]
      /\ \A b \in Backup : checkpoint[b] # {} => checkpoint[b] = stored[b] /\ parent[b] = 0
      /\ idle = {} /\ leases = {} /\ held = {} /\ promised = {} /\ exposed = {}
      /\ worker = [a \in Deleter |-> Free]
      /\ run = NoRun /\ reader = NoReader /\ hold = NoHold
  BY DEF Init
<1>12. cast.older \in 0 .. MaxBackup
  BY <1>2, CastAssumption DEF AnyCast
<1>3. complete \subseteq Backup /\ next \in 1 .. MaxBackup + 1 /\ 0 \in 0 .. MaxBackup
  BY <1>2, <1>12 DEF Backup
<1>4. TypeOK
  <2>1. parent \in [Backup -> 0 .. MaxBackup] /\ \A b \in Backup : parent[b] < b
    <3>1. {0} \cup complete \subseteq 0 .. MaxBackup
      BY <1>3 DEF Backup
    <3>2. \A b \in Backup : parent[b] = 0 => parent[b] < b
      BY DEF Backup
    <3> QED BY <1>1, <3>1, <3>2
  <2>2. Free \in Workers /\ NoRun \in Runs /\ NoReader \in Readers
    BY <1>3 DEF Free, Workers, NoRun, Runs, NoReader, Readers
  <2>3. hold \in [pc : {"free", "put"}, id : 0 .. MaxBackup]
    BY <1>2, <1>3 DEF NoHold
  <2>4. worker \in [Deleter -> Workers]
    BY <1>2, <2>2
  <2> QED BY <1>1, <1>2, <1>3, <2>1, <2>2, <2>3, <2>4 DEF TypeOK
<1>5. Complete = complete
  BY <1>1, <1>3, ManifestAssumption DEF Complete, Object
<1>6. StorageInv
  <2>1. \A b \in Backup : b >= next => b > cast.older
    BY <1>2, <1>12 DEF Backup
  <2>2. CatalogInv
    BY <1>1, <1>2, <2>1 DEF CatalogInv
  <2>3. PromisesInv
    BY <1>2 DEF PromisesInv
  <2>4. ChainsIntact
    BY <1>1, <1>3, <1>5 DEF ChainsIntact
  <2>5. CommittedIsWhole
    BY <1>1, <1>3, <1>5 DEF CommittedIsWhole, Readable, Object
  <2> QED BY <2>2, <2>3, <2>4, <2>5 DEF StorageInv
<1>7. RunInv /\ HoldInv /\ MembersInv /\ ShieldedReaderFinishes
  BY <1>2 DEF RunInv, NoRun, HoldInv, NoHold, MembersInv, ShieldedReaderFinishes, NoReader
<1>8. \A a \in Deleter : worker[a].pc = "free" /\ worker[a].target = 0 /\ worker[a] = Free
  BY <1>2 DEF Free
<1>9. \A a \in Deleter : WorkerInv(a) /\ ShieldInv(a)
  BY <1>2, <1>3, <1>8 DEF WorkerInv, ShieldInv, NoRun, NoReader, AtWork, Past, Written, AtRisk
<1>10. DeleteInv
  BY <1>8 DEF DeleteInv, deleter, Deleter
<1>11. PruneInv
  <2>1. /\ pruner.pc = "free" /\ pruner.target = 0 /\ pruner = worker["prune"]
        /\ pruner.complete = {} /\ pruner.incomplete = {}
        /\ pruner.remove = {} /\ pruner.needed = {}
    BY <1>8 DEF pruner, Deleter, Free
  <2>2. Doomed = {} /\ run.pc = "free"
    BY <1>2, <2>1 DEF Doomed, Backup, NoRun
  <2>3. ListingInv
    BY <2>1, <2>2 DEF ListingInv, AtWork
  <2>4. TargetInv /\ SparedInv /\ ClosedInv
    BY <2>1, <2>2 DEF TargetInv, SparedInv, ClosedInv
  <2> QED BY <2>3, <2>4 DEF PruneInv
<1> QED BY <1>4, <1>6, <1>7, <1>9, <1>10, <1>11 DEF IInv

LEMMA Invariance ==
  ASSUME Uncontested
  PROVE  Spec => []IInv
<1>1. Init => IInv
  BY InitHolds
<1>2. IInv /\ [Next]_vars => IInv'
  BY NextKeeps
<1> QED BY <1>1, <1>2, PTL DEF Spec

\* Every variable stays in its domain; in particular a parent is older than its child.
THEOREM Types == Spec => []TypeOK
<1>1. Init => TypeOK /\ Numbered
  <2>1. Init => IInv
    BY InitHolds
  <2> QED BY <2>1, Ids DEF IInv, Numbered, RunInv, StorageInv, CatalogInv
<1>2. TypeOK /\ Numbered /\ [Next]_vars => (TypeOK /\ Numbered)'
  <2>1. ASSUME TypeOK, Numbered, [Next]_vars PROVE TypeOK'
    BY <2>1, TypeNext
  <2>2. ASSUME TypeOK, Numbered, [Next]_vars PROVE Numbered'
    BY <2>2, NumberedNext
  <2> QED BY <2>1, <2>2
<1> QED BY <1>1, <1>2, PTL DEF Spec

\* Prune, delete, crashes and full backups never leave a complete incremental without its
\* parent: what a prune deletes has no child that stays, and it deletes the newest first.
THEOREM ChainsStayWhole ==
  ASSUME Uncontested
  PROVE  Spec => []ChainsIntact
<1>1. IInv => ChainsIntact
  BY DEF IInv, StorageInv
<1> QED BY <1>1, Invariance, PTL

\* A backup with a manifest has every data file, unless its run committed without its lease.
THEOREM CommitsAreWhole ==
  ASSUME Uncontested
  PROVE  Spec => []CommittedIsWhole
<1>1. IInv => CommittedIsWhole
  BY DEF IInv, StorageInv
<1> QED BY <1>1, Invariance, PTL

\* A hold that was reported as placed keeps the backup and the chain it needs.
THEOREM HoldsHold ==
  ASSUME Uncontested
  PROVE  Spec => []HoldSticks
<1>1. IInv => HoldSticks
  <2> SUFFICES ASSUME IInv, NEW b \in promised
               PROVE  b \in held /\ \A c \in Chain(b) : c \in Complete /\ (c \notin exposed => Readable(c))
    BY DEF HoldSticks
  <2>1. b \in held /\ b \in Complete
    BY DEF IInv, StorageInv, PromisesInv
  <2>2. Chain(b) \subseteq Complete
    BY <2>1, Ids, ChainComplete DEF IInv, StorageInv
  <2> QED BY <2>1, <2>2 DEF IInv, StorageInv, CommittedIsWhole
<1> QED BY <1>1, Invariance, PTL

\* A restore whose lease was in time finds every file of its chain, to the end.
THEOREM ShieldProtects ==
  ASSUME Uncontested
  PROVE  Spec => []ShieldedReaderFinishes
<1>1. IInv => ShieldedReaderFinishes
  BY DEF IInv
<1> QED BY <1>1, Invariance, PTL

\* Prune never takes the manifest of a run that committed, with its lease, after prune had
\* listed it.
THEOREM CommitsAreSpared ==
  ASSUME Uncontested
  PROVE  Spec => SparesCompletedRuns
<1>1. IInv => (worker["prune"].pc = "manifest" /\ worker["prune"].target \in Complete \ exposed
                 => worker["prune"].target \in worker["prune"].complete)
  BY DEF IInv, PruneInv, TargetInv, pruner
<1>2. IInv => [LET w == worker["prune"]
               IN (w.pc = "manifest" /\ w.target \in Complete \ exposed /\ stored' # stored)
                    => (w.target \in w.complete \/ Manifest \in stored'[w.target])]_vars
  BY <1>1
<1> QED BY <1>2, Invariance, PTL DEF SparesCompletedRuns

=============================================================================
