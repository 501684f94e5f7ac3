------------------------------ MODULE WorkQueue ------------------------------
(***************************************************************************)
(* The operator's work queue (controller/workqueue.ts) and the workers of  *)
(* a controller (controller/controller.ts), which loop over it.  JavaScript *)
(* runs each of these actions to its end; between two of them anything     *)
(* else may run.                                                           *)
(***************************************************************************)
EXTENDS Naturals, Sequences

CONSTANTS
  Key,      \* namespace/name of the objects
  Worker    \* the workers of the controller

Idle == "idle"           \* about to call get
Waiting == "waiting"     \* its get() is not resolved yet
Returned == "returned"   \* its loop has ended

ASSUME KeyAssumption == Key \cap {Idle, Waiting, Returned} = {}

VARIABLES
  queue,         \* keys waiting to be processed, first come first served
  dirty,         \* keys asked for since their processing last started
  processing,    \* keys handed out and not done
  delayed,       \* keys with a timer that will add them
  waiters,       \* workers whose get() waits for a key
  holds,         \* holds[w]: the key worker w has, or what it does instead
  shuttingDown

queueVars == <<queue, dirty, processing, delayed, waiters, holds, shuttingDown>>

-----------------------------------------------------------------------------
\* Mutant: a worker that waits gets the key, which is queued all the same.
PushTwice(k, before, taken) ==
  /\ queue' = Append(queue, k)
  /\ dirty' = dirty \cup {k}
  /\ processing' = taken
  /\ IF waiters # <<>>
       THEN waiters' = Tail(waiters) /\ holds' = [before EXCEPT ![Head(waiters)] = k]
       ELSE holds' = before /\ UNCHANGED waiters

\* #push and #startProcessing: to the worker that waits longest, or to the end of
\* the queue.  before and taken are holds and processing as the caller leaves them.
Push(k, before, taken) ==
  IF waiters # <<>>
    THEN /\ waiters' = Tail(waiters)
         /\ holds' = [before EXCEPT ![Head(waiters)] = k]
         /\ dirty' = dirty \ {k}
         /\ processing' = taken \cup {k}
         /\ UNCHANGED queue
    ELSE /\ queue' = Append(queue, k)
         /\ dirty' = dirty \cup {k}
         /\ processing' = taken
         /\ holds' = before
         /\ UNCHANGED waiters

\* Mutant: a key being processed is not remembered.
AddForgets(k) ==
  IF shuttingDown \/ k \in dirty \/ k \in processing
    THEN UNCHANGED <<queue, dirty, processing, waiters, holds>>
    ELSE Push(k, holds, processing)

\* Mutant: a key being processed is queued at once.
AddAtOnce(k) ==
  IF shuttingDown \/ k \in dirty
    THEN UNCHANGED <<queue, dirty, processing, waiters, holds>>
    ELSE Push(k, holds, processing)

\* add(key); the caller says what becomes of the timers.
Add(k) ==
  IF shuttingDown \/ k \in dirty
    THEN UNCHANGED <<queue, dirty, processing, waiters, holds>>
    ELSE IF k \in processing
      THEN dirty' = dirty \cup {k} /\ UNCHANGED <<queue, processing, waiters, holds>>
      ELSE Push(k, holds, processing)

\* enqueue: an event or a resync asks for the object.
Enqueue(k) == Add(k) /\ UNCHANGED <<delayed, shuttingDown>>

\* addAfter's timer.
TimerFires(k) ==
  /\ k \in delayed
  /\ delayed' = delayed \ {k}
  /\ Add(k)
  /\ UNCHANGED shuttingDown

\* get: a worker asks for its next key.
Get(w) ==
  /\ holds[w] = Idle
  /\ \/ /\ shuttingDown
        /\ holds' = [holds EXCEPT ![w] = Returned]
        /\ UNCHANGED <<queue, dirty, processing, waiters>>
     \/ /\ ~ shuttingDown
        /\ queue # <<>>
        /\ queue' = Tail(queue)
        /\ holds' = [holds EXCEPT ![w] = Head(queue)]
        /\ dirty' = dirty \ {Head(queue)}
        /\ processing' = processing \cup {Head(queue)}
        /\ UNCHANGED waiters
     \/ /\ ~ shuttingDown
        /\ queue = <<>>
        /\ waiters' = Append(waiters, w)
        /\ holds' = [holds EXCEPT ![w] = Waiting]
        /\ UNCHANGED <<queue, dirty, processing>>
  /\ UNCHANGED <<delayed, shuttingDown>>

\* Mutant: no key is looked at again.
FinishForGood(w, again) ==
  LET k == holds[w]
      before == [holds EXCEPT ![w] = Idle]
  IN /\ k \in Key
     /\ IF k \in dirty /\ ~ shuttingDown
          THEN Push(k, before, processing \ {k})
          ELSE /\ processing' = processing \ {k}
               /\ holds' = before
               /\ UNCHANGED <<queue, dirty, waiters>>
     /\ UNCHANGED <<delayed, shuttingDown>>

\* Mutant: done does not look for a request made meanwhile.
FinishWithoutLooking(w, again) ==
  /\ holds[w] \in Key
  /\ delayed' = IF again /\ ~ shuttingDown THEN delayed \cup {holds[w]} ELSE delayed
  /\ processing' = processing \ {holds[w]}
  /\ holds' = [holds EXCEPT ![w] = Idle]
  /\ UNCHANGED <<queue, dirty, waiters, shuttingDown>>

\* The end of #process: addAfter or addRateLimited when the key must be looked at
\* again, then done.
Finish(w, again) ==
  LET k == holds[w]
      before == [holds EXCEPT ![w] = Idle]
  IN /\ k \in Key
     /\ delayed' = IF again /\ ~ shuttingDown THEN delayed \cup {k} ELSE delayed
     /\ IF k \in dirty /\ ~ shuttingDown
          THEN Push(k, before, processing \ {k})
          ELSE /\ processing' = processing \ {k}
               /\ holds' = before
               /\ UNCHANGED <<queue, dirty, waiters>>
     /\ UNCHANGED shuttingDown

\* shutDown: waiting workers get undefined, timers are cancelled; keys handed out
\* are still processed.
ShutDown ==
  /\ ~ shuttingDown
  /\ shuttingDown' = TRUE
  /\ delayed' = {}
  /\ waiters' = <<>>
  /\ holds' = [w \in Worker |-> IF holds[w] = Waiting THEN Returned ELSE holds[w]]
  /\ UNCHANGED <<queue, dirty, processing>>

-----------------------------------------------------------------------------
\* workers: those that run.
InitQueue(workers) ==
  /\ queue = <<>>
  /\ dirty = {}
  /\ processing = {}
  /\ delayed = {}
  /\ waiters = <<>>
  /\ holds = [w \in Worker |-> IF w \in workers THEN Idle ELSE Returned]
  /\ shuttingDown = FALSE

NextQueue ==
  \/ \E k \in Key : Enqueue(k) \/ TimerFires(k)
  \/ \E w \in Worker : Get(w) \/ \E again \in BOOLEAN : Finish(w, again)
  \/ ShutDown

QueueSpec == InitQueue(Worker) /\ [][NextQueue]_queueVars

\* Workers keep asking, and every reconcile ends (a request has a timeout).
FairQueueSpec ==
  /\ QueueSpec
  /\ \A w \in Worker : WF_queueVars(Get(w)) /\ WF_queueVars(\E again \in BOOLEAN : Finish(w, again))

-----------------------------------------------------------------------------
(* Properties *)

\* Every variable of the queue stays in its domain; the keys being processed are those
\* workers have, the waiting workers those whose get() will be answered.
QueueTypeOK ==
  /\ queue \in Seq(Key)
  /\ dirty \subseteq Key
  /\ processing \subseteq Key
  /\ delayed \subseteq Key
  /\ waiters \in Seq(Worker)
  /\ holds \in [Worker -> Key \cup {Idle, Waiting, Returned}]
  /\ processing = {holds[w] : w \in Worker} \cap Key
  /\ {waiters[i] : i \in DOMAIN waiters} = {w \in Worker : holds[w] = Waiting}
  /\ shuttingDown \in BOOLEAN

\* No two workers reconcile the same object, whatever is added while it is being
\* reconciled (workqueue.ts and controller.ts promise it, the reconcilers rely on it).
OneWorkerPerKey ==
  \A v, w \in Worker : v # w /\ holds[v] = holds[w] => holds[v] \notin Key

\* A key asked for is never lost: it is in the queue, once, or it is being
\* processed and done() will find it.
NothingIsForgotten ==
  /\ \A k \in dirty :
       ~ shuttingDown => (k \in processing) # (\E i \in DOMAIN queue : queue[i] = k)
  /\ \A i, j \in DOMAIN queue : queue[i] = queue[j] => i = j

\* No worker waits while a key does.
NobodyWaitsForWork == waiters # <<>> => queue = <<>>

Promise == INSTANCE LevelTriggered WITH
  Nothing <- Idle,
  todo <- dirty,
  has <- [w \in Worker |-> IF holds[w] \in Key THEN holds[w] ELSE Idle],
  open <- ~ shuttingDown

\* The queue does what its users count on: a key asked for is handed out to one worker
\* at a time, and again when it was asked for meanwhile.
KeepsPromise == Promise!Spec

\* Every request is answered in the end, unless the queue is shut down.
AnswersRequests == \A k \in Key : k \in dirty ~> k \notin dirty \/ shuttingDown
=============================================================================
