------------------------- MODULE OperatorRunsProofs -------------------------
(***************************************************************************)
(* Proofs about the operator.  First the work queue, by itself: for any    *)
(* keys and workers its types and its safety, and that it keeps the        *)
(* promise of LevelTriggered.  Then a run object and the reconciles the    *)
(* queue hands out, for any number of workers, any lag and any mishaps.    *)
(* What a step may do is put into one table (Answered, for the steps of a  *)
(* reconcile, and a few kinds for all others), and each part of the        *)
(* invariant is proved over the table.                                     *)
(***************************************************************************)
EXTENDS OperatorRuns, TLAPS

-----------------------------------------------------------------------------
(* The work queue *)

Elements(s) == {s[i] : i \in DOMAIN s}

Distinct(s) == \A i, j \in DOMAIN s : s[i] = s[j] => i = j

LEMMA AppendElements ==
  ASSUME NEW S, NEW s \in Seq(S), NEW e \in S, Distinct(s), e \notin Elements(s)
  PROVE  /\ Append(s, e) \in Seq(S)
         /\ Elements(Append(s, e)) = Elements(s) \cup {e}
         /\ Distinct(Append(s, e))
<1>1. /\ Append(s, e) \in Seq(S)
      /\ DOMAIN s = 1 .. Len(s) /\ Len(s) \in Nat
      /\ DOMAIN Append(s, e) = 1 .. Len(s) + 1
      /\ \A i \in 1 .. Len(s) : Append(s, e)[i] = s[i]
      /\ Append(s, e)[Len(s) + 1] = e
  OBVIOUS
<1> DEFINE t == Append(s, e)
<1> HIDE DEF t
<1>2. /\ DOMAIN t = 1 .. Len(s) + 1
      /\ \A i \in 1 .. Len(s) : t[i] = s[i]
      /\ t[Len(s) + 1] = e
  BY <1>1 DEF t
<1>3. Elements(t) = Elements(s) \cup {e}
  <2>1. ASSUME NEW x \in Elements(s) PROVE x \in Elements(t)
    BY <1>1, <1>2 DEF Elements
  <2>2. e \in Elements(t)
    BY <1>1, <1>2 DEF Elements
  <2>3. ASSUME NEW x \in Elements(t) PROVE x \in Elements(s) \cup {e}
    BY <1>1, <1>2 DEF Elements
  <2> QED
    BY <2>1, <2>2, <2>3
<1>4. Distinct(t)
  BY <1>1, <1>2 DEF Distinct, Elements
<1> QED
  BY <1>1, <1>3, <1>4 DEF t

LEMMA TailElements ==
  ASSUME NEW S, NEW s \in Seq(S), s # <<>>, Distinct(s)
  PROVE  /\ Head(s) \in S /\ Tail(s) \in Seq(S)
         /\ Head(s) \in Elements(s)
         /\ Elements(Tail(s)) = Elements(s) \ {Head(s)}
         /\ Distinct(Tail(s))
<1>1. /\ Head(s) \in S /\ Tail(s) \in Seq(S)
      /\ DOMAIN s = 1 .. Len(s) /\ Len(s) \in Nat /\ Len(s) > 0
      /\ Head(s) = s[1]
      /\ DOMAIN Tail(s) = 1 .. Len(s) - 1
      /\ \A i \in 1 .. Len(s) - 1 : Tail(s)[i] = s[i + 1]
  OBVIOUS
<1> DEFINE t == Tail(s)
<1> HIDE DEF t
<1>2. /\ DOMAIN t = 1 .. Len(s) - 1
      /\ \A i \in 1 .. Len(s) - 1 : t[i] = s[i + 1]
  BY <1>1 DEF t
<1>3. Head(s) \in Elements(s)
  BY <1>1 DEF Elements
<1>4. Elements(t) = Elements(s) \ {Head(s)}
  <2>1. ASSUME NEW x \in Elements(t) PROVE x \in Elements(s) \ {Head(s)}
    <3>1. PICK i \in 1 .. Len(s) - 1 : x = s[i + 1]
      BY <1>2 DEF Elements
    <3> QED
      BY <1>1, <3>1 DEF Elements, Distinct
  <2>2. ASSUME NEW x \in Elements(s) \ {Head(s)} PROVE x \in Elements(t)
    <3>1. PICK i \in 1 .. Len(s) : x = s[i]
      BY <1>1 DEF Elements
    <3>2. i # 1 /\ i - 1 \in 1 .. Len(s) - 1 /\ (i - 1) + 1 = i
      BY <1>1, <3>1
    <3>3. t[i - 1] = x
      BY <1>2, <3>1, <3>2
    <3> QED
      BY <1>2, <3>2, <3>3 DEF Elements
  <2> QED
    BY <2>1, <2>2
<1>5. Distinct(t)
  BY <1>1, <1>2 DEF Distinct
<1> QED
  BY <1>1, <1>3, <1>4, <1>5 DEF t

-----------------------------------------------------------------------------
(* The inductive invariant *)

HeldBy(h) == {h[w] : w \in Worker} \cap Key

\* Of a queue, its dirty keys, its waiting workers, and what the workers hold.
Sound(q, d, ws, h) ==
  /\ q \in Seq(Key) /\ d \subseteq Key /\ ws \in Seq(Worker)
  /\ h \in [Worker -> Key \cup {Idle, Waiting, Returned}]
  /\ Distinct(q) /\ Distinct(ws)
  /\ Elements(q) \subseteq d \ HeldBy(h)
  /\ Elements(ws) = {w \in Worker : h[w] = Waiting}
  /\ \A v, w \in Worker : v # w /\ h[v] = h[w] => h[v] \notin Key
  /\ ws # <<>> => q = <<>>

\* Every dirty key is somewhere.
Complete(q, d, h) == d \subseteq HeldBy(h) \cup Elements(q)

QueueInv ==
  /\ Sound(queue, dirty, waiters, holds)
  /\ processing = HeldBy(holds)
  /\ delayed \subseteq Key
  /\ shuttingDown \in BOOLEAN
  /\ shuttingDown => waiters = <<>>
  /\ ~ shuttingDown => Complete(queue, dirty, holds)

\* #push keeps the invariant when nobody has the key and it is not queued.
LEMMA PushKeeps ==
  ASSUME NEW k \in Key, NEW before, NEW taken,
         Sound(queue, dirty \ {k}, waiters, before), taken = HeldBy(before),
         Complete(queue, dirty \ {k}, before), dirty \subseteq Key, k \notin taken,
         shuttingDown = FALSE, shuttingDown' = FALSE, delayed' \subseteq Key,
         Push(k, before, taken)
  PROVE  QueueInv'
<1> SUFFICES /\ Sound(queue, dirty, waiters, holds)'
             /\ (processing = HeldBy(holds))'
             /\ Complete(queue, dirty, holds)'
  BY DEF QueueInv
<1>1. CASE waiters # <<>>
  <2> DEFINE w == Head(waiters)
  <2> USE KeyAssumption
  <2>1. /\ waiters' = Tail(waiters) /\ holds' = [before EXCEPT ![w] = k]
        /\ dirty' = dirty \ {k} /\ processing' = taken \cup {k} /\ queue' = queue
    BY <1>1 DEF Push
  <2>2. /\ w \in Worker /\ w \in Elements(waiters)
        /\ Tail(waiters) \in Seq(Worker) /\ Distinct(Tail(waiters))
        /\ Elements(Tail(waiters)) = Elements(waiters) \ {w}
    BY <1>1, TailElements DEF Sound
  <2>3. before[w] = Waiting /\ queue = <<>> /\ Elements(queue) = {}
    BY <1>1, <2>2 DEF Sound, Elements
  <2>4. /\ holds' \in [Worker -> Key \cup {Idle, Waiting, Returned}]
        /\ holds'[w] = k /\ k # Waiting
        /\ \A v \in Worker \ {w} : holds'[v] = before[v]
    BY <2>1, <2>2 DEF Sound
  <2> HIDE DEF w
  <2>5. HeldBy(holds') = HeldBy(before) \cup {k}
    BY <2>2, <2>3, <2>4 DEF HeldBy, Sound
  <2>6. Elements(waiters') = {v \in Worker : holds'[v] = Waiting}
    BY <2>1, <2>2, <2>3, <2>4 DEF Sound
  <2>7. \A u, v \in Worker : u # v /\ holds'[u] = holds'[v] => holds'[u] \notin Key
    BY <2>2, <2>4 DEF Sound, HeldBy
  <2>8. Sound(queue', dirty', waiters', holds')
    BY <2>1, <2>2, <2>3, <2>4, <2>6, <2>7 DEF Sound
  <2>9. Complete(queue', dirty', holds')
    BY <2>1, <2>5 DEF Complete
  <2> QED
    BY <2>1, <2>5, <2>8, <2>9 DEF Sound, Complete, HeldBy, Elements, Distinct
<1>2. CASE waiters = <<>>
  <2>1. /\ queue' = Append(queue, k) /\ dirty' = dirty \cup {k}
        /\ processing' = taken /\ holds' = before /\ waiters' = waiters
    BY <1>2 DEF Push
  <2>2. k \notin Elements(queue) /\ queue \in Seq(Key) /\ Distinct(queue)
    BY DEF Sound
  <2>3. /\ queue' \in Seq(Key) /\ Distinct(queue')
        /\ Elements(queue') = Elements(queue) \cup {k}
    BY <2>1, <2>2, AppendElements
  <2>4. Sound(queue', dirty', waiters', holds')
    BY <1>2, <2>1, <2>3 DEF Sound
  <2>5. Complete(queue', dirty', holds')
    BY <2>1, <2>3 DEF Complete
  <2>6. processing' = HeldBy(holds')
    BY <2>1
  <2>7. Sound(queue, dirty, waiters, holds)' /\ Complete(queue, dirty, holds)'
    BY <2>4, <2>5 DEF Sound, Complete, HeldBy, Elements, Distinct
  <2>8. (processing = HeldBy(holds))'
    BY <2>6 DEF HeldBy
  <2> QED
    BY <2>7, <2>8
<1> QED
  BY <1>1, <1>2

LEMMA AddKeeps ==
  ASSUME QueueInv, NEW k \in Key, Add(k), delayed' \subseteq Key, UNCHANGED shuttingDown
  PROVE  QueueInv'
<1>1. CASE shuttingDown \/ k \in dirty
  BY <1>1 DEF Add, QueueInv, Sound, Complete, HeldBy, Elements, Distinct
<1>2. CASE ~ shuttingDown /\ k \notin dirty /\ k \in processing
  <2>1. /\ dirty' = dirty \cup {k}
        /\ UNCHANGED <<queue, processing, waiters, holds, shuttingDown>>
    BY <1>2 DEF Add
  <2>2. Sound(queue', dirty', waiters', holds') /\ Complete(queue', dirty', holds')
    BY <1>2, <2>1 DEF QueueInv, Sound, Complete
  <2> QED
    BY <1>2, <2>1, <2>2 DEF QueueInv, Sound, Complete, HeldBy, Elements, Distinct
<1>3. CASE ~ shuttingDown /\ k \notin dirty /\ k \notin processing
  <2>1. Push(k, holds, processing)
    BY <1>3 DEF Add
  <2>2. dirty \ {k} = dirty /\ dirty \subseteq Key
    BY <1>3 DEF QueueInv, Sound
  <2>3. shuttingDown = FALSE /\ shuttingDown' = FALSE
    BY <1>3 DEF QueueInv
  <2>4. /\ Sound(queue, dirty \ {k}, waiters, holds) /\ processing = HeldBy(holds)
        /\ Complete(queue, dirty \ {k}, holds)
    BY <1>3, <2>2 DEF QueueInv
  <2> QED
    BY <1>3, <2>1, <2>2, <2>3, <2>4, PushKeeps
<1> QED
  BY <1>1, <1>2, <1>3

LEMMA GetKeeps ==
  ASSUME QueueInv, NEW w \in Worker, Get(w)
  PROVE  QueueInv'
<1> USE KeyAssumption
<1>1. CASE shuttingDown
  <2>1. /\ holds[w] = Idle /\ holds' = [holds EXCEPT ![w] = Returned]
        /\ UNCHANGED <<queue, dirty, processing, waiters, delayed, shuttingDown>>
    BY <1>1 DEF Get
  <2>2. /\ holds' \in [Worker -> Key \cup {Idle, Waiting, Returned}]
        /\ holds'[w] = Returned /\ Returned \notin Key /\ Returned # Waiting
        /\ Idle \notin Key /\ Idle # Waiting
        /\ \A v \in Worker \ {w} : holds'[v] = holds[v]
    BY <2>1 DEF QueueInv, Sound, Idle, Waiting, Returned
  <2>3. HeldBy(holds') = HeldBy(holds)
    BY <2>1, <2>2 DEF HeldBy, QueueInv, Sound
  <2>4. Sound(queue', dirty', waiters', holds')
    BY <2>1, <2>2, <2>3 DEF QueueInv, Sound
  <2> QED
    BY <1>1, <2>1, <2>3, <2>4 DEF QueueInv, Sound, Complete, HeldBy, Elements, Distinct
<1>2. CASE ~ shuttingDown /\ queue # <<>>
  <2> DEFINE k == Head(queue)
  <2>1. /\ holds[w] = Idle /\ holds' = [holds EXCEPT ![w] = k]
        /\ queue' = Tail(queue) /\ dirty' = dirty \ {k} /\ processing' = processing \cup {k}
        /\ UNCHANGED <<waiters, delayed, shuttingDown>>
    BY <1>2 DEF Get
  <2>2. /\ k \in Key /\ k \in Elements(queue)
        /\ queue' \in Seq(Key) /\ Distinct(queue')
        /\ Elements(queue') = Elements(queue) \ {k}
    BY <1>2, <2>1, TailElements DEF QueueInv, Sound
  <2>3. /\ holds' \in [Worker -> Key \cup {Idle, Waiting, Returned}]
        /\ holds'[w] = k /\ k # Waiting /\ Idle # Waiting /\ Idle \notin Key
        /\ \A v \in Worker \ {w} : holds'[v] = holds[v]
    BY <2>1, <2>2 DEF QueueInv, Sound, Idle, Waiting
  <2> HIDE DEF k
  <2>4. HeldBy(holds') = HeldBy(holds) \cup {k}
    BY <2>1, <2>2, <2>3 DEF HeldBy, QueueInv, Sound
  <2>5. k \notin HeldBy(holds) /\ waiters = <<>>
    BY <1>2, <2>2 DEF QueueInv, Sound
  <2>6. \A u, v \in Worker : u # v /\ holds'[u] = holds'[v] => holds'[u] \notin Key
    BY <2>3, <2>5 DEF QueueInv, Sound, HeldBy
  <2>7. Elements(waiters') = {v \in Worker : holds'[v] = Waiting}
    BY <2>1, <2>3 DEF QueueInv, Sound
  <2>8. Sound(queue', dirty', waiters', holds')
    BY <2>1, <2>2, <2>3, <2>4, <2>5, <2>6, <2>7 DEF QueueInv, Sound
  <2>9. Complete(queue', dirty', holds') /\ processing' = HeldBy(holds')
    BY <1>2, <2>1, <2>2, <2>4 DEF QueueInv, Complete
  <2> QED
    BY <1>2, <2>1, <2>8, <2>9 DEF QueueInv, Sound, Complete, HeldBy, Elements, Distinct
<1>3. CASE ~ shuttingDown /\ queue = <<>>
  <2>1. /\ holds[w] = Idle /\ holds' = [holds EXCEPT ![w] = Waiting]
        /\ waiters' = Append(waiters, w)
        /\ UNCHANGED <<queue, dirty, processing, delayed, shuttingDown>>
    BY <1>3 DEF Get
  <2>2. /\ holds' \in [Worker -> Key \cup {Idle, Waiting, Returned}]
        /\ holds'[w] = Waiting /\ Waiting \notin Key /\ Idle # Waiting /\ Idle \notin Key
        /\ \A v \in Worker \ {w} : holds'[v] = holds[v]
    BY <2>1 DEF QueueInv, Sound, Idle, Waiting
  <2>3. w \notin Elements(waiters) /\ waiters \in Seq(Worker) /\ Distinct(waiters)
    BY <2>1, <2>2 DEF QueueInv, Sound
  <2>4. /\ waiters' \in Seq(Worker) /\ Distinct(waiters')
        /\ Elements(waiters') = Elements(waiters) \cup {w}
    BY <2>1, <2>3, AppendElements
  <2>5. HeldBy(holds') = HeldBy(holds)
    BY <2>1, <2>2 DEF HeldBy, QueueInv, Sound
  <2>6. Elements(waiters') = {v \in Worker : holds'[v] = Waiting}
    BY <2>2, <2>4 DEF QueueInv, Sound
  <2>7. Sound(queue', dirty', waiters', holds')
    BY <1>3, <2>1, <2>2, <2>4, <2>5, <2>6 DEF QueueInv, Sound
  <2>8. Complete(queue', dirty', holds')
    BY <1>3, <2>1, <2>5 DEF QueueInv, Complete
  <2> QED
    BY <1>3, <2>1, <2>5, <2>7, <2>8 DEF QueueInv, Sound, Complete, HeldBy, Elements, Distinct
<1> QED
  BY <1>1, <1>2, <1>3 DEF Get

LEMMA FinishKeeps ==
  ASSUME QueueInv, NEW w \in Worker, NEW again \in BOOLEAN, Finish(w, again)
  PROVE  QueueInv'
<1> USE KeyAssumption
<1> DEFINE k == holds[w]
           before == [holds EXCEPT ![w] = Idle]
<1>1. /\ k \in Key /\ delayed' \subseteq Key /\ UNCHANGED shuttingDown
      /\ dirty \subseteq Key /\ processing = HeldBy(holds)
  BY DEF Finish, QueueInv, Sound
<1>2. /\ before \in [Worker -> Key \cup {Idle, Waiting, Returned}]
      /\ before[w] = Idle /\ k # Waiting /\ Idle # Waiting /\ Idle \notin Key
      /\ \A v \in Worker \ {w} : before[v] = holds[v] /\ holds[v] # k
  BY <1>1 DEF QueueInv, Sound, Idle, Waiting
<1>3. IF k \in dirty /\ ~ shuttingDown
        THEN Push(k, before, processing \ {k})
        ELSE /\ processing' = processing \ {k} /\ holds' = before
             /\ UNCHANGED <<queue, dirty, waiters>>
  BY DEF Finish
<1>4. holds \in [Worker -> Key \cup {Idle, Waiting, Returned}]
  BY DEF QueueInv, Sound
<1>5. k = holds[w]
  OBVIOUS
<1> HIDE DEF before, k
<1>6. HeldBy(before) = processing \ {k} /\ k \in processing
  BY <1>1, <1>2, <1>5 DEF HeldBy
<1>7. k \notin Elements(queue)
  BY <1>1, <1>6 DEF QueueInv, Sound
<1>8. {v \in Worker : before[v] = Waiting} = {v \in Worker : holds[v] = Waiting}
  BY <1>2, <1>5
<1>9. \A u, v \in Worker : u # v /\ before[u] = before[v] => before[u] \notin Key
  BY <1>2 DEF QueueInv, Sound
<1>10. Sound(queue, dirty \ {k}, waiters, before) /\ Sound(queue, dirty, waiters, before)
  BY <1>1, <1>2, <1>6, <1>7, <1>8, <1>9 DEF QueueInv, Sound
<1>11. ~ shuttingDown => Complete(queue, dirty \ {k}, before)
  BY <1>1, <1>6 DEF QueueInv, Complete
<1>12. CASE k \in dirty /\ ~ shuttingDown
  <2>1. shuttingDown = FALSE /\ shuttingDown' = FALSE
    BY <1>1, <1>12 DEF QueueInv
  <2>2. k \notin processing \ {k} /\ Push(k, before, processing \ {k})
    BY <1>3, <1>12
  <2> QED
    BY <1>1, <1>6, <1>10, <1>11, <2>1, <2>2, PushKeeps
<1>13. CASE ~ (k \in dirty /\ ~ shuttingDown)
  <2>1. /\ processing' = processing \ {k} /\ holds' = before
        /\ UNCHANGED <<queue, dirty, waiters, shuttingDown>>
    BY <1>1, <1>3, <1>13
  <2>2. Sound(queue', dirty', waiters', holds') /\ processing' = HeldBy(holds')
    BY <1>6, <1>10, <2>1
  <2>3. ~ shuttingDown' => Complete(queue', dirty', holds')
    BY <1>1, <1>11, <1>13, <2>1 DEF Complete
  <2> QED
    BY <1>1, <2>1, <2>2, <2>3 DEF QueueInv, Sound, Complete, HeldBy, Elements, Distinct
<1> QED
  BY <1>12, <1>13

LEMMA ShutDownKeeps == ASSUME QueueInv, ShutDown PROVE QueueInv'
<1> USE KeyAssumption
<1>1. /\ shuttingDown' = TRUE /\ delayed' = {} /\ waiters' = <<>>
      /\ holds' = [v \in Worker |-> IF holds[v] = Waiting THEN Returned ELSE holds[v]]
      /\ UNCHANGED <<queue, dirty, processing>>
  BY DEF ShutDown
<1>2. /\ Returned # Waiting /\ Returned \notin Key /\ Waiting \notin Key
      /\ holds \in [Worker -> Key \cup {Idle, Waiting, Returned}]
  BY DEF Returned, Waiting, QueueInv, Sound
<1>3. /\ holds' \in [Worker -> Key \cup {Idle, Waiting, Returned}]
      /\ \A v \in Worker : holds'[v] \in Key \/ holds[v] \in Key => holds'[v] = holds[v]
      /\ \A v \in Worker : holds'[v] # Waiting
  BY <1>1, <1>2
<1>4. HeldBy(holds') = HeldBy(holds)
  BY <1>3 DEF HeldBy
<1>5. Elements(waiters') = {} /\ waiters' \in Seq(Worker) /\ Distinct(waiters')
  BY <1>1 DEF Elements, Distinct
<1>6. Sound(queue', dirty', waiters', holds')
  BY <1>1, <1>3, <1>4, <1>5 DEF QueueInv, Sound
<1> QED
  BY <1>1, <1>4, <1>6 DEF QueueInv, Sound, Complete, HeldBy, Elements, Distinct

-----------------------------------------------------------------------------
(* Theorems *)

\* A queue whose workers hold nothing, empty or with one key to hand out.
LEMMA FreshQueue ==
  ASSUME NEW workers, NEW q, NEW d, NEW h,
         (q = <<>> /\ d = {}) \/ \E k \in Key : q = <<k>> /\ d = {k},
         h = [w \in Worker |-> IF w \in workers THEN Idle ELSE Returned]
  PROVE  Sound(q, d, <<>>, h) /\ HeldBy(h) = {} /\ Complete(q, d, h)
<1> USE KeyAssumption
<1>1. Idle \notin Key /\ Returned \notin Key /\ Idle # Waiting /\ Returned # Waiting
  BY DEF Idle, Waiting, Returned
<1>2. HeldBy(h) = {}
  BY <1>1 DEF HeldBy
<1>3. Elements(<<>>) = {} /\ Distinct(<<>>) /\ <<>> \in Seq(Key) /\ <<>> \in Seq(Worker)
  BY DEF Elements, Distinct
<1>4. ASSUME NEW k \in Key
      PROVE  Elements(<<k>>) = {k} /\ Distinct(<<k>>) /\ <<k>> \in Seq(Key)
  <2>1. DOMAIN <<k>> = {1} /\ <<k>>[1] = k /\ <<k>> \in Seq(Key)
    OBVIOUS
  <2> QED
    BY <2>1 DEF Elements, Distinct
<1>5. /\ h \in [Worker -> Key \cup {Idle, Waiting, Returned}]
      /\ \A w \in Worker : h[w] \notin Key /\ h[w] # Waiting
  BY <1>1
<1>6. q \in Seq(Key) /\ Distinct(q) /\ Elements(q) = d /\ d \subseteq Key
  BY <1>3, <1>4
<1> QED
  BY <1>2, <1>3, <1>5, <1>6 DEF Sound, Complete

LEMMA QueueInitInvariant ==
  ASSUME NEW workers, InitQueue(workers)
  PROVE  QueueInv
<1>1. /\ queue = <<>> /\ dirty = {} /\ waiters = <<>> /\ processing = {} /\ delayed = {}
      /\ holds = [w \in Worker |-> IF w \in workers THEN Idle ELSE Returned]
      /\ shuttingDown = FALSE
  BY DEF InitQueue
<1>2. Sound(queue, dirty, <<>>, holds) /\ HeldBy(holds) = {} /\ Complete(queue, dirty, holds)
  BY ONLY <1>1, FreshQueue
<1> QED
  BY <1>1, <1>2 DEF QueueInv

LEMMA QueueStepInvariant == QueueInv /\ [NextQueue]_queueVars => QueueInv'
<1> SUFFICES ASSUME QueueInv, [NextQueue]_queueVars PROVE QueueInv'
  OBVIOUS
<1>1. ASSUME NEW k \in Key, Enqueue(k) PROVE QueueInv'
  <2>1. Add(k) /\ delayed' \subseteq Key /\ UNCHANGED shuttingDown
    BY <1>1 DEF Enqueue, QueueInv
  <2> QED
    BY <2>1, AddKeeps
<1>2. ASSUME NEW k \in Key, TimerFires(k) PROVE QueueInv'
  <2>1. Add(k) /\ delayed' \subseteq Key /\ UNCHANGED shuttingDown
    BY <1>2 DEF TimerFires, QueueInv
  <2> QED
    BY <2>1, AddKeeps
<1>3. ASSUME NEW w \in Worker, Get(w) PROVE QueueInv'
  BY <1>3, GetKeeps
<1>4. ASSUME NEW w \in Worker, NEW again \in BOOLEAN, Finish(w, again) PROVE QueueInv'
  BY <1>4, FinishKeeps
<1>5. CASE ShutDown
  BY <1>5, ShutDownKeeps
<1>6. CASE UNCHANGED queueVars
  BY <1>6 DEF queueVars, QueueInv, Sound, Complete, HeldBy, Elements, Distinct
<1> QED
  BY <1>1, <1>2, <1>3, <1>4, <1>5, <1>6 DEF NextQueue

LEMMA QueueInvariance == QueueSpec => []QueueInv
<1>1. InitQueue(Worker) => QueueInv
  BY QueueInitInvariant
<1> QED
  BY <1>1, QueueStepInvariant, PTL DEF QueueSpec

\* Types, and who has which key, for any keys and workers.
THEOREM TypesAndHolders == QueueSpec => []QueueTypeOK
<1>1. QueueInv => QueueTypeOK
  <2> SUFFICES ASSUME QueueInv PROVE QueueTypeOK
    OBVIOUS
  <2>1. \A w \in Worker : holds[w] \in Key => holds[w] \in HeldBy(holds)
    BY DEF HeldBy
  <2> QED
    BY DEF QueueInv, Sound, HeldBy, Elements, QueueTypeOK
<1> QED
  BY <1>1, QueueInvariance, PTL

\* Two workers never reconcile the same object.
THEOREM NoTwoWorkers == QueueSpec => []OneWorkerPerKey
<1>1. QueueInv => OneWorkerPerKey
  BY DEF QueueInv, Sound, OneWorkerPerKey
<1> QED
  BY <1>1, QueueInvariance, PTL

\* No request is lost while the queue is open.
THEOREM RequestsAreKept == QueueSpec => []NothingIsForgotten
<1>1. QueueInv => NothingIsForgotten
  <2> SUFFICES ASSUME QueueInv PROVE NothingIsForgotten
    OBVIOUS
  <2>1. ASSUME NEW k \in dirty, ~ shuttingDown
        PROVE  (k \in processing) # (\E i \in DOMAIN queue : queue[i] = k)
    <3>1. k \in Elements(queue) <=> \E i \in DOMAIN queue : queue[i] = k
      BY DEF Elements
    <3>2. k \in processing \/ k \in Elements(queue)
      BY <2>1 DEF QueueInv, Complete
    <3>3. ~ (k \in processing /\ k \in Elements(queue))
      BY DEF QueueInv, Sound
    <3> QED
      BY <3>1, <3>2, <3>3
  <2> QED
    BY <2>1 DEF QueueInv, Sound, Distinct, NothingIsForgotten
<1> QED
  BY <1>1, QueueInvariance, PTL

\* No worker waits beside a key that does.
THEOREM NobodyIdles == QueueSpec => []NobodyWaitsForWork
<1>1. QueueInv => NobodyWaitsForWork
  BY DEF QueueInv, Sound, NobodyWaitsForWork
<1> QED
  BY <1>1, QueueInvariance, PTL

-----------------------------------------------------------------------------
(* The refinement *)

\* What the workers have, as LevelTriggered sees it.
Has(h) == [w \in Worker |-> IF h[w] \in Key THEN h[w] ELSE Idle]

LEMMA HasFacts ==
  ASSUME NEW h
  PROVE  {Has(h)[w] : w \in Worker} \cap Key = HeldBy(h)
  BY KeyAssumption DEF Has, HeldBy, Idle

PromiseNext == [Promise!Next]_(Promise!vars)

\* #push as the promise sees it, when it is called for a request.
LEMMA AddSteps ==
  ASSUME QueueInv, NEW k \in Key, Add(k), UNCHANGED shuttingDown
  PROVE  PromiseNext
<1> USE KeyAssumption
<1>1. CASE shuttingDown \/ k \in dirty
  BY <1>1 DEF Add, PromiseNext, Promise!vars
<1>2. CASE ~ shuttingDown /\ k \notin dirty /\ (k \in processing \/ waiters = <<>>)
  <2>1. Promise!Ask(k)
    BY <1>2 DEF Add, Push, Promise!Ask
  <2> QED
    BY <2>1 DEF PromiseNext, Promise!Next
<1>3. CASE ~ shuttingDown /\ k \notin dirty /\ k \notin processing /\ waiters # <<>>
  <2>1. PICK w \in Worker : w = Head(waiters) /\ w \in Elements(waiters)
    BY <1>3, TailElements DEF QueueInv, Sound
  <2>2. /\ holds' = [holds EXCEPT ![w] = k] /\ dirty' = dirty \ {k} /\ dirty' = dirty
    BY <1>3, <2>1 DEF Add, Push
  <2>3. holds[w] \notin Key /\ holds \in [Worker -> Key \cup {Idle, Waiting, Returned}]
    BY <2>1 DEF QueueInv, Sound, Waiting
  <2>4. Has(holds)[w] = Idle /\ Has(holds') = [Has(holds) EXCEPT ![w] = k]
    BY <2>2, <2>3 DEF Has
  <2>5. k \notin {Has(holds)[v] : v \in Worker} \cap Key
    BY <1>3, HasFacts DEF QueueInv
  <2>6. Promise!AskAndHandOut(k, w)
    BY <1>3, <2>2, <2>4, <2>5 DEF Promise!AskAndHandOut, Promise!Held, Has
  <2> QED
    BY <2>6 DEF PromiseNext, Promise!Next
<1> QED
  BY <1>1, <1>2, <1>3

LEMMA GetSteps ==
  ASSUME QueueInv, NEW w \in Worker, Get(w)
  PROVE  PromiseNext
<1> USE KeyAssumption
<1>1. /\ holds \in [Worker -> Key \cup {Idle, Waiting, Returned}]
      /\ holds[w] = Idle /\ UNCHANGED shuttingDown
      /\ Idle \notin Key /\ Waiting \notin Key /\ Returned \notin Key
  BY DEF Get, QueueInv, Sound
<1>2. CASE shuttingDown \/ queue = <<>>
  <2>1. PICK e \in {Waiting, Returned} :
          holds' = [holds EXCEPT ![w] = e] /\ UNCHANGED dirty
    BY <1>2 DEF Get
  <2>2. Has(holds') = Has(holds)
    BY <1>1, <2>1 DEF Has
  <2> QED
    BY <1>1, <2>1, <2>2 DEF PromiseNext, Promise!vars, Has
<1>3. CASE ~ shuttingDown /\ queue # <<>>
  <2>1. PICK k \in Key : k = Head(queue) /\ k \in Elements(queue)
    BY <1>3, TailElements DEF QueueInv, Sound
  <2>2. holds' = [holds EXCEPT ![w] = k] /\ dirty' = dirty \ {k}
    BY <1>3, <2>1 DEF Get
  <2>3. Has(holds)[w] = Idle /\ Has(holds') = [Has(holds) EXCEPT ![w] = k]
    BY <1>1, <2>2 DEF Has
  <2>4. k \in dirty \ ({Has(holds)[v] : v \in Worker} \cap Key)
    BY <2>1, HasFacts DEF QueueInv, Sound
  <2>5. Promise!HandOut(k, w)
    BY <1>1, <1>3, <2>2, <2>3, <2>4 DEF Promise!HandOut, Promise!Held, Has
  <2> QED
    BY <2>5 DEF PromiseNext, Promise!Next
<1> QED
  BY <1>2, <1>3

LEMMA FinishSteps ==
  ASSUME QueueInv, NEW w \in Worker, NEW again \in BOOLEAN, Finish(w, again)
  PROVE  PromiseNext
<1> USE KeyAssumption
<1>1. PICK k \in Key : k = holds[w]
  BY DEF Finish
<1>2. /\ holds \in [Worker -> Key \cup {Idle, Waiting, Returned}]
      /\ Idle \notin Key /\ Idle # Waiting /\ k # Waiting /\ UNCHANGED shuttingDown
      /\ Has(holds)[w] = k
  BY <1>1 DEF Finish, QueueInv, Sound, Idle, Waiting, Has
<1>3. CASE ~ (k \in dirty /\ ~ shuttingDown /\ waiters # <<>>)
  <2>1. holds' = [holds EXCEPT ![w] = Idle] /\ dirty' = dirty
    BY <1>1, <1>3 DEF Finish, Push
  <2>2. Has(holds') = [Has(holds) EXCEPT ![w] = Idle]
    BY <1>2, <2>1 DEF Has
  <2>3. Promise!TakeBack(w)
    BY <1>2, <2>1, <2>2 DEF Promise!TakeBack, Has
  <2> QED
    BY <2>3 DEF PromiseNext, Promise!Next
<1>4. CASE k \in dirty /\ ~ shuttingDown /\ waiters # <<>>
  <2>1. PICK v \in Worker : v = Head(waiters) /\ v \in Elements(waiters)
    BY <1>4, TailElements DEF QueueInv, Sound
  <2>2. holds[v] = Waiting /\ v # w
    BY <1>1, <1>2, <2>1 DEF QueueInv, Sound
  <2>3. holds' = [[holds EXCEPT ![w] = Idle] EXCEPT ![v] = k] /\ dirty' = dirty \ {k}
    BY <1>1, <1>4, <2>1 DEF Finish, Push
  <2>4. /\ Has(holds)[v] = Idle
        /\ Has(holds') = [Has(holds) EXCEPT ![w] = Idle, ![v] = k]
    BY <1>2, <2>2, <2>3 DEF Has
  <2>5. Promise!PassOn(w, v)
    BY <1>2, <1>4, <2>3, <2>4 DEF Promise!PassOn, Has
  <2> QED
    BY <2>5 DEF PromiseNext, Promise!Next
<1> QED
  BY <1>3, <1>4

LEMMA ShutDownSteps == ASSUME QueueInv, ShutDown PROVE PromiseNext
<1> USE KeyAssumption
<1>1. /\ holds \in [Worker -> Key \cup {Idle, Waiting, Returned}]
      /\ holds' = [v \in Worker |-> IF holds[v] = Waiting THEN Returned ELSE holds[v]]
      /\ Waiting \notin Key /\ Returned \notin Key /\ UNCHANGED dirty
  BY DEF ShutDown, QueueInv, Sound
<1>2. Has(holds') = Has(holds)
  BY <1>1 DEF Has
<1>3. Promise!Close
  BY <1>1, <1>2 DEF ShutDown, Promise!Close, Has
<1> QED
  BY <1>3 DEF PromiseNext, Promise!Next

\* The queue keeps its promise: keys go to one worker at a time, and a request made
\* while a worker has the key is kept, for any keys and workers.
THEOREM QueueKeepsPromise == QueueSpec => KeepsPromise
<1>1. InitQueue(Worker) => Promise!Init
  BY KeyAssumption DEF InitQueue, Promise!Init, Idle
<1>2. QueueInv /\ [NextQueue]_queueVars => PromiseNext
  <2> SUFFICES ASSUME QueueInv, [NextQueue]_queueVars PROVE PromiseNext
    OBVIOUS
  <2>1. ASSUME NEW k \in Key, Enqueue(k) PROVE PromiseNext
    BY <2>1, AddSteps DEF Enqueue
  <2>2. ASSUME NEW k \in Key, TimerFires(k) PROVE PromiseNext
    BY <2>2, AddSteps DEF TimerFires
  <2>3. ASSUME NEW w \in Worker, Get(w) PROVE PromiseNext
    BY <2>3, GetSteps
  <2>4. ASSUME NEW w \in Worker, NEW again \in BOOLEAN, Finish(w, again) PROVE PromiseNext
    BY <2>4, FinishSteps
  <2>5. CASE ShutDown
    BY <2>5, ShutDownSteps
  <2>6. CASE UNCHANGED queueVars
    BY <2>6 DEF queueVars, PromiseNext, Promise!vars
  <2> QED
    BY <2>1, <2>2, <2>3, <2>4, <2>5, <2>6 DEF NextQueue
<1> QED
  BY <1>1, <1>2, QueueInvariance, PTL DEF QueueSpec, KeepsPromise, Promise!Spec, PromiseNext

-----------------------------------------------------------------------------
(* Workers keep what they have *)

\* Nobody takes a key from a worker: it is there until done() is called for it.
LEMMA AddTakesNothing ==
  ASSUME QueueInv, NEW w \in Worker, holds[w] \in Key, NEW k \in Key, Add(k)
  PROVE  holds'[w] = holds[w]
<1> USE KeyAssumption
<1>1. CASE holds' = holds
  BY <1>1
<1>2. CASE holds' # holds
  <2>1. waiters # <<>> /\ holds' = [holds EXCEPT ![Head(waiters)] = k]
    BY <1>2 DEF Add, Push
  <2>2. Head(waiters) \in Elements(waiters)
    BY <2>1, TailElements DEF QueueInv, Sound
  <2>3. holds[Head(waiters)] = Waiting /\ Waiting \notin Key
    BY <2>2 DEF QueueInv, Sound
  <2> QED
    BY <2>1, <2>3 DEF QueueInv, Sound
<1> QED
  BY <1>1, <1>2

\* Every step of the queue but the end of a reconcile.
Meanwhile ==
  \/ \E k \in Key : Enqueue(k) \/ TimerFires(k)
  \/ \E v \in Worker : Get(v)
  \/ ShutDown
  \/ UNCHANGED queueVars

LEMMA WorkersKeepKeys ==
  ASSUME QueueInv, Meanwhile
  PROVE  QueueInv' /\ \A w \in Worker : holds[w] \in Key => holds'[w] = holds[w]
<1> USE KeyAssumption
<1>1. QueueInv'
  BY QueueStepInvariant DEF Meanwhile, NextQueue
<1> SUFFICES ASSUME NEW w \in Worker, holds[w] \in Key
             PROVE  holds'[w] = holds[w]
  BY <1>1
<1>2. ASSUME NEW k \in Key, Enqueue(k) \/ TimerFires(k) PROVE holds'[w] = holds[w]
  <2>1. Add(k)
    BY <1>2 DEF Enqueue, TimerFires
  <2> QED
    BY <2>1, AddTakesNothing
<1>3. ASSUME NEW v \in Worker, Get(v) PROVE holds'[w] = holds[w]
  <2>1. v # w /\ holds \in [Worker -> Key \cup {Idle, Waiting, Returned}]
    BY <1>3 DEF Get, QueueInv, Sound
  <2>2. \E e : holds' = [holds EXCEPT ![v] = e]
    BY <1>3 DEF Get
  <2> QED
    BY <2>1, <2>2
<1>4. CASE ShutDown
  <2>1. holds' = [v \in Worker |-> IF holds[v] = Waiting THEN Returned ELSE holds[v]]
    BY <1>4 DEF ShutDown
  <2> QED
    BY <2>1
<1>5. CASE UNCHANGED queueVars
  BY <1>5 DEF queueVars
<1> QED
  BY <1>2, <1>3, <1>4, <1>5 DEF Meanwhile

-----------------------------------------------------------------------------
(* A step of a reconcile, in one table *)

JobSteps == {"job", "pending", "create", "mark", "report", "lost"}
DataSteps == {"noPlan", "delJob", "createDelJob", "deleting", "refused", "dropDelJob", "release"}
EndSteps == {"stop", "cancel", "unguard", "refetch"} \cup DataSteps
Steps == {"settle"} \cup JobSteps \cup EndSteps

Object == [phase : {"New", "Pending", "Running", "Done", "Gone"}, guard : BOOLEAN,
           dataGuard : BOOLEAN, deleting : BOOLEAN, policy : {"Retain", "Delete"},
           id : BOOLEAN, note : {"none", "PlanNotFound", "Deleting", "Refused"}]

Types ==
  /\ world \in Worlds /\ plan \in {"wait", "ready", "refused"}
  /\ run \in Object /\ cache \in Object /\ log \in Seq(Object) /\ seen \in Nat
  /\ step \in [Worker -> {"none"} \cup Steps] /\ mine \in [Worker -> Object]
  /\ fresh \subseteq Worker /\ up \in BOOLEAN
  /\ job \in [state : {"none", "running", "finished"}, deleting : BOOLEAN]
  /\ delJob \in {"none", "running", "deleted", "refused"}
  /\ started \in 0 .. 2 /\ stored \in BOOLEAN

\* Only the worker that has the key is at work, and knows whether its object is the newest.
Busy ==
  \A w \in Worker :
    /\ step[w] # "none" => holds[w] = TheKey
    /\ w \in fresh => step[w] # "none" /\ mine[w] = run
    /\ step[w] = "none" => mine[w] = Gone

\* The watch ends with the object as it is, and the cache is what it has delivered.
Watch ==
  /\ seen <= Len(log)
  /\ log # <<>> => log[Len(log)] = run
  /\ up /\ seen = Len(log) => cache = run
  /\ ~ world.watchesBreak => seen = 0

\* Nothing is left of an operator that is down.
Down ==
  ~ up => /\ waiters = <<>> /\ processing = {} /\ delayed = {} /\ shuttingDown = FALSE
          /\ \A w \in Worker : holds[w] = Returned /\ step[w] = "none"
          /\ cache = Gone /\ log = <<>> /\ seen = 0 /\ fresh = {}

Base == QueueInv /\ Types /\ Busy /\ Watch /\ Down

\* How a reconcile goes on.
Continues(w, s) ==
  \/ step[w] = "stop" /\ ((s = "unguard" /\ job.state # "running") \/ s = "cancel")
  \/ step[w] = "unguard" /\ s = "refetch"
  \/ step[w] = "delJob" /\ (s \in {"createDelJob", "refused"} \/ (s = "release" /\ delJob = "deleted"))
  \/ step[w] = "createDelJob" /\ s = "deleting"
  \/ step[w] = "refused" /\ s = "dropDelJob"
  \/ step[w] = "job" /\ \/ s = "mark" /\ job.state = "running"
                        \/ s = "report" /\ job.state = "finished"
                        \/ s = "lost" /\ job.state = "none" /\ (~ Owned \/ plan = "refused")
                        \/ s = "pending"
                        \/ s = "create" /\ Owned /\ plan = "ready" /\ job.state = "none"
  \/ step[w] \in {"create", "mark", "report"} /\ s = step[w]
  \/ step[w] = "create" /\ s = "mark"
  \/ step[w] \in {"report", "lost"} /\ s = "settle"

\* With the object it has read, or with the one it had or has written.
Leads(w, s, o) ==
  \/ step[w] = "none" /\ s = FirstStep(cache) /\ o = cache
  \/ /\ step[w] = "refetch" /\ s \in {"release", "delJob", "noPlan"} /\ o = run'
     /\ run' = run /\ run.dataGuard /\ (s = "release" => ~ WantsData(run))
  \/ step[w] \notin {"none", "refetch"} /\ Continues(w, s) /\ (o = mine[w] \/ (w \in fresh /\ o = run'))

\* What it makes of the object.
Rewrites(w, s, r) ==
  /\ step[w] \in {"unguard", "noPlan", "deleting", "refused", "release", "pending", "create", "mark",
                  "report", "lost", "settle"}
  /\ r \in Object /\ r.policy = run.policy /\ r.deleting = run.deleting
  /\ \/ r.guard = run.guard
     \/ step[w] \in {"create", "mark", "report"} /\ r.guard
     \/ step[w] \in {"unguard", "settle"} /\ ~ r.guard
  /\ \/ r.phase = run.phase
     \/ step[w] = "pending" /\ r.phase = "Pending"
     \/ step[w] = "mark" /\ r.phase = "Running"
     \/ step[w] \in {"report", "lost"} /\ s # "report" /\ r.phase = "Done"
  /\ r.id = run.id \/ (step[w] = "report" /\ s # "report" /\ r.phase = "Done")
  /\ \/ r.dataGuard = run.dataGuard
     \/ step[w] = "release" /\ ~ r.dataGuard
     \/ step[w] = "settle" /\ (r.dataGuard => IsBackup /\ WantsData(run))

\* What it makes of the Jobs.
Manages(w) ==
  \/ UNCHANGED <<job, started, delJob>>
  \/ /\ step[w] = "cancel" /\ job'.state = job.state
     /\ job' \in [state : {"none", "running", "finished"}, deleting : BOOLEAN]
     /\ UNCHANGED <<started, delJob>>
  \/ /\ step[w] = "create" /\ mine[w].guard /\ job.state = "none"
     /\ job' = [state |-> "running", deleting |-> FALSE] /\ started' = Again(started)
     /\ UNCHANGED delJob
  \/ step[w] = "createDelJob" /\ delJob' \in {delJob, "running"} /\ UNCHANGED <<job, started>>
  \/ step[w] = "dropDelJob" /\ delJob' = "none" /\ UNCHANGED <<job, started>>

Moves(w, s, o) ==
  /\ step' = [step EXCEPT ![w] = s]
  /\ mine' = [mine EXCEPT ![w] = o]
  /\ IF s = "none" THEN o = Gone /\ \E again \in BOOLEAN : Finish(w, again)
                   ELSE UNCHANGED queueVars

\* A request of worker w that leaves it at s with object o.
Answered(w, s, o) ==
  /\ holds[w] = TheKey /\ up /\ Moves(w, s, o)
  /\ s # "none" => s \in Steps /\ Leads(w, s, o)
  /\ fresh' \subseteq fresh \cup {w}
  /\ w \in fresh' => s # "none" /\ o = run'
  /\ \/ UNCHANGED <<run, log>>
     \/ /\ w \in fresh /\ fresh' \subseteq {w} /\ log' = Append(log, run')
        /\ \E r \in Object : Rewrites(w, s, r) /\ run' = Settled(r)
  /\ Manages(w)
  /\ UNCHANGED <<world, plan, up, cache, seen, jobNews, stored>>

-----------------------------------------------------------------------------
(* Where the requests lead *)

LEMMA GoesFacts ==
  ASSUME NEW w, NEW after, NEW object, after # "none", Goes(w, after, object)
  PROVE  IF after \in Ends THEN Moves(w, "none", Gone) ELSE Moves(w, after, object)
<1>1. CASE after \in Ends
  <2>1. /\ step' = [step EXCEPT ![w] = "none"] /\ mine' = [mine EXCEPT ![w] = Gone]
        /\ Finish(w, after = "again")
    BY <1>1 DEF Goes
  <2>2. (after = "again") \in BOOLEAN
    OBVIOUS
  <2> QED
    BY <1>1, <2>1, <2>2 DEF Moves
<1>2. CASE after \notin Ends
  BY <1>2 DEF Goes, Moves
<1> QED
  BY <1>1, <1>2

\* A request that leaves the object alone.
Asked(w, after) ==
  \/ Moves(w, "none", Gone) /\ fresh' = fresh \ {w}
  \/ after \notin Ends /\ Moves(w, after, mine[w]) /\ fresh' = fresh

LEMMA ProceedsFacts ==
  ASSUME NEW w, NEW after, after # "none", Proceeds(w, after)
  PROVE  Asked(w, after)
<1>1. Goes(w, after, mine[w]) /\ fresh' = fresh \ ({w} \ Knowing(w, after))
  BY DEF Proceeds
<1>2. IF after \in Ends THEN Moves(w, "none", Gone) ELSE Moves(w, after, mine[w])
  BY <1>1, GoesFacts
<1> QED
  BY <1>1, <1>2 DEF Asked, Knowing

LEMMA ThrowsFacts ==
  ASSUME NEW w, NEW after, Throws(w)
  PROVE  Asked(w, after)
<1>1. Asked(w, "again")
  BY ProceedsFacts DEF Throws
<1> QED
  BY <1>1 DEF Asked, Ends

LEMMA SentFacts ==
  ASSUME NEW w, NEW after, after # "none", Sent(w, after)
  PROVE  Asked(w, after)
  BY ProceedsFacts, ThrowsFacts DEF Sent

\* A patch that was accepted.
Wrote(w, r, after) ==
  /\ w \in fresh /\ run' = Settled(r) /\ log' = IF up THEN Append(log, run') ELSE log
  /\ \/ Moves(w, "none", Gone) /\ fresh' = {}
     \/ after \notin Ends /\ Moves(w, after, run') /\ fresh' = {w}

LEMMA PatchFacts ==
  ASSUME NEW w, NEW r, NEW after, after # "none", Patch(w, r, after)
  PROVE  \/ Asked(w, after) /\ UNCHANGED <<run, log>>
         \/ Wrote(w, r, after)
<1>1. CASE Proceeds(w, after) /\ UNCHANGED <<run, log>>
  BY <1>1, ProceedsFacts
<1>2. CASE Throws(w) /\ UNCHANGED <<run, log>>
  BY <1>2, ThrowsFacts
<1>3. CASE Proceeds(w, "again") /\ UNCHANGED <<run, log>>
  <2>1. Asked(w, "again")
    BY <1>3, ProceedsFacts
  <2> QED
    BY <1>3, <2>1 DEF Asked, Ends
<1>4. CASE w \in fresh /\ Store(r, Knowing(w, after)) /\ Goes(w, after, run')
  <2>1. IF after \in Ends THEN Moves(w, "none", Gone) ELSE Moves(w, after, run')
    BY <1>4, GoesFacts
  <2> QED
    BY <1>4, <2>1 DEF Wrote, Store, Knowing
<1>5. CASE w \in fresh /\ Store(r, {}) /\ Goes(w, "again", run')
  <2>1. "again" # "none" /\ "again" \in Ends
    BY DEF Ends
  <2>2. Moves(w, "none", Gone)
    BY <1>5, <2>1, GoesFacts
  <2> QED
    BY <1>5, <2>2 DEF Wrote, Store
<1> QED
  BY <1>1, <1>2, <1>3, <1>4, <1>5 DEF Patch

Unmoved == UNCHANGED <<world, plan, up, cache, seen, jobNews, stored>>

AnyAnswer(w) == \E s \in {"none"} \cup Steps, o \in Object : Answered(w, s, o)

LEMMA GoneIsAnObject == Gone \in Object
  BY DEF Gone, New, Object

LEMMA WorkingWhenUp ==
  ASSUME Base, NEW w \in Worker, holds[w] = TheKey
  PROVE  up
<1>1. TheKey \in Key
  BY KeyExistsAssumption DEF TheKey
<1> QED
  BY <1>1, KeyAssumption DEF Base, Down, Types, Returned

\* The answer to a request that leaves the object alone.
LEMMA AskedIsAnswered ==
  ASSUME Base, NEW w \in Worker, NEW after, Asked(w, after),
         after \in Ends \/ (after \in Steps /\ Leads(w, after, mine[w])),
         step[w] # "none", UNCHANGED <<run, log>>, Manages(w), Unmoved
  PROVE  AnyAnswer(w)
<1>2. holds[w] = TheKey /\ up
  BY WorkingWhenUp DEF Base, Busy
<1>3. CASE Moves(w, "none", Gone) /\ fresh' = fresh \ {w}
  <2>1. Answered(w, "none", Gone)
    BY <1>2, <1>3 DEF Answered, Unmoved
  <2> QED
    BY <2>1, GoneIsAnObject DEF AnyAnswer
<1>4. CASE after \notin Ends /\ Moves(w, after, mine[w]) /\ fresh' = fresh
  <2>1. after \in Steps /\ Leads(w, after, mine[w]) /\ after # "none"
    BY <1>4 DEF Steps, JobSteps, EndSteps, DataSteps
  <2>2. w \in fresh => mine[w] = run /\ mine[w] \in Object
    BY DEF Base, Busy, Types
  <2>3. Answered(w, after, mine[w])
    BY <1>2, <1>4, <2>1, <2>2 DEF Answered, Unmoved
  <2>4. mine[w] \in Object
    BY DEF Base, Types
  <2> QED
    BY <2>1, <2>3, <2>4 DEF AnyAnswer
<1> QED
  BY <1>3, <1>4 DEF Asked

LEMMA SettledIsAnObject == ASSUME NEW r \in Object PROVE Settled(r) \in Object
  BY GoneIsAnObject DEF Settled

\* The answer to a patch, whether it was accepted or not.
LEMMA PatchIsAnswered ==
  ASSUME Base, NEW w \in Worker, NEW r, NEW after, after # "none", Patch(w, r, after),
         after \in Ends \/ (after \in Steps /\ Continues(w, after)),
         step[w] \notin {"none", "refetch"},
         mine[w] = run => r \in Object /\ \A s \in {"none", after} : Rewrites(w, s, r), UNCHANGED OtherObjects
  PROVE  AnyAnswer(w)
<1>1. holds[w] = TheKey /\ up
  BY WorkingWhenUp DEF Base, Busy
<1>2. Unmoved /\ Manages(w)
  BY DEF OtherObjects, Around, given, Unmoved, Manages
<1>3. CASE Asked(w, after) /\ UNCHANGED <<run, log>>
  <2>1. after \in Ends \/ (after \in Steps /\ Leads(w, after, mine[w]))
    BY DEF Leads
  <2> QED
    BY <1>2, <1>3, <2>1, AskedIsAnswered
<1>4. CASE Wrote(w, r, after)
  <2>1. /\ w \in fresh /\ run' = Settled(r) /\ log' = Append(log, run')
        /\ mine[w] = run /\ r \in Object /\ Rewrites(w, "none", r) /\ Rewrites(w, after, r)
    BY <1>1, <1>4 DEF Wrote, Base, Busy
  <2>2. run' \in Object
    BY <2>1, SettledIsAnObject
  <2>3. CASE Moves(w, "none", Gone) /\ fresh' = {}
    <3>1. Answered(w, "none", Gone)
      BY <1>1, <1>2, <2>1, <2>3 DEF Answered, Unmoved
    <3> QED
      BY <3>1, GoneIsAnObject DEF AnyAnswer
  <2>4. CASE after \notin Ends /\ Moves(w, after, run') /\ fresh' = {w}
    <3>1. after \in Steps /\ Leads(w, after, run')
      BY <2>1, <2>4 DEF Leads
    <3>2. Answered(w, after, run')
      BY <1>1, <1>2, <2>1, <2>4, <3>1 DEF Answered, Unmoved
    <3> QED
      BY <2>2, <3>1, <3>2 DEF AnyAnswer
  <2> QED
    BY <1>4, <2>3, <2>4 DEF Wrote
<1> QED
  BY <1>3, <1>4, PatchFacts

-----------------------------------------------------------------------------
(* Each request of a reconcile, in the table *)

LEMMA StepNames ==
  /\ "again" \in Ends /\ "done" \in Ends /\ "none" \notin Ends
  /\ \A s \in Steps : s # "none" /\ s \notin Ends
  BY DEF Ends, Steps, JobSteps, EndSteps, DataSteps

LEMMA BeginIsAnswered ==
  ASSUME Base, NEW w \in Worker, Begin(w)
  PROVE  AnyAnswer(w)
<1>1. holds[w] = TheKey /\ step[w] = "none" /\ up
  BY WorkingWhenUp DEF Begin, Begins, At
<1>2. Unmoved /\ Manages(w) /\ UNCHANGED <<run, log>>
  BY DEF Begin, ReadOnly, server, Around, given, Unmoved, Manages
<1> DEFINE s == FirstStep(cache)
<1>3. s \in {"done", "stop", "refetch", "settle", "job"}
  BY DEF FirstStep
<1>4. Goes(w, s, cache) /\ fresh' = IF s \notin Ends /\ seen = Len(log) THEN fresh \cup {w} ELSE fresh
  BY DEF Begin
<1>5. w \notin fresh
  BY <1>1 DEF Base, Busy
<1>6. s # "none"
  BY <1>3
<1>7. IF s \in Ends THEN Moves(w, "none", Gone) ELSE Moves(w, s, cache)
  BY <1>4, <1>6, GoesFacts
<1>8. CASE s \in Ends
  <2>1. Answered(w, "none", Gone)
    BY <1>1, <1>2, <1>4, <1>5, <1>7, <1>8 DEF Answered, Unmoved
  <2> QED
    BY <2>1, GoneIsAnObject DEF AnyAnswer
<1>9. CASE s \notin Ends
  <2>1. s \in Steps /\ Leads(w, s, cache)
    BY <1>1, <1>3, <1>9 DEF Leads, Ends, Steps, JobSteps, EndSteps
  <2>2. w \in fresh' => cache = run' /\ run' = run
    BY <1>1, <1>2, <1>4, <1>5 DEF Base, Watch
  <2>3. Answered(w, s, cache)
    BY <1>1, <1>2, <1>4, <1>6, <1>7, <1>9, <2>1, <2>2 DEF Answered, Unmoved
  <2>4. cache \in Object
    BY DEF Base, Types
  <2> QED
    BY <2>1, <2>3, <2>4 DEF AnyAnswer
<1> QED
  BY <1>8, <1>9

LEMMA RefetchIsAnswered ==
  ASSUME Base, NEW w \in Worker, Refetch(w)
  PROVE  AnyAnswer(w)
<1>1. step[w] = "refetch" /\ holds[w] = TheKey /\ up
  BY WorkingWhenUp DEF Refetch, At, Base, Busy
<1>2. Unmoved /\ Manages(w) /\ UNCHANGED <<run, log>>
  BY DEF Refetch, ReadOnly, server, Around, given, Unmoved, Manages
<1>3. CASE Throws(w)
  <2>1. Asked(w, "again") /\ "again" \in Ends /\ step[w] # "none"
    BY <1>1, <1>3, ThrowsFacts DEF Ends
  <2> QED
    BY <1>2, <2>1, AskedIsAnswered
<1>4. CASE ~ Throws(w)
  <2>1. PICK after \in CASE ~ run.dataGuard -> {"done"}
                         [] run.dataGuard /\ ~ WantsData(run) -> {"release"}
                         [] OTHER -> IF plan = "wait" THEN {"delJob", "noPlan"} ELSE {"delJob"} :
          Goes(w, after, run) /\ fresh' = (fresh \ {w}) \cup Knowing(w, after)
    BY <1>4 DEF Refetch
  <2>2. \/ after = "done"
        \/ /\ run.dataGuard /\ after \in {"release", "delJob", "noPlan"}
           /\ after = "release" => ~ WantsData(run)
    OBVIOUS
  <2>3. after # "none" /\ (after \in Ends <=> after = "done")
    BY <2>2 DEF Ends
  <2>4. IF after \in Ends THEN Moves(w, "none", Gone) ELSE Moves(w, after, run)
    BY <2>1, <2>3, GoesFacts
  <2>5. CASE after = "done"
    <3>1. Answered(w, "none", Gone)
      BY <1>1, <1>2, <2>1, <2>3, <2>4, <2>5 DEF Answered, Unmoved, Knowing
    <3> QED
      BY <3>1, GoneIsAnObject DEF AnyAnswer
  <2>6. CASE after # "done"
    <3>1. after \in Steps /\ Leads(w, after, run)
      BY <1>1, <1>2, <2>2, <2>6 DEF Leads, Steps, EndSteps, DataSteps
    <3>2. Answered(w, after, run)
      BY <1>1, <1>2, <2>1, <2>3, <2>4, <2>6, <3>1 DEF Answered, Unmoved, Knowing
    <3>3. run \in Object
      BY DEF Base, Types
    <3> QED
      BY <3>1, <3>2, <3>3 DEF AnyAnswer
  <2> QED
    BY <2>5, <2>6
<1> QED
  BY <1>3, <1>4

\* The requests that read, or write another object.
LEMMA SentIsAnswered ==
  ASSUME Base, NEW w \in Worker, NEW after, after # "none", Sent(w, after) \/ Throws(w),
         after \in Ends \/ (after \in Steps /\ Continues(w, after)),
         step[w] \notin {"none", "refetch"}, UNCHANGED <<run, log>>, Manages(w), Unmoved
  PROVE  AnyAnswer(w)
<1>1. Asked(w, after)
  BY SentFacts, ThrowsFacts
<1>2. after \in Ends \/ (after \in Steps /\ Leads(w, after, mine[w]))
  BY DEF Leads
<1> QED
  BY <1>1, <1>2, AskedIsAnswered

LEMMA OthersAreAnswered ==
  ASSUME Base, NEW w \in Worker,
         \/ Stop(w) \/ Cancel(w) \/ FindDelJob(w) \/ CreateDelJob(w) \/ DropDelJob(w)
         \/ FindJob(w) \/ Create(w)
  PROVE  AnyAnswer(w)
<1> USE StepNames DEF At, Steps, JobSteps, EndSteps, DataSteps, Ends
<1>1. CASE Stop(w)
  <2>1. Unmoved /\ Manages(w) /\ UNCHANGED <<run, log>> /\ step[w] = "stop"
    BY <1>1 DEF Stop, ReadOnly, server, Around, given, Unmoved, Manages
  <2>2. PICK after \in {"unguard", "again", "cancel"} :
          Sent(w, after) /\ (after = "unguard" => job.state # "running")
    BY <1>1 DEF Stop
  <2>3. after \in Ends \/ (after \in Steps /\ Continues(w, after))
    BY <2>1, <2>2 DEF Continues
  <2> QED
    BY <2>1, <2>2, <2>3, SentIsAnswered
<1>2. CASE Cancel(w)
  <2>1. Unmoved /\ UNCHANGED <<run, log, started, delJob>> /\ step[w] = "cancel"
    BY <1>2 DEF Cancel, Around, given, Unmoved
  <2>2. (Sent(w, "again") \/ Throws(w)) /\ (job' = [job EXCEPT !.deleting = job.state # "none"] \/ job' = job)
    BY <1>2 DEF Cancel
  <2>3. Manages(w)
    BY <2>1, <2>2 DEF Manages, Base, Types
  <2> QED
    BY <2>1, <2>2, <2>3, SentIsAnswered
<1>3. CASE FindDelJob(w)
  <2>1. Unmoved /\ Manages(w) /\ UNCHANGED <<run, log>> /\ step[w] = "delJob"
    BY <1>3 DEF FindDelJob, ReadOnly, server, Around, given, Unmoved, Manages
  <2>2. PICK after \in {"createDelJob", "again", "release", "refused"} :
          Sent(w, after) /\ (after = "release" => delJob = "deleted")
    BY <1>3 DEF FindDelJob, Base, Types
  <2>3. CASE after = "again"
    BY <2>1, <2>2, <2>3, SentIsAnswered
  <2>4. CASE after # "again"
    <3>1. after \in Steps
      BY <2>4
    <3>2. Continues(w, after)
      <4>1. after \in {"createDelJob", "refused"} \/ (after = "release" /\ delJob = "deleted")
        BY <2>2, <2>4
      <4> QED
        BY ONLY <2>1, <4>1 DEF Continues
    <3> QED
      BY <2>1, <2>2, <3>1, <3>2, SentIsAnswered
  <2> QED
    BY <2>3, <2>4
<1>4. CASE CreateDelJob(w)
  <2>1. Unmoved /\ Manages(w) /\ UNCHANGED <<run, log>> /\ step[w] = "createDelJob"
    BY <1>4 DEF CreateDelJob, Around, given, Unmoved, Manages
  <2>2. Sent(w, "deleting") \/ Throws(w)
    BY <1>4 DEF CreateDelJob
  <2>3. "deleting" \in Steps /\ Continues(w, "deleting")
    BY <2>1 DEF Continues
  <2> QED
    BY <2>1, <2>2, <2>3, SentIsAnswered
<1>5. CASE DropDelJob(w)
  <2>1. Unmoved /\ Manages(w) /\ UNCHANGED <<run, log>> /\ step[w] = "dropDelJob"
    BY <1>5 DEF DropDelJob, Around, given, Unmoved, Manages
  <2>2. Sent(w, "again") \/ Throws(w)
    BY <1>5 DEF DropDelJob
  <2> QED
    BY <2>1, <2>2, SentIsAnswered
<1>6. CASE FindJob(w)
  <2>1. Unmoved /\ Manages(w) /\ UNCHANGED <<run, log>> /\ step[w] = "job"
    BY <1>6 DEF FindJob, ReadOnly, server, Around, given, Unmoved, Manages
  <2>2. PICK after \in {"mark", "report", "lost", "pending", "create"} :
          Sent(w, after) /\ Continues(w, after)
    BY <1>6, <2>1 DEF FindJob, Base, Types, Continues
  <2> QED
    BY <2>1, <2>2, SentIsAnswered
<1>7. CASE Create(w)
  <2>1. Unmoved /\ UNCHANGED <<run, log>> /\ step[w] = "create"
    BY <1>7 DEF Create, Around, given, Unmoved
  <2>2. (Sent(w, "mark") \/ Throws(w)) /\ Manages(w)
    BY <1>7 DEF Create, Manages
  <2>3. Continues(w, "mark")
    BY <2>1 DEF Continues
  <2> QED
    BY <2>1, <2>2, <2>3, SentIsAnswered
<1> QED
  BY <1>1, <1>2, <1>3, <1>4, <1>5, <1>6, <1>7

\* The fields of a changed object.
Changed(o, r, guard, phase, id, dataGuard) ==
  /\ r \in Object /\ r.guard = guard /\ r.phase = phase /\ r.id = id /\ r.dataGuard = dataGuard
  /\ r.policy = o.policy /\ r.deleting = o.deleting

LEMMA ChangedRecords ==
  ASSUME NEW o \in Object
  PROVE  /\ \A g \in BOOLEAN :
              Changed(o, [o EXCEPT !.guard = g], g, o.phase, o.id, o.dataGuard)
         /\ \A g \in BOOLEAN :
              Changed(o, [o EXCEPT !.dataGuard = g], o.guard, o.phase, o.id, g)
         /\ \A g, d \in BOOLEAN :
              Changed(o, [o EXCEPT !.guard = g, !.dataGuard = d], g, o.phase, o.id, d)
         /\ \A n \in {"PlanNotFound", "Deleting", "Refused"} :
              Changed(o, [o EXCEPT !.note = n], o.guard, o.phase, o.id, o.dataGuard)
         /\ \A p \in {"Pending", "Running", "Done"} :
              Changed(o, [o EXCEPT !.phase = p], o.guard, p, o.id, o.dataGuard)
         /\ \A i \in BOOLEAN :
              Changed(o, [o EXCEPT !.phase = "Done", !.id = i], o.guard, "Done", i, o.dataGuard)
<1>1. \A g \in BOOLEAN :
           Changed(o, [o EXCEPT !.guard = g], g, o.phase, o.id, o.dataGuard)
  BY DEF Object, Changed
<1>2. \A g \in BOOLEAN :
           Changed(o, [o EXCEPT !.dataGuard = g], o.guard, o.phase, o.id, g)
  BY DEF Object, Changed
<1>3. \A g, d \in BOOLEAN :
           Changed(o, [o EXCEPT !.guard = g, !.dataGuard = d], g, o.phase, o.id, d)
  BY DEF Object, Changed
<1>4. \A n \in {"PlanNotFound", "Deleting", "Refused"} :
           Changed(o, [o EXCEPT !.note = n], o.guard, o.phase, o.id, o.dataGuard)
  BY DEF Object, Changed
<1>5. \A p \in {"Pending", "Running", "Done"} :
           Changed(o, [o EXCEPT !.phase = p], o.guard, p, o.id, o.dataGuard)
  BY DEF Object, Changed
<1>6. \A i \in BOOLEAN :
           Changed(o, [o EXCEPT !.phase = "Done", !.id = i], o.guard, "Done", i, o.dataGuard)
  BY DEF Object, Changed
<1> QED
  BY <1>1, <1>2, <1>3, <1>4, <1>5, <1>6

LEMMA PatchesAreAnswered ==
  ASSUME Base, NEW w \in Worker,
         \/ Unguard(w) \/ NoteNoPlan(w) \/ NoteDeleting(w) \/ NoteRefused(w) \/ ReleaseData(w)
         \/ Pending(w) \/ Guard(w) \/ MarkRunning(w) \/ Record(w) \/ RecordFailure(w) \/ Settle(w)
  PROVE  AnyAnswer(w)
<1> DEFINE o == mine[w]
<1>1. run \in Object /\ stored \in BOOLEAN
  BY DEF Base, Types
<1>2. CASE Unguard(w)
  <2>1. /\ step[w] = "unguard" /\ UNCHANGED OtherObjects
        /\ Patch(w, [o EXCEPT !.guard = FALSE], IF IsBackup THEN "refetch" ELSE "done")
    BY <1>2 DEF Unguard, At
  <2> DEFINE r == [o EXCEPT !.guard = FALSE]
  <2>2. Patch(w, r, IF IsBackup THEN "refetch" ELSE "done")
    BY <2>1
  <2>3. o = run => Changed(run, r, FALSE, run.phase, run.id, run.dataGuard)
    BY <1>1, ChangedRecords
  <2> HIDE DEF r
  <2>4. o = run => r \in Object /\ \A s \in {"none", IF IsBackup THEN "refetch" ELSE "done"} : Rewrites(w, s, r)
    BY <2>1, <2>3 DEF Changed, Rewrites
  <2>5. Continues(w, "refetch") /\ "refetch" \in Steps
    BY <2>1 DEF Continues, Steps, EndSteps
  <2> QED
    BY <2>1, <2>2, <2>4, <2>5, StepNames, PatchIsAnswered
<1>3. CASE NoteNoPlan(w) \/ NoteDeleting(w) \/ NoteRefused(w)
  <2>1. PICK n \in {"PlanNotFound", "Deleting", "Refused"}, after \in {"again", "dropDelJob"} :
          step[w] \in {"noPlan", "deleting", "refused"} /\ (after = "dropDelJob" => step[w] = "refused") /\ UNCHANGED OtherObjects /\ Patch(w, [o EXCEPT !.note = n], after)
    BY <1>3 DEF NoteNoPlan, NoteDeleting, NoteRefused, At
  <2> DEFINE r == [o EXCEPT !.note = n]
  <2>2. Patch(w, r, after)
    BY <2>1
  <2>3. o = run => Changed(run, r, run.guard, run.phase, run.id, run.dataGuard)
    BY <1>1, ChangedRecords
  <2> HIDE DEF r
  <2>4. o = run => r \in Object /\ \A s \in {"none", after} : Rewrites(w, s, r)
    BY <2>1, <2>3 DEF Changed, Rewrites
  <2>5. after = "dropDelJob" => Continues(w, after) /\ after \in Steps
    BY <2>1 DEF Continues, Steps, EndSteps, DataSteps
  <2> QED
    BY <2>1, <2>2, <2>4, <2>5, StepNames, PatchIsAnswered
<1>4. CASE ReleaseData(w)
  <2>1. /\ step[w] = "release" /\ UNCHANGED OtherObjects
        /\ Patch(w, [o EXCEPT !.dataGuard = FALSE], "done")
    BY <1>4 DEF ReleaseData, At
  <2> DEFINE r == [o EXCEPT !.dataGuard = FALSE]
  <2>2. Patch(w, r, "done")
    BY <2>1
  <2>3. o = run => Changed(run, r, run.guard, run.phase, run.id, FALSE)
    BY <1>1, ChangedRecords
  <2> HIDE DEF r
  <2>4. o = run => r \in Object /\ \A s \in {"none", "done"} : Rewrites(w, s, r)
    BY <2>1, <2>3 DEF Changed, Rewrites
  <2> QED
    BY <2>1, <2>2, <2>4, StepNames, PatchIsAnswered
<1>5. CASE Pending(w)
  <2>1. /\ step[w] = "pending" /\ UNCHANGED OtherObjects
        /\ Patch(w, [o EXCEPT !.phase = "Pending"], "again")
    BY <1>5 DEF Pending, At
  <2> DEFINE r == [o EXCEPT !.phase = "Pending"]
  <2>2. Patch(w, r, "again")
    BY <2>1
  <2>3. o = run => Changed(run, r, run.guard, "Pending", run.id, run.dataGuard)
    BY <1>1, ChangedRecords
  <2> HIDE DEF r
  <2>4. o = run => r \in Object /\ \A s \in {"none", "again"} : Rewrites(w, s, r)
    BY <2>1, <2>3 DEF Changed, Rewrites
  <2> QED
    BY <2>1, <2>2, <2>4, StepNames, PatchIsAnswered
<1>6. CASE Guard(w)
  <2>1. PICK s \in {"create", "mark", "report"} :
          step[w] = s /\ UNCHANGED OtherObjects /\ Patch(w, [o EXCEPT !.guard = TRUE], s)
    BY <1>6 DEF Guard, At
  <2> DEFINE r == [o EXCEPT !.guard = TRUE]
  <2>2. Patch(w, r, s)
    BY <2>1
  <2>3. o = run => Changed(run, r, TRUE, run.phase, run.id, run.dataGuard)
    BY <1>1, ChangedRecords
  <2> HIDE DEF r
  <2>4. o = run => r \in Object /\ \A t \in {"none", s} : Rewrites(w, t, r)
    BY <2>1, <2>3 DEF Changed, Rewrites
  <2>5. s # "none" /\ s \in Steps /\ Continues(w, s)
    BY <2>1 DEF Steps, JobSteps, Continues
  <2> QED
    BY <2>1, <2>2, <2>4, <2>5, StepNames, PatchIsAnswered
<1>7. CASE MarkRunning(w)
  <2>1. /\ step[w] = "mark" /\ UNCHANGED OtherObjects
        /\ Patch(w, [o EXCEPT !.phase = "Running"], "again")
    BY <1>7 DEF MarkRunning, At
  <2> DEFINE r == [o EXCEPT !.phase = "Running"]
  <2>2. Patch(w, r, "again")
    BY <2>1
  <2>3. o = run => Changed(run, r, run.guard, "Running", run.id, run.dataGuard)
    BY <1>1, ChangedRecords
  <2> HIDE DEF r
  <2>4. o = run => r \in Object /\ \A s \in {"none", "again"} : Rewrites(w, s, r)
    BY <2>1, <2>3 DEF Changed, Rewrites
  <2> QED
    BY <2>1, <2>2, <2>4, StepNames, PatchIsAnswered
<1>8. CASE Record(w)
  <2>1. PICK i \in BOOLEAN :
          step[w] = "report" /\ UNCHANGED OtherObjects /\ Patch(w, [o EXCEPT !.phase = "Done", !.id = i], "settle")
    BY <1>8 DEF Record, At
  <2> DEFINE r == [o EXCEPT !.phase = "Done", !.id = i]
  <2>2. Patch(w, r, "settle")
    BY <2>1
  <2>3. o = run => Changed(run, r, run.guard, "Done", i, run.dataGuard)
    BY <1>1, ChangedRecords
  <2> HIDE DEF r
  <2>4. o = run => r \in Object /\ \A s \in {"none", "settle"} : Rewrites(w, s, r)
    BY <2>1, <2>3 DEF Changed, Rewrites
  <2>5. "settle" \in Steps /\ Continues(w, "settle")
    BY <2>1 DEF Steps, Continues
  <2> QED
    BY <2>1, <2>2, <2>4, <2>5, StepNames, PatchIsAnswered
<1>9. CASE RecordFailure(w)
  <2>1. /\ step[w] = "lost" /\ UNCHANGED OtherObjects
        /\ Patch(w, [o EXCEPT !.phase = "Done"], "settle")
    BY <1>9 DEF RecordFailure, At
  <2> DEFINE r == [o EXCEPT !.phase = "Done"]
  <2>2. Patch(w, r, "settle")
    BY <2>1
  <2>3. o = run => Changed(run, r, run.guard, "Done", run.id, run.dataGuard)
    BY <1>1, ChangedRecords
  <2> HIDE DEF r
  <2>4. o = run => r \in Object /\ \A s \in {"none", "settle"} : Rewrites(w, s, r)
    BY <2>1, <2>3 DEF Changed, Rewrites
  <2>5. "settle" \in Steps /\ Continues(w, "settle")
    BY <2>1 DEF Steps, Continues
  <2> QED
    BY <2>1, <2>2, <2>4, <2>5, StepNames, PatchIsAnswered
<1>10. CASE Settle(w)
  <2> DEFINE d == IsBackup /\ WantsData(o)
             r == [o EXCEPT !.guard = FALSE, !.dataGuard = d]
  <2>1. step[w] = "settle" /\ UNCHANGED OtherObjects /\ Patch(w, r, "done")
    BY <1>10 DEF Settle, At
  <2>2. d \in BOOLEAN
    OBVIOUS
  <2>3. o = run => Changed(run, r, FALSE, run.phase, run.id, d)
    BY <1>1, <2>2, ChangedRecords
  <2>4. o = run => (d => IsBackup /\ WantsData(run))
    OBVIOUS
  <2> HIDE DEF d, r
  <2>5. o = run => r \in Object /\ \A s \in {"none", "done"} : Rewrites(w, s, r)
    BY <2>1, <2>3, <2>4 DEF Changed, Rewrites
  <2> QED
    BY <2>1, <2>5, StepNames, PatchIsAnswered
<1> QED
  BY <1>2, <1>3, <1>4, <1>5, <1>6, <1>7, <1>8, <1>9, <1>10

\* Every request of a reconcile is in the table.
LEMMA ReconcilesAreAnswered ==
  ASSUME Base, NEW w \in Worker, Reconciles(w)
  PROVE  AnyAnswer(w)
  BY BeginIsAnswered, RefetchIsAnswered, OthersAreAnswered, PatchesAreAnswered DEF Reconciles

-----------------------------------------------------------------------------
(* Base is inductive *)

\* Nobody else is at work beside the worker that has the key.
LEMMA Alone ==
  ASSUME QueueInv, Busy, NEW w \in Worker, holds[w] = TheKey
  PROVE  \A v \in Worker \ {w} : step[v] = "none" /\ mine[v] = Gone /\ v \notin fresh
<1>1. TheKey \in Key
  BY KeyExistsAssumption DEF TheKey
<1> QED
  BY <1>1 DEF QueueInv, Sound, Busy

LEMMA AppendFacts ==
  ASSUME NEW S, NEW s \in Seq(S), NEW e \in S
  PROVE  /\ Append(s, e) \in Seq(S) /\ Len(Append(s, e)) = Len(s) + 1 /\ Len(s) \in Nat
         /\ DOMAIN s = 1 .. Len(s) /\ DOMAIN Append(s, e) = 1 .. Len(s) + 1
         /\ Append(s, e)[Len(s) + 1] = e
         /\ \A i \in 1 .. Len(s) : Append(s, e)[i] = s[i]
  OBVIOUS

\* What a new version of the object does to the watch.
LEMMA WatchAppends ==
  ASSUME Types, Watch, up, run' \in Object, log' = Append(log, run'), UNCHANGED <<world, up, cache, seen>>
  PROVE  Watch' /\ log' \in Seq(Object)
<1>1. log' \in Seq(Object) /\ Len(log') = Len(log) + 1 /\ log'[Len(log')] = run' /\ Len(log) \in Nat
  BY AppendFacts DEF Types
<1>2. seen \in Nat /\ seen <= Len(log) /\ (~ world.watchesBreak => seen = 0)
  BY DEF Types, Watch
<1>3. seen' <= Len(log') /\ seen' # Len(log')
  BY <1>1, <1>2
<1> QED
  BY <1>1, <1>2, <1>3 DEF Watch

LEMMA ManagedTypes ==
  ASSUME Types, NEW w \in Worker, Manages(w)
  PROVE  /\ job' \in [state : {"none", "running", "finished"}, deleting : BOOLEAN]
         /\ delJob' \in {"none", "running", "deleted", "refused"}
         /\ started' \in 0 .. 2
<1>1. started \in 0 .. 2 => Again(started) \in 0 .. 2
  BY DEF Again
<1>2. [state |-> "running", deleting |-> FALSE] \in
        [state : {"none", "running", "finished"}, deleting : BOOLEAN]
  OBVIOUS
<1> QED
  BY <1>1, <1>2 DEF Types, Manages

LEMMA QueueMoves ==
  ASSUME QueueInv, NEW w \in Worker, NEW s, NEW o, Moves(w, s, o)
  PROVE  QueueInv'
<1>1. [NextQueue]_queueVars
  BY DEF Moves, NextQueue
<1> QED
  BY <1>1, QueueStepInvariant

LEMMA AnswersKeepBase ==
  ASSUME Base, NEW w \in Worker, NEW s \in {"none"} \cup Steps, NEW o \in Object, Answered(w, s, o)
  PROVE  Base'
<1>1. QueueInv'
  BY QueueMoves DEF Answered, Base
<1>2. \A v \in Worker \ {w} : step[v] = "none" /\ mine[v] = Gone /\ v \notin fresh
  BY Alone DEF Answered, Base
<1>3. /\ step' \in [Worker -> {"none"} \cup Steps] /\ mine' \in [Worker -> Object]
      /\ step'[w] = s /\ mine'[w] = o
      /\ \A v \in Worker \ {w} : step'[v] = "none" /\ mine'[v] = Gone /\ v \notin fresh'
      /\ fresh' \subseteq Worker
  BY <1>2 DEF Answered, Moves, Base, Types
<1>4. /\ run' \in Object /\ log' \in Seq(Object) /\ Watch'
  <2>1. CASE UNCHANGED <<run, log>>
    BY <2>1 DEF Answered, Base, Types, Watch
  <2>2. CASE log' = Append(log, run') /\ \E r \in Object : run' = Settled(r)
    <3>1. run' \in Object
      BY <2>2, SettledIsAnObject
    <3>2. Types /\ Watch /\ up /\ UNCHANGED <<world, up, cache, seen>>
      BY DEF Base, Answered
    <3> QED
      BY <2>2, <3>1, <3>2, WatchAppends
  <2> QED
    BY <2>1, <2>2 DEF Answered
<1>5. Types'
  <2>1. Manages(w) /\ UNCHANGED <<world, plan, up, cache, seen, jobNews, stored>>
    BY DEF Answered
  <2>2. /\ job' \in [state : {"none", "running", "finished"}, deleting : BOOLEAN]
        /\ delJob' \in {"none", "running", "deleted", "refused"} /\ started' \in 0 .. 2
    BY <2>1, ManagedTypes DEF Base
  <2> QED
    BY <1>3, <1>4, <2>1, <2>2 DEF Base, Types
<1>6. Busy'
  <2>1. s # "none" => holds' = holds /\ holds[w] = TheKey
    BY DEF Answered, Moves, queueVars
  <2>2. w \in fresh' => s # "none" /\ o = run'
    BY DEF Answered
  <2>3. s = "none" => o = Gone
    BY DEF Answered, Moves
  <2> QED
    BY <1>3, <2>1, <2>2, <2>3 DEF Busy
<1>7. Down'
  BY DEF Answered, Down
<1> QED
  BY <1>1, <1>4, <1>5, <1>6, <1>7 DEF Base

\* What a step keeps that touches the objects no more than the queue does.
Apart == UNCHANGED <<world, up, run, cache, log, seen, step, mine, fresh>>

LEMMA TheKeyIsAKey == TheKey \in Key
  BY KeyExistsAssumption DEF TheKey

\* The queue moves, and perhaps the Jobs or the plan.
LEMMA ApartKeepsBase ==
  ASSUME Base, Meanwhile, up \/ UNCHANGED queueVars, Apart,
         plan' \in {"wait", "ready", "refused"},
         job' \in [state : {"none", "running", "finished"}, deleting : BOOLEAN],
         delJob' \in {"none", "running", "deleted", "refused"},
         started' \in 0 .. 2, stored' \in BOOLEAN
  PROVE  Base'
<1>1. QueueInv' /\ \A w \in Worker : holds[w] \in Key => holds'[w] = holds[w]
  BY WorkersKeepKeys DEF Base
<1>2. Types' /\ Watch'
  BY DEF Base, Types, Watch, Apart
<1>3. Busy'
  BY <1>1, TheKeyIsAKey DEF Base, Busy, Apart
<1>4. Down'
  BY DEF Base, Down, Apart, queueVars
<1> QED
  BY <1>1, <1>2, <1>3, <1>4 DEF Base

\* The watch moves.
LEMMA CacheKeepsBase ==
  ASSUME Base, Meanwhile, up, UNCHANGED <<world, plan, up, run, job, started, delJob, stored, step, mine, fresh>>,
         cache' \in Object, log' \in Seq(Object), seen' \in Nat, Watch'
  PROVE  Base'
<1>1. QueueInv' /\ \A w \in Worker : holds[w] \in Key => holds'[w] = holds[w]
  BY WorkersKeepKeys DEF Base
<1>2. Types' /\ Down'
  BY DEF Base, Types, Down
<1>3. Busy'
  BY <1>1, TheKeyIsAKey DEF Base, Busy
<1> QED
  BY <1>1, <1>2, <1>3 DEF Base

\* Somebody else writes the object.
LEMMA ChangeKeepsBase ==
  ASSUME Base, NEW r \in Object, Store(r, {}),
         UNCHANGED <<world, plan, up, cache, seen, job, started, delJob, stored, queueVars, step, mine>>
  PROVE  Base'
<1>1. run' \in Object /\ fresh' = {} /\ log' = IF up THEN Append(log, run') ELSE log
  BY SettledIsAnObject DEF Store
<1>2. QueueInv'
  <2>1. Meanwhile
    BY DEF Meanwhile
  <2> QED
    BY <2>1, WorkersKeepKeys DEF Base
<1>3. log' \in Seq(Object) /\ Watch'
  <2>1. CASE up
    BY <1>1, <2>1, WatchAppends DEF Base
  <2>2. CASE ~ up
    BY <1>1, <2>2 DEF Base, Types, Watch, Down
  <2> QED
    BY <2>1, <2>2
<1>4. Types'
  BY <1>1, <1>3 DEF Base, Types
<1>5. Busy'
  BY <1>1 DEF Base, Busy, queueVars
<1>6. Down'
  BY <1>1 DEF Base, Down, queueVars
<1> QED
  BY <1>2, <1>3, <1>4, <1>5, <1>6 DEF Base

LEMMA SubSeqFacts ==
  ASSUME NEW S, NEW s \in Seq(S), NEW m \in Nat, m < Len(s)
  PROVE  /\ SubSeq(s, m + 1, Len(s)) \in Seq(S) /\ Len(SubSeq(s, m + 1, Len(s))) = Len(s) - m
         /\ \A i \in 1 .. Len(s) - m : SubSeq(s, m + 1, Len(s))[i] = s[m + i]
<1>1. Len(s) \in Nat /\ \A i \in 1 .. Len(s) : s[i] \in S
  OBVIOUS
<1>2. \A i \in m + 1 .. Len(s) : s[i] \in S
  BY <1>1
<1>3. SubSeq(s, m + 1, Len(s)) = [i \in 1 .. Len(s) - m |-> s[m + i]]
  BY <1>1
<1> DEFINE t == [i \in 1 .. Len(s) - m |-> s[m + i]]
<1>4. t \in Seq(S) /\ Len(t) = Len(s) - m
  <2>1. Len(s) - m \in Nat
    BY <1>1
  <2>2. \A i \in 1 .. Len(s) - m : s[m + i] \in S
    BY <1>1
  <2> QED
    BY <2>1, <2>2
<1> QED
  BY <1>3, <1>4

LEMMA TailFacts ==
  ASSUME NEW S, NEW s \in Seq(S), s # <<>>
  PROVE  /\ Tail(s) \in Seq(S) /\ Len(Tail(s)) = Len(s) - 1 /\ Len(s) \in Nat /\ Len(s) > 0
         /\ \A i \in 1 .. Len(s) - 1 : Tail(s)[i] = s[i + 1]
         /\ \A i \in 1 .. Len(s) : s[i] \in S
  OBVIOUS

\* Every move of the watch, in the terms of the objects it shows.
Shows(r) == r = run \/ r = cache \/ \E i \in DOMAIN log : r = log[i]

WatchMoves ==
  /\ Meanwhile /\ up
  /\ UNCHANGED <<world, plan, up, run, job, started, delJob, stored, step, mine, fresh>>
  /\ cache' \in Object /\ log' \in Seq(Object) /\ seen' \in Nat /\ Watch'
  /\ Shows(cache') /\ \A i \in DOMAIN log' : Shows(log'[i])
  /\ \/ world.watchesBreak
     \/ log # <<>> /\ cache' = log[1] /\ log' = Tail(log)
     \/ cache' = run /\ log' = <<>>

LEMMA DeliverMoves ==
  ASSUME Base, Deliver
  PROVE  WatchMoves
<1>1. /\ up /\ seen < Len(log) /\ cache' = log[seen + 1] /\ log \in Seq(Object) /\ seen \in Nat
      /\ UNCHANGED <<world, plan, up, run, job, started, delJob, stored, step, mine, fresh>>
  BY DEF Deliver, server, given, locals, Base, Types
<1>2. Meanwhile
  BY TheKeyIsAKey DEF Deliver, Notified, Meanwhile
<1>3. seen + 1 \in DOMAIN log /\ log # <<>> /\ cache' \in Object /\ DOMAIN log = 1 .. Len(log)
  BY <1>1
<1>4. Shows(cache')
  BY <1>1, <1>3 DEF Shows
<1>5. log[Len(log)] = run
  BY <1>3 DEF Base, Watch
<1>6. CASE world.watchesBreak
  <2>1. seen' = seen + 1 /\ log' = log
    BY <1>6 DEF Deliver
  <2>2. seen + 1 <= Len(log) /\ UNCHANGED <<run, up, world>>
    BY <1>1
  <2>3. Watch'
    BY ONLY <1>1, <1>3, <1>5, <1>6, <2>1, <2>2 DEF Watch
  <2> QED
    BY <1>1, <1>2, <1>3, <1>4, <1>6, <2>1, <2>3 DEF WatchMoves, Shows
<1>7. CASE ~ world.watchesBreak
  <2>1. log' = Tail(log) /\ seen' = seen /\ seen = 0
    BY <1>7 DEF Deliver, Base, Watch
  <2>2. /\ log' \in Seq(Object) /\ Len(log') = Len(log) - 1 /\ Len(log) \in Nat
        /\ \A i \in 1 .. Len(log) - 1 : log'[i] = log[i + 1]
    BY <1>1, <1>3, <2>1, TailFacts
  <2>3. \A i \in DOMAIN log' : Shows(log'[i])
    <3>1. \A i \in 1 .. Len(log) - 1 : i + 1 \in DOMAIN log
      BY <1>3, <2>2
    <3>2. DOMAIN log' = 1 .. Len(log) - 1
      BY <2>2
    <3> QED
      BY <2>2, <3>1, <3>2 DEF Shows
  <2>4. log' # <<>> => log'[Len(log')] = run
    <3>1. log' # <<>> => Len(log) - 1 \in 1 .. Len(log) - 1 /\ Len(log) - 1 + 1 = Len(log)
      BY <2>2
    <3> QED
      BY <1>5, <2>2, <3>1
  <2>5. seen' = Len(log') => cache' = run
    BY <1>1, <1>5, <2>1, <2>2
  <2>6. Watch'
    BY <1>1, <2>1, <2>2, <2>4, <2>5 DEF Watch
  <2> QED
    <3>1. cache' = log[1]
      BY <1>1, <2>1
    <3> QED
      BY <1>1, <1>2, <1>3, <1>4, <2>1, <2>2, <2>3, <2>6, <3>1 DEF WatchMoves
<1> QED
  BY <1>6, <1>7

LEMMA WatchEndsMoves ==
  ASSUME Base, WatchEnds
  PROVE  WatchMoves
<1>1. /\ up /\ seen > 0 /\ seen' = 0 /\ log' = SubSeq(log, seen + 1, Len(log)) /\ cache' = cache
      /\ log \in Seq(Object) /\ seen \in Nat /\ cache \in Object /\ seen <= Len(log)
      /\ UNCHANGED <<world, plan, up, run, job, started, delJob, stored, step, mine, fresh, queueVars>>
  BY DEF WatchEnds, server, given, locals, Base, Types, Watch
<1>2. Meanwhile /\ Shows(cache')
  BY <1>1 DEF Meanwhile, Shows
<1>3. DOMAIN log = 1 .. Len(log) /\ Len(log) \in Nat
  BY <1>1
<1>8. world.watchesBreak
  BY <1>1 DEF Base, Watch
<1>6. seen \in Nat /\ seen > 0 /\ seen <= Len(log) /\ Len(log) \in Nat
  BY <1>1, <1>3
<1>7. seen' = 0 /\ UNCHANGED <<run, up, world, cache>>
  BY <1>1
<1>4. CASE seen = Len(log)
  <2>1. log' = <<>> /\ cache = run
    BY <1>1, <1>3, <1>4 DEF Base, Watch
  <2>2. log' \in Seq(Object) /\ Len(log') = 0 /\ DOMAIN log' = {}
    BY <2>1
  <2>3. Watch'
    BY ONLY <1>7, <2>1, <2>2 DEF Watch
  <2> QED
    BY <1>1, <1>2, <1>8, <2>2, <2>3 DEF WatchMoves
<1>5. CASE seen < Len(log)
  <2>1. /\ log' \in Seq(Object) /\ Len(log') = Len(log) - seen
        /\ \A i \in 1 .. Len(log) - seen : log'[i] = log[seen + i]
    BY <1>1, <1>5, SubSeqFacts
  <2>2. DOMAIN log' = 1 .. Len(log) - seen
    BY <2>1
  <2>3. \A i \in DOMAIN log' : Shows(log'[i])
    <3>1. \A i \in 1 .. Len(log) - seen : seen + i \in DOMAIN log
      BY <1>1, <1>3
    <3> QED
      BY <2>1, <2>2, <3>1 DEF Shows
  <2>4. log'[Len(log')] = run
    <3>1. Len(log) - seen \in 1 .. Len(log) - seen /\ seen + (Len(log) - seen) = Len(log)
      BY <1>1, <1>3, <1>5
    <3>2. log # <<>>
      BY <1>1, <1>3, <1>5
    <3> QED
      BY <2>1, <3>1, <3>2 DEF Base, Watch
  <2>5. Watch'
    <3>1. Len(log') > 0 /\ Len(log') \in Nat
      BY ONLY <1>5, <1>6, <2>1
    <3> QED
      BY ONLY <1>7, <2>4, <3>1 DEF Watch
  <2> QED
    BY <1>1, <1>2, <1>8, <2>1, <2>3, <2>5 DEF WatchMoves
<1> QED
  BY ONLY <1>4, <1>5, <1>6

LEMMA WatchRestartMoves ==
  ASSUME Base, WatchBreaks \/ Relist
  PROVE  WatchMoves
<1>1. /\ up /\ log \in Seq(Object) /\ cache \in Object /\ run \in Object /\ Len(log) \in Nat
      /\ UNCHANGED <<world, plan, up, run, job, started, delJob, stored, step, mine, fresh>>
  BY DEF WatchBreaks, Relist, server, given, locals, Base, Types
<1>2. CASE WatchBreaks
  <2>1. seen' = 0 /\ cache' = cache /\ log' = log /\ seen > 0 /\ world.watchesBreak /\ UNCHANGED queueVars
    BY <1>2 DEF WatchBreaks
  <2>2. Meanwhile
    BY <2>1 DEF Meanwhile
  <2>3. seen <= Len(log) /\ (log # <<>> => log[Len(log)] = run) /\ seen \in Nat
    BY DEF Base, Watch, Types
  <2>4. Watch'
    BY <1>1, <2>1, <2>3 DEF Watch
  <2> QED
    BY <1>1, <2>1, <2>2, <2>4 DEF WatchMoves, Shows
<1>3. CASE Relist
  <2>1. seen' = 0 /\ cache' = run /\ log' = <<>>
    BY <1>3 DEF Relist
  <2>2. Meanwhile
    BY <1>3, TheKeyIsAKey DEF Relist, Notified, Meanwhile
  <2>3. log' \in Seq(Object) /\ Len(log') = 0 /\ DOMAIN log' = {}
    BY <2>1
  <2>4. Watch'
    BY <1>1, <2>1, <2>3 DEF Watch
  <2> QED
    BY <1>1, <2>1, <2>2, <2>3, <2>4 DEF WatchMoves, Shows
<1> QED
  BY <1>2, <1>3

-----------------------------------------------------------------------------
(* The kinds of steps *)

QuietStep ==
  /\ Apart /\ Meanwhile /\ (up \/ UNCHANGED queueVars)
  /\ plan' = plan \/ (plan = "wait" /\ plan' \in {"ready", "refused"})
  /\ UNCHANGED <<job, started, delJob, stored>>

JobStep ==
  /\ Apart /\ UNCHANGED <<queueVars, plan>>
  /\ JobFinishes \/ JobStopped \/ JobExpires \/ DelJobEnds \/ GarbageCollect

\* A user marks the object as deleting, or changes its policy.
EditStep ==
  \E r \in Object :
    /\ Store(r, {})
    /\ UNCHANGED <<world, plan, up, cache, seen, job, started, delJob, stored, queueVars, step, mine>>
    /\ r.phase = run.phase /\ r.guard = run.guard /\ r.dataGuard = run.dataGuard /\ r.id = run.id
    /\ run # Gone /\ (run.deleting => r.deleting)

LEMMA EditsAreEdits ==
  ASSUME Base, UserDeletes \/ UserChangesPolicy
  PROVE  EditStep
<1>1. run \in Object
  BY DEF Base, Types
<1>2. CASE UserDeletes
  <2> DEFINE r == [run EXCEPT !.deleting = TRUE]
  <2>1. /\ r \in Object /\ r.phase = run.phase /\ r.guard = run.guard /\ r.dataGuard = run.dataGuard
        /\ r.id = run.id /\ r.deleting = TRUE
    BY <1>1 DEF Object
  <2>2. /\ Store(r, {}) /\ run # Gone
        /\ UNCHANGED <<world, plan, up, cache, seen, job, started, delJob, stored, queueVars, step, mine>>
    BY <1>2 DEF UserDeletes, Change, Outside, Elsewhere, given
  <2> HIDE DEF r
  <2> QED
    BY <2>1, <2>2 DEF EditStep
<1>3. CASE UserChangesPolicy
  <2> DEFINE p == IF run.policy = "Delete" THEN "Retain" ELSE "Delete"
             r == [run EXCEPT !.policy = p]
  <2>1. p \in {"Retain", "Delete"}
    OBVIOUS
  <2> HIDE DEF p
  <2>2. /\ r \in Object /\ r.phase = run.phase /\ r.guard = run.guard /\ r.dataGuard = run.dataGuard
        /\ r.id = run.id /\ r.deleting = run.deleting
    BY <1>1, <2>1 DEF Object
  <2>3. /\ Store(r, {}) /\ run # Gone
        /\ UNCHANGED <<world, plan, up, cache, seen, job, started, delJob, stored, queueVars, step, mine>>
    BY <1>3 DEF UserChangesPolicy, Change, Elsewhere, given, p
  <2> HIDE DEF r
  <2> QED
    BY <2>2, <2>3 DEF EditStep
<1> QED
  BY <1>2, <1>3

LEMMA QuietSteps ==
  ASSUME Base,
         \/ \E w \in Worker : WorkerGets(w)
         \/ DelayedAdd \/ JobEvent \/ Resync \/ Terminate \/ PlanReady \/ PlanRefused \/ UNCHANGED vars
  PROVE  QuietStep
<1> USE TheKeyIsAKey DEF QuietStep, Apart, Meanwhile
<1>1. ASSUME NEW w \in Worker, WorkerGets(w) PROVE QuietStep
  BY <1>1 DEF WorkerGets, server, Around, given, locals
<1>2. CASE DelayedAdd
  BY <1>2 DEF DelayedAdd, server, Around, given, locals
<1>3. CASE JobEvent
  BY <1>3 DEF JobEvent, server, informer, given, locals
<1>4. CASE Resync
  BY <1>4 DEF Resync, server, informer, given, locals
<1>5. CASE Terminate
  BY <1>5 DEF Terminate, server, informer, given, locals
<1>6. CASE PlanReady \/ PlanRefused
  BY <1>6 DEF PlanReady, PlanRefused, server, informer, locals
<1>7. CASE UNCHANGED vars
  BY <1>7 DEF vars
<1> QED
  BY <1>1, <1>2, <1>3, <1>4, <1>5, <1>6, <1>7

LEMMA JobsMoveApart ==
  ASSUME JobFinishes \/ JobStopped \/ JobExpires \/ DelJobEnds \/ GarbageCollect
  PROVE  JobStep
  BY DEF JobStep, Apart, JobFinishes, JobStopped, JobExpires, DelJobEnds, GarbageCollect, Quiet,
         Outside, Elsewhere, given

\* Every step of the specification.
LEMMA StepKinds ==
  ASSUME Base, [Next]_vars
  PROVE  \/ \E w \in Worker, s \in {"none"} \cup Steps, o \in Object : Answered(w, s, o)
         \/ QuietStep \/ WatchMoves \/ Dies \/ StartLeading \/ EditStep \/ JobStep
<1>1. ASSUME NEW w \in Worker, Reconciles(w)
      PROVE  \E s \in {"none"} \cup Steps, o \in Object : Answered(w, s, o)
  BY <1>1, ReconcilesAreAnswered DEF AnyAnswer
<1>2. CASE Deliver \/ WatchEnds \/ WatchBreaks \/ Relist
  BY <1>2, DeliverMoves, WatchEndsMoves, WatchRestartMoves
<1>3. CASE Crash \/ Exit
  BY <1>3 DEF Crash, Exit
<1>4. CASE UserDeletes \/ UserChangesPolicy
  BY <1>4, EditsAreEdits
<1>5. CASE JobFinishes \/ JobStopped \/ JobExpires \/ DelJobEnds \/ GarbageCollect
  BY <1>5, JobsMoveApart
<1>6. CASE \/ \E w \in Worker : WorkerGets(w)
           \/ DelayedAdd \/ JobEvent \/ Resync \/ Terminate \/ PlanReady \/ PlanRefused \/ UNCHANGED vars
  BY <1>6, QuietSteps
<1> QED
  BY <1>1, <1>2, <1>3, <1>4, <1>5, <1>6 DEF Next, Events, World

LEMMA JobStepTypes ==
  ASSUME Base, JobStep
  PROVE  /\ job' \in [state : {"none", "running", "finished"}, deleting : BOOLEAN]
         /\ delJob' \in {"none", "running", "deleted", "refused"}
         /\ started' \in 0 .. 2 /\ stored' \in BOOLEAN
<1>1. /\ job \in [state : {"none", "running", "finished"}, deleting : BOOLEAN]
      /\ delJob \in {"none", "running", "deleted", "refused"}
      /\ started \in 0 .. 2 /\ stored \in BOOLEAN
  BY DEF Base, Types
<1>2. NoJob \in [state : {"none", "running", "finished"}, deleting : BOOLEAN]
  BY DEF NoJob
<1>3. [job EXCEPT !.state = "finished"] \in [state : {"none", "running", "finished"}, deleting : BOOLEAN]
  BY <1>1
<1> QED
  BY <1>1, <1>2, <1>3 DEF JobStep, JobFinishes, JobStopped, JobExpires, DelJobEnds, GarbageCollect

LEMMA DiesKeepsBase == ASSUME Base, Dies PROVE Base'
<1>1. /\ queue' = <<>> /\ dirty' = {} /\ processing' = {} /\ delayed' = {} /\ waiters' = <<>>
      /\ holds' = [w \in Worker |-> Returned] /\ shuttingDown' = FALSE
      /\ up' = FALSE /\ cache' = Gone /\ log' = <<>> /\ seen' = 0 /\ fresh' = {}
      /\ step' = [w \in Worker |-> "none"] /\ mine' = [w \in Worker |-> Gone]
      /\ UNCHANGED <<run, job, started, delJob, stored, world, plan>>
  BY DEF Dies, server, given
<1>2. QueueInv'
  <2>1. holds' = [w \in Worker |-> IF w \in {} THEN Idle ELSE Returned]
    BY <1>1
  <2>2. /\ Sound(queue', dirty', <<>>, holds') /\ HeldBy(holds') = {}
        /\ Complete(queue', dirty', holds')
    <3>1. queue' = <<>> /\ dirty' = {}
      BY <1>1
    <3> QED
      BY ONLY <2>1, <3>1, FreshQueue
  <2>3. Sound(queue', dirty', waiters', holds') /\ processing' = HeldBy(holds')
    BY <1>1, <2>2
  <2> QED
    BY <1>1, <2>2, <2>3 DEF QueueInv, Sound, Complete, HeldBy, Elements, Distinct
<1>3. Types'
  <2>1. /\ step' \in [Worker -> {"none"} \cup Steps] /\ mine' \in [Worker -> Object]
        /\ cache' \in Object /\ log' \in Seq(Object) /\ seen' \in Nat
    BY <1>1, GoneIsAnObject
  <2> QED
    BY <1>1, <2>1 DEF Base, Types
<1>4. Watch'
  BY <1>1 DEF Watch
<1>5. Busy' /\ Down'
  BY <1>1 DEF Busy, Down
<1> QED
  BY <1>2, <1>3, <1>4, <1>5 DEF Base

LEMMA StartKeepsBase == ASSUME Base, StartLeading PROVE Base'
<1>1. /\ ~ up /\ up' = TRUE /\ cache' = run
      /\ holds' = [w \in Worker |-> IF w \in world.workers THEN Idle ELSE Returned]
      /\ queue' = IF run = Gone THEN <<>> ELSE <<TheKey>>
      /\ dirty' = IF run = Gone THEN {} ELSE {TheKey}
      /\ UNCHANGED <<run, job, started, delJob, stored, world, plan, log, seen, processing, delayed,
                     waiters, shuttingDown, step, mine, fresh>>
  BY DEF StartLeading, server, given, locals
<1>2. /\ waiters = <<>> /\ processing = {} /\ delayed = {} /\ shuttingDown = FALSE
      /\ \A w \in Worker : step[w] = "none"
      /\ log = <<>> /\ seen = 0 /\ fresh = {}
  BY <1>1 DEF Base, Down
<1>3. QueueInv'
  <2>1. (queue' = <<>> /\ dirty' = {}) \/ \E k \in Key : queue' = <<k>> /\ dirty' = {k}
    BY <1>1, TheKeyIsAKey
  <2>4. PICK workers : holds' = [w \in Worker |-> IF w \in workers THEN Idle ELSE Returned]
    BY <1>1
  <2>2. Sound(queue', dirty', <<>>, holds') /\ HeldBy(holds') = {} /\ Complete(queue', dirty', holds')
    BY ONLY <2>1, <2>4, FreshQueue
  <2>3. Sound(queue', dirty', waiters', holds') /\ processing' = HeldBy(holds')
    BY <1>1, <1>2, <2>2
  <2> QED
    BY <1>1, <1>2, <2>2, <2>3 DEF QueueInv, Sound, Complete, HeldBy, Elements, Distinct
<1>4. Types'
  BY <1>1 DEF Base, Types
<1>5. Watch'
  BY <1>1, <1>2 DEF Watch
<1>6. Busy' /\ Down'
  BY <1>1, <1>2 DEF Base, Busy, Down
<1> QED
  BY <1>3, <1>4, <1>5, <1>6 DEF Base

LEMMA BaseStep == ASSUME Base, [Next]_vars PROVE Base'
<1>1. ASSUME NEW w \in Worker, NEW s \in {"none"} \cup Steps, NEW o \in Object, Answered(w, s, o)
      PROVE  Base'
  BY <1>1, AnswersKeepBase
<1>2. CASE QuietStep
  <2>1. Base /\ Types
    BY DEF Base
  <2>2. /\ Apart /\ Meanwhile /\ (up \/ UNCHANGED queueVars)
        /\ plan' \in {"wait", "ready", "refused"} /\ UNCHANGED <<job, started, delJob, stored>>
    BY <1>2, <2>1 DEF QuietStep, Types
  <2>3. /\ job' \in [state : {"none", "running", "finished"}, deleting : BOOLEAN]
        /\ delJob' \in {"none", "running", "deleted", "refused"}
        /\ started' \in 0 .. 2 /\ stored' \in BOOLEAN
    BY <2>1, <2>2 DEF Types
  <2> QED
    BY <2>1, <2>2, <2>3, ApartKeepsBase
<1>3. CASE WatchMoves
  BY <1>3, CacheKeepsBase DEF WatchMoves
<1>4. CASE EditStep
  BY <1>4, ChangeKeepsBase DEF EditStep
<1>5. CASE JobStep
  <2>1. Apart /\ UNCHANGED <<queueVars, plan>> /\ Meanwhile
    BY <1>5 DEF JobStep, Meanwhile
  <2>2. plan' \in {"wait", "ready", "refused"}
    BY <2>1 DEF Base, Types
  <2> QED
    BY <1>5, <2>1, <2>2, JobStepTypes, ApartKeepsBase
<1> QED
  BY <1>1, <1>2, <1>3, <1>4, <1>5, StepKinds, DiesKeepsBase, StartKeepsBase

LEMMA BaseInit == ASSUME Init PROVE Base
<1>1. /\ world \in Worlds /\ InitQueue(world.workers) /\ log = <<run>> /\ seen = 0 /\ up = TRUE
      /\ cache = Gone /\ fresh = {} /\ started \in 0 .. 2 /\ stored = FALSE /\ delJob = "none"
      /\ step = [w \in Worker |-> "none"] /\ mine = [w \in Worker |-> Gone]
      /\ plan \in {"wait", "ready", "refused"}
      /\ job \in {NoJob, [state |-> "running", deleting |-> FALSE]}
  BY DEF Init
<1>2. \E p \in {"Retain", "Delete"} : run = New(p)
  BY DEF Init
<1>3. run \in Object
  BY <1>2 DEF New, Object
<1>4. QueueInv
  BY <1>1, QueueInitInvariant
<1>5. log \in Seq(Object) /\ Len(log) = 1 /\ log[1] = run
  BY <1>1, <1>3
<1>6. job \in [state : {"none", "running", "finished"}, deleting : BOOLEAN]
  <2>1. \A d \in BOOLEAN, s \in {"none", "running", "finished"} :
          [state |-> s, deleting |-> d] \in [state : {"none", "running", "finished"}, deleting : BOOLEAN]
    OBVIOUS
  <2> QED
    BY <1>1, <2>1 DEF NoJob
<1>7. Types
  BY <1>1, <1>3, <1>5, <1>6, GoneIsAnObject DEF Types
<1>8. Watch
  BY <1>1, <1>5 DEF Watch
<1>9. Busy /\ Down
  BY <1>1 DEF Busy, Down
<1> QED
  BY <1>4, <1>7, <1>8, <1>9 DEF Base

LEMMA BaseAlways == Spec => []Base
<1>1. Init => Base
  BY BaseInit
<1>2. Base /\ [Next]_vars => Base'
  BY BaseStep
<1> QED
  BY <1>1, <1>2, PTL DEF Spec

-----------------------------------------------------------------------------
(* The objects *)

\* Only a finished run has a backup id, only such a one waits for its data to go.
Sane(r) ==
  /\ r.id => r.phase = "Done"
  /\ r.dataGuard => r.id /\ IsBackup
  /\ r.phase = "Gone" => r = Gone

\* What a worker at s knows of its object.
Suits(s, o) ==
  /\ s \in {"settle"} \cup JobSteps => ~ o.deleting /\ o.phase # "Gone"
  /\ s \in JobSteps => o.phase # "Done"
  /\ s \in DataSteps => o.dataGuard
  /\ s \in {"stop", "cancel", "unguard"} => o.phase # "Gone"

Data ==
  /\ \A r \in Object : Shows(r) => Sane(r)
  /\ \A w \in Worker : Sane(mine[w]) /\ Suits(step[w], mine[w])

LEMMA GoneFacts ==
  /\ Sane(Gone) /\ Suits("none", Gone) /\ Gone.phase = "Gone" /\ ~ Gone.deleting
  /\ ~ Gone.guard /\ ~ Gone.dataGuard /\ ~ Gone.id /\ Gone.policy = "Retain"
  BY DEF Sane, Suits, Gone, New, JobSteps, DataSteps

\* What a patch is based on.
LEMMA WriterFacts ==
  ASSUME Base, Data, NEW w \in Worker, w \in fresh
  PROVE  mine[w] = run /\ Sane(run) /\ Suits(step[w], run) /\ step[w] # "none" /\ run \in Object
  BY DEF Base, Busy, Types, Data

LEMMA WriteIsSane ==
  ASSUME Base, Data, NEW w \in Worker, w \in fresh, NEW s \in {"none"} \cup Steps,
         NEW r \in Object, Rewrites(w, s, r), step[w] # "refetch", Continues(w, s) \/ s = "none"
  PROVE  /\ Sane(r)
         /\ s # "none" => Suits(s, Settled(r))
<1>1. mine[w] = run /\ Sane(run) /\ Suits(step[w], run) /\ step[w] \in Steps /\ run \in Object
  BY WriterFacts DEF Base, Types
<1>2. r.id => r.phase = "Done"
  BY <1>1 DEF Rewrites, Sane, Suits, JobSteps
<1>3. r.dataGuard => r.id /\ IsBackup
  BY <1>1 DEF Rewrites, Sane, Suits, JobSteps, WantsData
<1>4. run.phase # "Gone"
  BY <1>1 DEF Sane, Suits, Steps, EndSteps
<1>5. r.phase # "Gone"
  BY <1>4 DEF Rewrites
<1>6. Sane(r)
  BY <1>2, <1>3, <1>5 DEF Sane
<1>7. ASSUME s # "none" PROVE Suits(s, Settled(r))
  <2>1. Continues(w, s)
    BY <1>7
  <2>2. CASE s \in {"settle"} \cup JobSteps
    <3>1. step[w] \in JobSteps
      BY <2>1, <2>2 DEF Continues, JobSteps
    <3>2. ~ r.deleting /\ Settled(r) = r
      BY <1>1, <3>1 DEF Suits, Rewrites, Settled
    <3>3. s \in JobSteps => r.phase # "Done"
      BY <1>1, <2>1, <3>1 DEF Suits, Rewrites, Continues, JobSteps
    <3> QED
      BY <1>5, <2>2, <3>2, <3>3 DEF Suits, JobSteps, DataSteps
  <2>3. CASE s \in DataSteps
    <3>1. step[w] \in DataSteps /\ step[w] # "release"
      BY <2>1, <2>3 DEF Continues, DataSteps
    <3>2. r.dataGuard
      BY <1>1, <3>1 DEF Suits, Rewrites, DataSteps
    <3>3. Settled(r) = r
      BY <3>2 DEF Settled
    <3> QED
      BY <2>3, <3>2, <3>3 DEF Suits, JobSteps, DataSteps
  <2>4. CASE s \in {"stop", "cancel", "unguard"}
    <3>1. step[w] = "stop"
      BY <2>1, <2>4 DEF Continues
    <3> QED
      BY <3>1 DEF Rewrites
  <2>5. CASE s = "refetch"
    BY <2>5 DEF Suits, JobSteps, DataSteps
  <2> QED
    BY <1>7, <2>2, <2>3, <2>4, <2>5 DEF Steps, EndSteps
<1> QED
  BY <1>6, <1>7

\* No step shows an object that is neither the newest nor shown before.
LEMMA AppendShows ==
  ASSUME log \in Seq(Object), run' \in Object, log' = Append(log, run'), cache' = cache, NEW r, Shows(r)'
  PROVE  Shows(r) \/ r = run'
<1>1. /\ DOMAIN log = 1 .. Len(log) /\ DOMAIN log' = 1 .. Len(log) + 1 /\ Len(log) \in Nat
      /\ log'[Len(log) + 1] = run' /\ \A i \in 1 .. Len(log) : log'[i] = log[i]
  BY AppendFacts
<1>2. ASSUME NEW i \in DOMAIN log', r = log'[i] PROVE Shows(r) \/ r = run'
  <2>1. i \in DOMAIN log \/ i = Len(log) + 1
    BY <1>1
  <2> QED
    BY <1>1, <1>2, <2>1 DEF Shows
<1> QED
  BY <1>2 DEF Shows

LEMMA AnswerFacts ==
  ASSUME Base, NEW w \in Worker, NEW s \in {"none"} \cup Steps, NEW o \in Object, Answered(w, s, o)
  PROVE  /\ up /\ world' = world /\ plan' = plan /\ up' = up /\ cache' = cache /\ stored' = stored /\ seen' = seen
         /\ step[w] # "none" \/ s # "none" \/ UNCHANGED <<run, log>>
         /\ step'[w] = s /\ mine'[w] = o
         /\ \A v \in Worker \ {w} : /\ step[v] = "none" /\ step'[v] = "none"
                                    /\ mine[v] = Gone /\ mine'[v] = Gone /\ v \notin fresh
         /\ \A r : Shows(r)' => Shows(r) \/ r = run'
<1>1. holds[w] = TheKey /\ up /\ Moves(w, s, o) /\ Base /\ Types /\ Busy
  BY DEF Answered, Base
<1>2. \A v \in Worker \ {w} : step[v] = "none" /\ mine[v] = Gone /\ v \notin fresh
  BY <1>1, Alone DEF Base
<1>3. UNCHANGED <<world, plan, up, cache, seen, stored>>
  BY DEF Answered
<1>4. /\ step'[w] = s /\ mine'[w] = o
      /\ \A v \in Worker \ {w} : step'[v] = step[v] /\ mine'[v] = mine[v]
  BY <1>1 DEF Moves, Types
<1>5. ASSUME NEW r, Shows(r)' PROVE Shows(r) \/ r = run'
  <2>1. CASE UNCHANGED <<run, log>>
    BY <1>3, <1>5, <2>1 DEF Shows
  <2>2. CASE log' = Append(log, run') /\ \E x \in Object : run' = Settled(x)
    <3>1. log \in Seq(Object) /\ run' \in Object /\ cache' = cache
      BY <1>1, <1>3, <2>2, SettledIsAnObject DEF Types
    <3> QED
      BY <1>5, <2>2, <3>1, AppendShows
  <2> QED
    BY <2>1, <2>2 DEF Answered
<1>6. step[w] # "none" \/ s # "none" \/ UNCHANGED <<run, log>>
  BY <1>1 DEF Answered, Busy
<1> QED
  BY <1>1, <1>2, <1>3, <1>4, <1>5, <1>6

LEMMA ContinuesSuits ==
  ASSUME NEW w, NEW s, NEW o, Suits(step[w], o), Continues(w, s)
  PROVE  Suits(s, o)
  BY DEF Suits, Continues, JobSteps, DataSteps

LEMMA FirstStepSuits ==
  ASSUME NEW o \in Object, Sane(o)
  PROVE  Suits(FirstStep(o), o)
<1>1. \/ FirstStep(o) = "done"
      \/ FirstStep(o) = "stop" /\ o.phase # "Gone"
      \/ FirstStep(o) = "refetch"
      \/ FirstStep(o) = "settle" /\ ~ o.deleting /\ o.phase # "Gone"
      \/ FirstStep(o) = "job" /\ ~ o.deleting /\ o.phase \notin {"Gone", "Done"}
  <2>1. CASE o.phase = "Gone"
    <3>1. ~ o.deleting
      BY <2>1, GoneFacts DEF Sane
    <3> QED
      BY <2>1, <3>1 DEF FirstStep
  <2>2. CASE o.phase # "Gone" /\ o.deleting
    <3>1. CASE o.guard
      BY <2>2, <3>1 DEF FirstStep
    <3>2. CASE ~ o.guard
      <4>1. FirstStep(o) = IF IsBackup THEN "refetch" ELSE "done"
        BY <2>2, <3>2 DEF FirstStep
      <4> QED
        BY <4>1
    <3> QED
      BY <3>1, <3>2
  <2>3. CASE o.phase # "Gone" /\ ~ o.deleting
    <3>1. CASE o.phase = "Done"
      BY <2>3, <3>1 DEF FirstStep
    <3>2. CASE o.phase # "Done"
      BY <2>3, <3>2 DEF FirstStep
    <3> QED
      BY <2>3, <3>1, <3>2
  <2> QED
    BY <2>1, <2>2, <2>3
<1> QED
  BY <1>1 DEF Suits, JobSteps, DataSteps

LEMMA SettledCases ==
  ASSUME NEW r
  PROVE  Settled(r) = r \/ (Settled(r) = Gone /\ r.deleting /\ ~ r.guard /\ ~ r.dataGuard)
  BY DEF Settled

LEMMA AnswersKeepData ==
  ASSUME Base, Data, NEW w \in Worker, NEW s \in {"none"} \cup Steps, NEW o \in Object, Answered(w, s, o)
  PROVE  Data'
<1>1. /\ world' = world /\ cache' = cache /\ step'[w] = s /\ mine'[w] = o
      /\ \A v \in Worker \ {w} : step'[v] = "none" /\ mine'[v] = Gone
      /\ \A r : Shows(r)' => Shows(r) \/ r = run'
  BY AnswerFacts
<1>2. \A r : Sane(r)' <=> Sane(r)
  BY <1>1 DEF Sane, IsBackup
<1>3. Sane(run) /\ Sane(cache) /\ Sane(mine[w]) /\ Suits(step[w], mine[w]) /\ run \in Object /\ cache \in Object
  BY DEF Data, Shows, Base, Types
<1>4. s # "none" => Leads(w, s, o) /\ s \in Steps
  BY DEF Answered
<1>5. s = "none" => o = Gone
  BY DEF Answered, Moves
<1>6. CASE UNCHANGED <<run, log>>
  <2>1. Sane(run')
    BY <1>3, <1>6
  <2>2. Sane(o) /\ Suits(s, o)
    <3>1. CASE s = "none"
      BY <1>5, <3>1, GoneFacts
    <3>2. CASE step[w] = "none" /\ s = FirstStep(cache) /\ o = cache
      BY <1>3, <3>2, FirstStepSuits
    <3>3. CASE s # "none" /\ step[w] = "refetch" /\ s \in {"release", "delJob", "noPlan"} /\ o = run' /\ run.dataGuard
      <4>1. o = run /\ run.phase = "Done"
        BY <1>3, <1>6, <3>3 DEF Sane
      <4> QED
        BY <1>3, <3>3, <4>1 DEF Suits, JobSteps, DataSteps
    <3>4. CASE s # "none" /\ Continues(w, s) /\ (o = mine[w] \/ (w \in fresh /\ o = run'))
      <4>1. o = mine[w]
        BY <1>6, <3>4, WriterFacts
      <4> QED
        BY <1>3, <3>4, <4>1, ContinuesSuits
    <3> QED
      BY <1>4, <3>1, <3>2, <3>3, <3>4 DEF Leads
  <2> QED
    BY <1>1, <1>2, <2>1, <2>2, GoneFacts DEF Data
<1>7. CASE w \in fresh /\ \E r \in Object : Rewrites(w, s, r) /\ run' = Settled(r)
  <2>1. PICK r \in Object : Rewrites(w, s, r) /\ run' = Settled(r)
    BY <1>7
  <2>2. step[w] \notin {"none", "refetch"}
    BY <2>1 DEF Rewrites
  <2>3. s = "none" \/ (Continues(w, s) /\ (o = mine[w] \/ o = run'))
    BY <1>4, <2>2 DEF Leads
  <2>4. Sane(r) /\ (s # "none" => Suits(s, run'))
    BY <1>7, <2>1, <2>2, <2>3, WriteIsSane
  <2>5. Sane(run')
    BY <2>1, <2>4, SettledCases, GoneFacts
  <2>6. Sane(o) /\ Suits(s, o)
    BY <1>3, <1>5, <2>3, <2>4, <2>5, GoneFacts, ContinuesSuits
  <2> QED
    BY <1>1, <1>2, <2>5, <2>6, GoneFacts DEF Data
<1> QED
  BY <1>6, <1>7 DEF Answered

LEMMA DataInit == ASSUME Init PROVE Data
<1>1. /\ cache = Gone /\ log = <<run>> /\ step = [w \in Worker |-> "none"]
      /\ mine = [w \in Worker |-> Gone]
  BY DEF Init
<1>2. \E p \in {"Retain", "Delete"} : run = New(p)
  BY DEF Init
<1>3. Sane(run)
  BY <1>2 DEF Sane, New
<1>4. \A r : Shows(r) => r = run \/ r = Gone
  BY <1>1 DEF Shows
<1> QED
  BY <1>1, <1>3, <1>4, GoneFacts DEF Data

LEMMA DataStep == ASSUME Base, Data, [Next]_vars PROVE Data'
<1>1. ASSUME NEW w \in Worker, NEW s \in {"none"} \cup Steps, NEW o \in Object, Answered(w, s, o)
      PROVE  Data'
  BY <1>1, AnswersKeepData
<1>2. ASSUME UNCHANGED <<world, step, mine>>, \A r \in Object : Shows(r)' => Shows(r) \/ (r = run' /\ Sane(r))
      PROVE  Data'
  <2>1. \A r : Sane(r)' <=> Sane(r)
    BY <1>2 DEF Sane, IsBackup
  <2> QED
    BY <1>2, <2>1 DEF Data
<1>3. CASE QuietStep \/ JobStep
  <2>1. UNCHANGED <<world, run, cache, log, step, mine>>
    BY <1>3 DEF QuietStep, JobStep, Apart
  <2>2. \A r : Shows(r)' => Shows(r)
    BY <2>1 DEF Shows
  <2> QED
    BY <1>2, <2>1, <2>2
<1>4. CASE WatchMoves
  <2>1. UNCHANGED <<world, step, mine, run>> /\ Shows(cache') /\ \A i \in DOMAIN log' : Shows(log'[i])
    BY <1>4 DEF WatchMoves
  <2>2. ASSUME NEW r, Shows(r)' PROVE Shows(r)
    <3>1. r = run' \/ r = cache' \/ \E i \in DOMAIN log' : r = log'[i]
      BY <2>2 DEF Shows
    <3> QED
      BY <2>1, <3>1 DEF Shows
  <2> QED
    BY <1>2, <2>1, <2>2
<1>5. CASE Dies
  <2>1. /\ cache' = Gone /\ log' = <<>> /\ UNCHANGED <<run, world>>
        /\ step' = [w \in Worker |-> "none"] /\ mine' = [w \in Worker |-> Gone]
    BY <1>5 DEF Dies, server, given
  <2>2. \A r : Shows(r)' => r = run \/ r = Gone
    BY <2>1 DEF Shows
  <2>3. \A r : Sane(r)' <=> Sane(r)
    BY <2>1 DEF Sane, IsBackup
  <2>4. Sane(run) /\ run \in Object
    BY DEF Data, Shows, Base, Types
  <2> QED
    BY <2>1, <2>2, <2>3, <2>4, GoneFacts DEF Data
<1>6. CASE StartLeading
  <2>1. UNCHANGED <<world, step, mine, run, log>> /\ cache' = run
    BY <1>6 DEF StartLeading, server, given, locals
  <2>2. \A r : Shows(r)' => Shows(r)
    BY <2>1 DEF Shows
  <2> QED
    BY <1>2, <2>1, <2>2
<1>7. CASE EditStep
  <2>1. PICK r \in Object :
          /\ run' = Settled(r) /\ log' = IF up THEN Append(log, run') ELSE log
          /\ UNCHANGED <<world, up, cache, step, mine>>
          /\ r.phase = run.phase /\ r.guard = run.guard /\ r.dataGuard = run.dataGuard /\ r.id = run.id
          /\ run # Gone
    BY <1>7 DEF EditStep, Store
  <2>2. Sane(run) /\ run.phase # "Gone"
    BY <2>1 DEF Data, Shows, Base, Types, Sane
  <2>3. Sane(r)
    BY <2>1, <2>2 DEF Sane
  <2>4. Sane(run') /\ run' \in Object /\ log \in Seq(Object)
    BY <2>1, <2>3, SettledCases, GoneFacts, SettledIsAnObject DEF Base, Types
  <2>5. \A x : Shows(x)' => Shows(x) \/ x = run'
    <3>1. CASE up
      BY <2>1, <2>4, <3>1, AppendShows
    <3>2. CASE ~ up
      BY <2>1, <3>2 DEF Shows
    <3> QED
      BY <3>1, <3>2
  <2> QED
    BY <1>2, <2>1, <2>4, <2>5
<1> QED
  BY <1>1, <1>3, <1>4, <1>5, <1>6, <1>7, StepKinds

LEMMA DataAlways == Spec => [](Base /\ Data)
<1>1. Init => Base /\ Data
  BY BaseInit, DataInit
<1>2. Base /\ Data /\ [Next]_vars => (Base /\ Data)'
  BY BaseStep, DataStep
<1> QED
  BY <1>1, <1>2, PTL DEF Spec

\* Two workers never reconcile the object at once, whatever the queue is asked and whenever
\* the operator dies and starts again; and one that has its newest version still has it.
OneAtATime ==
  /\ \A v, w \in Worker : step[v] # "none" /\ step[w] # "none" => v = w
  /\ \A w \in fresh : step[w] # "none" /\ mine[w] = run

\* OneAtATime, in every world.
THEOREM ReconcilesTakeTurns == Spec => []OneAtATime
<1>1. Base => OneAtATime
  <2> SUFFICES ASSUME Base PROVE OneAtATime
    OBVIOUS
  <2>1. ASSUME NEW v \in Worker, NEW w \in Worker, step[v] # "none", step[w] # "none" PROVE v = w
    <3>1. holds[w] = TheKey
      BY <2>1 DEF Base, Busy
    <3> QED
      BY <2>1, <3>1, Alone DEF Base
  <2>2. \A w \in fresh : step[w] # "none" /\ mine[w] = run
    BY DEF Base, Types, Busy
  <2> QED
    BY <2>1, <2>2 DEF OneAtATime
<1> QED
  BY <1>1, BaseAlways, PTL

\* A finished run never changes again, in any world: neither its result nor, unless it is
\* deleted, its place; for any number of workers, cached versions and mishaps.
THEOREM ResultsAreFinal == Spec => FinishedIsFinal
<1> DEFINE Final == run.phase = "Done" => run' = Gone \/ (run'.phase = "Done" /\ run'.id = run.id)
<1>1. ASSUME Base, Data, [Next]_vars, run.phase = "Done" PROVE run' = Gone \/ (run'.phase = "Done" /\ run'.id = run.id)
  <2>1. ASSUME NEW w \in Worker, NEW s \in {"none"} \cup Steps, NEW o \in Object, Answered(w, s, o)
        PROVE  run' = Gone \/ (run'.phase = "Done" /\ run'.id = run.id)
    <3>1. CASE run' = run
      BY <1>1, <3>1
    <3>2. CASE w \in fresh /\ \E r \in Object : Rewrites(w, s, r) /\ run' = Settled(r)
      <4>1. PICK r \in Object : Rewrites(w, s, r) /\ run' = Settled(r)
        BY <3>2
      <4>2. step[w] \notin JobSteps
        BY <1>1, <3>2, WriterFacts DEF Suits
      <4>3. r.phase = "Done" /\ r.id = run.id
        BY <1>1, <4>1, <4>2 DEF Rewrites, JobSteps
      <4> QED
        BY <4>1, <4>3, SettledCases
    <3> QED
      BY <2>1, <3>1, <3>2 DEF Answered
  <2>2. CASE run' = run
    BY <1>1, <2>2
  <2>3. CASE EditStep
    <3>1. PICK r \in Object : run' = Settled(r) /\ r.phase = run.phase /\ r.id = run.id
      BY <2>3 DEF EditStep, Store
    <3> QED
      BY <1>1, <3>1, SettledCases
  <2>4. QuietStep \/ WatchMoves \/ Dies \/ StartLeading \/ JobStep => run' = run
    BY DEF QuietStep, WatchMoves, Dies, StartLeading, JobStep, Apart, server
  <2> QED
    BY <1>1, <2>1, <2>2, <2>3, <2>4, StepKinds
<1>2. Base /\ Data /\ [Next]_vars => [Final]_vars
  BY <1>1
<1> QED
  BY <1>2, DataAlways, PTL DEF Spec, FinishedIsFinal

-----------------------------------------------------------------------------
(* The end of the run *)

\* The Job has run, or there will be none.
Over == job.state # "running" /\ (started = 1 \/ plan = "refused")

\* A worker that is about to create a Job would not create a second one.
Lasting == \A w \in Worker : step[w] = "create" => ~ (job.state = "none" /\ Over)

LEMMA OverStays == ASSUME Base, Lasting, Over, [Next]_vars PROVE Over'
<1>1. ASSUME NEW w \in Worker, NEW s \in {"none"} \cup Steps, NEW o \in Object, Answered(w, s, o)
      PROVE  Over'
  <2>1. Manages(w) /\ plan' = plan
    BY <1>1 DEF Answered
  <2>2. ~ (step[w] = "create" /\ job.state = "none")
    BY DEF Lasting
  <2> QED
    BY <2>1, <2>2 DEF Manages, Over
<1>2. CASE QuietStep
  BY <1>2 DEF QuietStep, Over
<1>3. CASE WatchMoves \/ Dies \/ StartLeading \/ EditStep
  BY <1>3 DEF WatchMoves, Dies, StartLeading, EditStep, server, given, Over
<1>4. CASE JobStep
  <2>1. plan' = plan /\ started' = started /\ (job' = job \/ job' = NoJob)
    BY <1>4 DEF JobStep, JobFinishes, JobStopped, JobExpires, DelJobEnds, GarbageCollect, Over
  <2> QED
    BY <2>1 DEF Over, NoJob
<1> QED
  BY <1>1, <1>2, <1>3, <1>4, StepKinds

Ended ==
  /\ \A r \in Object : Shows(r) /\ r.phase = "Done" => Over
  /\ \A w \in Worker : mine[w].phase = "Done" => Over
  /\ \A w \in Worker : step[w] \in {"report", "lost", "settle"} => Over

\* What a worker that looks for the Job may conclude.
Conclusive ==
  \A w \in Worker : step[w] = "job" => /\ job.state = "finished" => started = 1
                                       /\ ~ Owned => started = 1

\* No step shows an object that is neither the newest, nor shown before, nor gone.
LEMMA OnlyNewShows ==
  ASSUME Base, [Next]_vars
  PROVE  \A r : Shows(r)' => Shows(r) \/ r = run' \/ r = Gone
<1>1. ASSUME NEW w \in Worker, NEW s \in {"none"} \cup Steps, NEW o \in Object, Answered(w, s, o), NEW r, Shows(r)'
      PROVE  Shows(r) \/ r = run'
  BY <1>1, AnswerFacts
<1>2. CASE QuietStep \/ JobStep
  BY <1>2 DEF QuietStep, JobStep, Apart, Shows
<1>3. CASE WatchMoves
  <2>1. run' = run /\ Shows(cache') /\ \A i \in DOMAIN log' : Shows(log'[i])
    BY <1>3 DEF WatchMoves
  <2>2. ASSUME NEW r, Shows(r)' PROVE Shows(r) \/ r = run'
    <3>1. r = run' \/ r = cache' \/ \E i \in DOMAIN log' : r = log'[i]
      BY <2>2 DEF Shows
    <3> QED
      BY <2>1, <3>1
  <2> QED
    BY <2>2
<1>4. CASE Dies
  BY <1>4 DEF Dies, Shows
<1>5. CASE StartLeading
  BY <1>5 DEF StartLeading, Shows
<1>6. CASE EditStep
  <2>1. PICK r \in Object : /\ run' = Settled(r) /\ log' = IF up THEN Append(log, run') ELSE log
                            /\ cache' = cache
    BY <1>6 DEF EditStep, Store
  <2>2. run' \in Object /\ log \in Seq(Object)
    BY <2>1, SettledIsAnObject DEF Base, Types
  <2>3. CASE up
    BY <2>1, <2>2, <2>3, AppendShows
  <2>4. CASE ~ up
    BY <2>1, <2>4 DEF Shows
  <2> QED
    BY <2>3, <2>4
<1> QED
  BY <1>1, <1>2, <1>3, <1>4, <1>5, <1>6, StepKinds

LEMMA StillAtWork ==
  ASSUME Base, QuietStep \/ WatchMoves \/ Dies \/ StartLeading \/ EditStep \/ JobStep
  PROVE  \A w \in Worker : (step'[w] = step[w] /\ mine'[w] = mine[w]) \/ (step'[w] = "none" /\ mine'[w] = Gone)
  BY DEF QuietStep, WatchMoves, Dies, StartLeading, EditStep, JobStep, Apart, locals

\* What a run that becomes Done shows.
LEMMA DoneMeansOver ==
  ASSUME Base, Data, Ended, [Next]_vars, run'.phase = "Done"
  PROVE  Over
<1>1. run.phase = "Done" => Over
  BY DEF Ended, Shows, Base, Types
<1>2. ASSUME NEW w \in Worker, NEW s \in {"none"} \cup Steps, NEW o \in Object, Answered(w, s, o)
      PROVE  Over
  <2>1. CASE run' = run
    BY <1>1, <2>1
  <2>2. CASE \E r \in Object : Rewrites(w, s, r) /\ run' = Settled(r)
    <3>1. PICK r \in Object : Rewrites(w, s, r) /\ run' = Settled(r)
      BY <2>2
    <3>2. r.phase = "Done"
      BY <3>1, SettledCases, GoneFacts
    <3>3. run.phase = "Done" \/ step[w] \in {"report", "lost"}
      BY <3>1, <3>2 DEF Rewrites
    <3> QED
      BY <1>1, <3>3 DEF Ended
  <2> QED
    BY <1>2, <2>1, <2>2 DEF Answered
<1>3. CASE run' = run
  BY <1>1, <1>3
<1>4. CASE EditStep
  <2>1. PICK r \in Object : run' = Settled(r) /\ r.phase = run.phase
    BY <1>4 DEF EditStep, Store
  <2> QED
    BY <1>1, <2>1, SettledCases, GoneFacts
<1>5. QuietStep \/ WatchMoves \/ Dies \/ StartLeading \/ JobStep => run' = run
  BY DEF QuietStep, WatchMoves, Dies, StartLeading, JobStep, Apart, server
<1> QED
  BY <1>2, <1>3, <1>4, <1>5, StepKinds

LEMMA AnswersMeanOver ==
  ASSUME Base, Data, Ended, Conclusive, [Next]_vars,
         NEW w \in Worker, NEW s \in {"none"} \cup Steps, NEW o \in Object, Answered(w, s, o),
         o.phase = "Done" \/ s \in {"report", "lost", "settle"}
  PROVE  Over
<1>1. Base /\ Types /\ cache \in Object /\ run \in Object
  BY DEF Base, Types
<1>2. s # "none" /\ Leads(w, s, o)
  BY GoneFacts DEF Answered, Moves
<1>3. o = cache \/ o = mine[w] \/ o = run'
  BY <1>2 DEF Leads
<1>4. o.phase = "Done" => Over
  BY <1>1, <1>3, DoneMeansOver DEF Ended, Shows
<1>5. CASE s \in {"report", "lost", "settle"} /\ o.phase # "Done"
  <2>1. CASE step[w] = "none" /\ s = FirstStep(cache) /\ o = cache
    <3>1. cache.phase # "Done"
      BY <1>5, <2>1
    <3>2. s \in {"done", "stop", "refetch", "job"}
      BY <2>1, <3>1 DEF FirstStep
    <3> QED
      BY <1>5, <3>2
  <2>2. CASE Continues(w, s)
    <3>1. \/ step[w] \in {"report", "lost"}
          \/ step[w] = "job" /\ s = "report" /\ job.state = "finished"
          \/ step[w] = "job" /\ s = "lost" /\ job.state = "none" /\ (~ Owned \/ plan = "refused")
      BY <1>5, <2>2 DEF Continues
    <3> QED
      BY <3>1 DEF Ended, Conclusive, Over
  <2> QED
    BY <1>2, <1>5, <2>1, <2>2 DEF Leads
<1> QED
  BY <1>4, <1>5

LEMMA EndedStep ==
  ASSUME Base, Data, Ended, Lasting, Conclusive, [Next]_vars
  PROVE  Ended'
<1>1. Over => Over'
  BY OverStays
<1>2. ASSUME NEW r \in Object, Shows(r)', r.phase = "Done" PROVE Over
  BY <1>2, OnlyNewShows, DoneMeansOver, GoneFacts DEF Ended
<1>3. ASSUME NEW w \in Worker, mine'[w].phase = "Done" \/ step'[w] \in {"report", "lost", "settle"} PROVE Over
  <2>1. ASSUME NEW v \in Worker, NEW s \in {"none"} \cup Steps, NEW o \in Object, Answered(v, s, o)
        PROVE  Over
    <3>1. CASE v = w
      <4>1. step'[w] = s /\ mine'[w] = o
        BY <2>1, <3>1, AnswerFacts
      <4> QED
        BY <1>3, <2>1, <3>1, <4>1, AnswersMeanOver
    <3>2. CASE v # w
      <4>1. step'[w] = "none" /\ mine'[w] = Gone
        BY <2>1, <3>2, AnswerFacts
      <4> QED
        BY <1>3, <4>1, GoneFacts
    <3> QED
      BY <3>1, <3>2
  <2>2. CASE QuietStep \/ WatchMoves \/ Dies \/ StartLeading \/ EditStep \/ JobStep
    BY <1>3, <2>2, StillAtWork, GoneFacts DEF Ended
  <2> QED
    BY <2>1, <2>2, StepKinds
<1> QED
  BY <1>1, <1>2, <1>3 DEF Ended

\* The data goes only when nobody can write it any more.
DataJob ==
  /\ delJob # "none" => Over
  /\ delJob = "deleted" => ~ stored
  /\ \A w \in Worker : step[w] = "release" => mine[w].policy = "Retain" \/ ~ stored

LEMMA DataJobStep ==
  ASSUME Base, Data, Ended, DataJob, Lasting, [Next]_vars
  PROVE  DataJob'
<1>1. Over => Over'
  BY OverStays
<1>2. ASSUME NEW w \in Worker, step[w] \in DataSteps PROVE Over
  <2>1. mine[w].dataGuard /\ mine[w].phase = "Done"
    BY <1>2 DEF Data, Suits, Sane
  <2> QED
    BY <2>1 DEF Ended
<1>3. ASSUME NEW w \in Worker, NEW s \in {"none"} \cup Steps, NEW o \in Object, Answered(w, s, o)
      PROVE  DataJob'
  <2>1. stored' = stored /\ step'[w] = s /\ mine'[w] = o /\ \A v \in Worker \ {w} : step'[v] = "none"
    BY <1>3, AnswerFacts
  <2>2. Manages(w) /\ (s # "none" => Leads(w, s, o))
    BY <1>3 DEF Answered
  <2>3. delJob' # "none" => delJob # "none" \/ step[w] = "createDelJob"
    BY <2>2 DEF Manages
  <2>4. delJob' = "deleted" => delJob = "deleted"
    BY <2>2 DEF Manages
  <2>5. ASSUME s = "release" PROVE o.policy = "Retain" \/ ~ stored
    <3>1. CASE step[w] = "none" /\ s = FirstStep(cache)
      <4>1. s \in {"done", "stop", "refetch", "settle", "job"}
        BY <3>1 DEF FirstStep
      <4> QED
        BY <2>5, <4>1
    <3>2. CASE step[w] = "refetch" /\ o = run' /\ run' = run /\ run.dataGuard /\ ~ WantsData(run)
      <4>1. run.id /\ run \in Object
        BY <3>2 DEF Data, Shows, Sane, Base, Types
      <4>2. run.policy = "Retain"
        BY <3>2, <4>1 DEF WantsData, Object
      <4> QED
        BY <3>2, <4>2
    <3>3. CASE step[w] \notin {"none", "refetch"} /\ Continues(w, s)
      <4>1. delJob = "deleted"
        BY <2>5, <3>3 DEF Continues
      <4> QED
        BY <4>1 DEF DataJob
    <3> QED
      BY <2>2, <2>5, <3>1, <3>2, <3>3 DEF Leads
  <2>6. step[w] = "createDelJob" => Over
    BY <1>2 DEF DataSteps
  <2>7. delJob' # "none" => Over'
    BY <1>1, <2>3, <2>6 DEF DataJob
  <2> QED
    BY <2>1, <2>4, <2>5, <2>7 DEF DataJob
<1>4. CASE JobStep
  <2>1. UNCHANGED <<step, mine>>
    BY <1>4 DEF JobStep, Apart
  <2>2. stored' => stored \/ job.state = "running"
    BY <1>4 DEF JobStep, JobFinishes, JobStopped, JobExpires, DelJobEnds, GarbageCollect, Base, Types
  <2>3. delJob' # "none" => delJob # "none"
    BY <1>4 DEF JobStep, JobFinishes, JobStopped, JobExpires, DelJobEnds, GarbageCollect
  <2>4. delJob' = "deleted" => ~ stored' \/ (delJob = "deleted" /\ (stored' = stored \/ job.state = "running"))
    BY <1>4 DEF JobStep, JobFinishes, JobStopped, JobExpires, DelJobEnds, GarbageCollect
  <2>5. \A w \in Worker : step[w] = "release" => job.state # "running"
    BY <1>2 DEF DataSteps, Over
  <2>6. delJob = "deleted" => job.state # "running"
    BY DEF DataJob, Over
  <2> QED
    BY <1>1, <2>1, <2>2, <2>3, <2>4, <2>5, <2>6 DEF DataJob
<1>5. CASE QuietStep \/ WatchMoves \/ Dies \/ StartLeading \/ EditStep
  <2>1. UNCHANGED <<delJob, stored>>
    BY <1>5 DEF QuietStep, WatchMoves, Dies, StartLeading, EditStep, server
  <2> QED
    BY <1>1, <1>5, <2>1, StillAtWork DEF DataJob
<1> QED
  BY <1>3, <1>4, <1>5, StepKinds

-----------------------------------------------------------------------------
(* The beginning of the run *)

\* A scheduled run is about a Job that exists.
Scheduled == started = 1 /\ \A w \in Worker : step[w] # "create"

LEMMA ScheduledStep ==
  ASSUME Base, Scheduled, ~ Owned, [Next]_vars
  PROVE  Scheduled'
<1>1. ASSUME NEW w \in Worker, NEW s \in {"none"} \cup Steps, NEW o \in Object, Answered(w, s, o)
      PROVE  Scheduled'
  <2>1. step'[w] = s /\ \A v \in Worker \ {w} : step'[v] = "none"
    BY <1>1, AnswerFacts
  <2>2. Manages(w) /\ (s # "none" => Leads(w, s, o))
    BY <1>1 DEF Answered
  <2>3. s # "create"
    <3>1. s = "create" => step[w] = "create" \/ Owned \/ s = FirstStep(cache)
      BY <2>2 DEF Leads, Continues
    <3>2. FirstStep(cache) \in {"done", "stop", "refetch", "settle", "job"}
      BY DEF FirstStep
    <3> QED
      BY <3>1, <3>2 DEF Scheduled
  <2>4. started' = started
    BY <2>2 DEF Manages, Scheduled
  <2> QED
    BY <2>1, <2>3, <2>4 DEF Scheduled
<1>2. CASE QuietStep \/ WatchMoves \/ Dies \/ StartLeading \/ EditStep \/ JobStep
  <2>1. started' = started
    BY <1>2 DEF QuietStep, WatchMoves, Dies, StartLeading, EditStep, JobStep, server, JobFinishes,
                JobStopped, JobExpires, DelJobEnds, GarbageCollect
  <2> QED
    BY <1>2, <2>1, StillAtWork DEF Scheduled
<1> QED
  BY <1>1, <1>2, StepKinds

\* The run may still need its Job.
Live(r) == ~ r.deleting /\ r.phase \notin {"Done", "Gone"}

\* Somebody may act on a version in which it does.
Alive ==
  \/ \E r \in Object : Shows(r) /\ Live(r)
  \/ \E w \in Worker : step[w] \in JobSteps

\* The run does not come back to life.
LEMMA RunStaysDead ==
  ASSUME Base, Data, [Next]_vars, Live(run')
  PROVE  Live(run)
<1>1. ASSUME NEW w \in Worker, NEW s \in {"none"} \cup Steps, NEW o \in Object, Answered(w, s, o)
      PROVE  Live(run)
  <2>1. CASE run' = run
    BY <2>1
  <2>2. CASE w \in fresh /\ \E r \in Object : Rewrites(w, s, r) /\ run' = Settled(r)
    <3>1. PICK r \in Object : Rewrites(w, s, r) /\ run' = Settled(r)
      BY <2>2
    <3>2. Live(r)
      BY <3>1, SettledCases, GoneFacts DEF Live
    <3>3. Suits(step[w], run)
      BY <2>2, WriterFacts
    <3>4. ~ run.deleting
      BY <3>1, <3>2 DEF Live, Rewrites
    <3>5. step[w] \in JobSteps \/ r.phase = run.phase
      BY <3>1 DEF Rewrites, JobSteps
    <3> QED
      BY <3>2, <3>3, <3>4, <3>5 DEF Live, Suits
  <2> QED
    BY <1>1, <2>1, <2>2 DEF Answered
<1>2. CASE run' = run
  BY <1>2
<1>3. CASE EditStep
  <2>1. PICK r \in Object : run' = Settled(r) /\ r.phase = run.phase /\ (run.deleting => r.deleting)
    BY <1>3 DEF EditStep, Store
  <2> QED
    BY <2>1, SettledCases, GoneFacts DEF Live
<1>4. QuietStep \/ WatchMoves \/ Dies \/ StartLeading \/ JobStep => run' = run
  BY DEF QuietStep, WatchMoves, Dies, StartLeading, JobStep, Apart, server
<1> QED
  BY <1>1, <1>2, <1>3, <1>4, StepKinds

\* Where a reconcile that follows the Job begins.
LEMMA FirstStepLives ==
  ASSUME Data, Base, FirstStep(cache) \in JobSteps
  PROVE  Live(cache)
<1>1. cache \in Object /\ Sane(cache)
  BY DEF Data, Base, Types, Shows
<1>2. Suits(FirstStep(cache), cache)
  BY <1>1, FirstStepSuits
<1> QED
  BY <1>2 DEF Suits, Live

LEMMA NobodyRevives ==
  ASSUME Base, Data, [Next]_vars, Alive'
  PROVE  Alive
<1>1. run \in Object /\ cache \in Object /\ Shows(run) /\ Shows(cache)
  BY DEF Base, Types, Shows
<1>2. ASSUME NEW r \in Object, Shows(r)', Live(r) PROVE Alive
  <2>1. Shows(r) \/ r = run'
    BY <1>2, OnlyNewShows, GoneFacts DEF Live
  <2> QED
    BY <1>1, <1>2, <2>1, RunStaysDead DEF Alive
<1>3. ASSUME NEW w \in Worker, step'[w] \in JobSteps PROVE Alive
  <2>1. ASSUME NEW v \in Worker, NEW s \in {"none"} \cup Steps, NEW o \in Object, Answered(v, s, o)
        PROVE  Alive
    <3>1. v = w /\ s \in JobSteps
      BY <1>3, <2>1, AnswerFacts DEF JobSteps
    <3>2. s # "none" /\ Leads(w, s, o)
      BY <2>1, <3>1 DEF Answered, JobSteps
    <3>3. CASE step[w] = "none" /\ s = FirstStep(cache)
      BY <1>1, <3>1, <3>3, FirstStepLives DEF Alive
    <3>4. CASE Continues(w, s)
      <4>1. step[w] \in JobSteps
        BY <3>1, <3>4 DEF Continues, JobSteps
      <4> QED
        BY <4>1 DEF Alive
    <3> QED
      BY <3>1, <3>2, <3>3, <3>4 DEF Leads, JobSteps
  <2>2. CASE QuietStep \/ WatchMoves \/ Dies \/ StartLeading \/ EditStep \/ JobStep
    BY <1>3, <2>2, StillAtWork DEF Alive, JobSteps
  <2> QED
    BY <2>1, <2>2, StepKinds
<1>4. (\E r \in Object : Shows(r)' /\ Live(r)) \/ \E w \in Worker : step'[w] \in JobSteps
  BY DEF Alive, Live
<1> QED
  BY <1>2, <1>3, <1>4

\* What is shown later does not live when what is shown first does not.
Follows(r, s) == Live(s) => Live(r)

Order ==
  /\ \A i, k \in DOMAIN log : i < k => Follows(log[i], log[k])
  /\ \A i \in DOMAIN log : Follows(log[i], run)
  /\ cache # Gone => Follows(cache, run) /\ \A i \in DOMAIN log : Follows(cache, log[i])

LEMMA AppendKeepsOrder ==
  ASSUME Order, log \in Seq(Object), run' \in Object, log' = Append(log, run'), cache' = cache, Follows(run, run')
  PROVE  Order'
<1>1. /\ DOMAIN log = 1 .. Len(log) /\ DOMAIN log' = 1 .. Len(log) + 1 /\ Len(log) \in Nat
      /\ log'[Len(log) + 1] = run' /\ \A i \in 1 .. Len(log) : log'[i] = log[i]
  BY AppendFacts
<1>2. \A i \in DOMAIN log : Follows(log[i], run')
  BY DEF Order, Follows
<1>3. ASSUME NEW i \in DOMAIN log', NEW k \in DOMAIN log', i < k PROVE Follows(log'[i], log'[k])
  <2>1. i \in DOMAIN log /\ log'[i] = log[i]
    BY <1>1, <1>3
  <2>2. CASE k \in DOMAIN log
    BY <1>1, <1>3, <2>1, <2>2 DEF Order
  <2>3. CASE k = Len(log) + 1
    BY <1>1, <1>2, <2>1, <2>3
  <2> QED
    BY <1>1, <2>2, <2>3
<1>4. \A i \in DOMAIN log' : (i \in DOMAIN log /\ log'[i] = log[i]) \/ log'[i] = run'
  BY <1>1
<1>5. \A i \in DOMAIN log' : Follows(log'[i], run')
  BY <1>2, <1>4 DEF Follows
<1>6. ASSUME cache' # Gone
      PROVE  Follows(cache', run') /\ \A i \in DOMAIN log' : Follows(cache', log'[i])
  BY <1>4, <1>6 DEF Order, Follows
<1> QED
  BY <1>3, <1>5, <1>6 DEF Order, Follows, Live

LEMMA OrderStep ==
  ASSUME Base, Data, Order, ~ world.watchesBreak, [Next]_vars
  PROVE  Order'
<1>1. Follows(run, run')
  BY RunStaysDead DEF Follows
<1>2. log \in Seq(Object) /\ run \in Object
  BY DEF Base, Types
<1>3. CASE UNCHANGED <<run, log, cache>>
  BY <1>3 DEF Order, Follows, Live
<1>4. ASSUME NEW w \in Worker, NEW s \in {"none"} \cup Steps, NEW o \in Object, Answered(w, s, o)
      PROVE  Order'
  <2>1. cache' = cache
    BY <1>4 DEF Answered
  <2>2. CASE log' = Append(log, run') /\ \E r \in Object : run' = Settled(r)
    BY <1>1, <1>2, <2>1, <2>2, SettledIsAnObject, AppendKeepsOrder
  <2> QED
    BY <1>3, <1>4, <2>1, <2>2 DEF Answered
<1>5. CASE EditStep
  <2>1. PICK r \in Object : /\ run' = Settled(r) /\ log' = IF up THEN Append(log, run') ELSE log
                            /\ cache' = cache
    BY <1>5 DEF EditStep, Store
  <2>2. CASE up
    BY <1>1, <1>2, <2>1, <2>2, SettledIsAnObject, AppendKeepsOrder
  <2>3. CASE ~ up
    <3>1. log' = <<>> /\ cache' = Gone
      BY <2>1, <2>3 DEF Base, Down
    <3> QED
      BY <3>1 DEF Order, Follows, Live
  <2> QED
    BY <2>2, <2>3
<1>6. CASE QuietStep \/ JobStep
  BY <1>3, <1>6 DEF QuietStep, JobStep, Apart
<1>7. CASE log' = <<>> /\ (cache' = Gone \/ cache' = run')
  BY <1>7 DEF Order, Follows, Live
<1>8. CASE Dies
  BY <1>7, <1>8 DEF Dies
<1>9. CASE StartLeading
  <2>1. log' = <<>> /\ cache' = run'
    BY <1>9 DEF StartLeading, server, Base, Down
  <2> QED
    BY <1>7, <2>1
<1>10. CASE WatchMoves
  <2>1. run' = run /\ (\/ log # <<>> /\ cache' = log[1] /\ log' = Tail(log)
                       \/ cache' = run /\ log' = <<>>)
    BY <1>10 DEF WatchMoves
  <2>2. CASE log # <<>> /\ cache' = log[1] /\ log' = Tail(log)
    <3>1. /\ DOMAIN log = 1 .. Len(log) /\ DOMAIN log' = 1 .. Len(log) - 1 /\ Len(log) \in Nat /\ Len(log) > 0
          /\ \A i \in 1 .. Len(log) - 1 : log'[i] = log[i + 1]
      BY <1>2, <2>2, TailFacts
    <3>2. \A i \in DOMAIN log' : i + 1 \in DOMAIN log /\ 1 < i + 1 /\ log'[i] = log[i + 1]
      BY <3>1
    <3>3. 1 \in DOMAIN log
      BY <3>1
    <3>4. \A i \in DOMAIN log' : Follows(cache', log'[i]) /\ Follows(log'[i], run')
      BY <2>1, <2>2, <3>2, <3>3 DEF Order
    <3>5. Follows(cache', run')
      BY <2>1, <2>2, <3>3 DEF Order
    <3>6. ASSUME NEW i \in DOMAIN log', NEW k \in DOMAIN log', i < k PROVE Follows(log'[i], log'[k])
      <4>1. i + 1 < k + 1
        BY <3>1, <3>6
      <4> QED
        BY <3>2, <4>1 DEF Order
    <3> QED
      BY <3>4, <3>5, <3>6 DEF Order, Follows, Live
  <2> QED
    BY <1>7, <2>1, <2>2
<1> QED
  BY <1>4, <1>5, <1>6, <1>8, <1>9, <1>10, StepKinds

\* When the cache shows that the run is over, so does everything after it.
LEMMA CacheComesFirst ==
  ASSUME Base, Data, Order, cache # Gone, ~ Live(cache), NEW r, Shows(r)
  PROVE  ~ Live(r)
  BY DEF Order, Follows, Shows

\* Who ends the run knows that nobody needs its Job any more.
Ending == \A w \in Worker : step[w] \in EndSteps => ~ Alive

LEMMA EndingStep ==
  ASSUME Base, Data, Order, Ending, [Next]_vars
  PROVE  Ending'
<1>1. ~ Alive => ~ Alive'
  BY NobodyRevives
<1>2. ASSUME NEW w \in Worker, step'[w] \in EndSteps PROVE ~ Alive
  <2>1. ASSUME NEW v \in Worker, NEW s \in {"none"} \cup Steps, NEW o \in Object, Answered(v, s, o)
        PROVE  ~ Alive
    <3>1. v = w /\ s \in EndSteps
      BY <1>2, <2>1, AnswerFacts DEF EndSteps, DataSteps
    <3>2. s # "none" /\ Leads(w, s, o)
      BY <2>1, <3>1 DEF Answered, EndSteps, DataSteps
    <3>3. CASE step[w] = "none" /\ s = FirstStep(cache)
      <4>1. cache \in Object /\ Sane(cache)
        BY DEF Data, Base, Types, Shows
      <4>2. cache.deleting
        <5>1. CASE ~ cache.deleting
          <6>1. s \in {"done", "settle", "job"}
            BY <3>3, <5>1 DEF FirstStep
          <6> QED
            BY <3>1, <6>1 DEF EndSteps, DataSteps
        <5> QED
          BY <5>1
      <4>3. cache # Gone /\ ~ Live(cache)
        BY <4>2, GoneFacts DEF Live
      <4>4. \A u \in Worker : step[u] = "none"
        BY <2>1, <3>1, <3>3, AnswerFacts
      <4> QED
        BY <4>3, <4>4, CacheComesFirst DEF Alive, JobSteps
    <3>4. CASE step[w] # "none"
      <4>1. step[w] \in EndSteps
        BY <3>1, <3>2, <3>4 DEF Leads, Continues, EndSteps, DataSteps
      <4> QED
        BY <4>1 DEF Ending
    <3> QED
      BY <3>2, <3>3, <3>4 DEF Leads
  <2>2. CASE QuietStep \/ WatchMoves \/ Dies \/ StartLeading \/ EditStep \/ JobStep
    BY <1>2, <2>2, StillAtWork DEF Ending, EndSteps, DataSteps
  <2> QED
    BY <2>1, <2>2, StepKinds
<1> QED
  BY <1>1, <1>2 DEF Ending

-----------------------------------------------------------------------------
(* One Job, guarded *)

First ==
  /\ ~ job.deleting
  /\ \/ started = 0 /\ job.state = "none"
     \/ started = 1 /\ job.state # "none"

Once == Order /\ Ending /\ (Alive => First) /\ started <= 1

\* While somebody may need the Job, nobody removes it.
LEMMA LivingJobsStay ==
  ASSUME Base, Data, Once, Owned, ~ world.jobsVanish, JobStep, Alive
  PROVE  started' = started /\ job'.deleting = job.deleting /\ (job'.state = "none" <=> job.state = "none")
<1>1. ~ job.deleting /\ started' = started
  BY DEF Once, First, JobStep, JobFinishes, JobStopped, JobExpires, DelJobEnds, GarbageCollect
<1>2. ASSUME CaughtUp PROVE FALSE
  <2>1. run.phase \in {"Done", "Gone"} /\ log = <<>> /\ \A w \in Worker : step[w] = "none"
    BY <1>2 DEF CaughtUp, At
  <2>2. cache = run \/ cache = Gone
    <3>1. CASE up
      <4>1. Len(log) = 0 /\ seen \in Nat /\ seen <= Len(log)
        BY <2>1 DEF Base, Types, Watch
      <4>2. seen = Len(log)
        BY <4>1
      <4> QED
        BY <3>1, <4>2 DEF Base, Watch
    <3>2. CASE ~ up
      BY <3>2 DEF Base, Down
    <3> QED
      BY <3>1, <3>2
  <2>3. \A r : Shows(r) => r = run \/ r = Gone
    BY <2>1, <2>2 DEF Shows
  <2> QED
    BY <2>1, <2>3, GoneFacts DEF Alive, Live, JobSteps
<1>3. job \in [state : {"none", "running", "finished"}, deleting : BOOLEAN]
  BY DEF Base, Types
<1>4. job' = job \/ (job.state = "running" /\ job' = [job EXCEPT !.state = "finished"])
  BY <1>1, <1>2 DEF JobStep, JobFinishes, JobStopped, JobExpires, DelJobEnds, GarbageCollect
<1> QED
  BY <1>1, <1>3, <1>4

LEMMA OnceStep ==
  ASSUME Base, Data, Once, Owned, ~ world.jobsVanish, ~ world.watchesBreak, [Next]_vars
  PROVE  Once'
<1>1. Order' /\ Ending'
  BY OrderStep, EndingStep DEF Once
<1>2. Alive' => Alive /\ First
  BY NobodyRevives DEF Once
<1>3. ASSUME NEW w \in Worker, NEW s \in {"none"} \cup Steps, NEW o \in Object, Answered(w, s, o)
      PROVE  started' <= 1 /\ (Alive' => First')
  <2>1. Manages(w)
    BY <1>3 DEF Answered
  <2>2. CASE UNCHANGED <<job, started>>
    BY <1>2, <2>2 DEF Once, First
  <2>3. CASE step[w] = "cancel" /\ started' = started
    BY <1>2, <2>3 DEF Once, Ending, EndSteps
  <2>4. CASE /\ step[w] = "create" /\ job.state = "none"
             /\ job' = [state |-> "running", deleting |-> FALSE] /\ started' = Again(started)
    <3>1. Alive /\ First
      BY <2>4 DEF Alive, JobSteps, Once
    <3>2. started = 0
      BY <2>4, <3>1 DEF First
    <3>3. started' = 1
      BY <2>4, <3>2 DEF Again
    <3> QED
      BY <2>4, <3>3 DEF First
  <2> QED
    BY <2>1, <2>2, <2>3, <2>4 DEF Manages
<1>4. ASSUME JobStep
      PROVE  started' <= 1 /\ (Alive' => First')
  <2>1. started' = started
    BY <1>4 DEF JobStep, JobFinishes, JobStopped, JobExpires, DelJobEnds, GarbageCollect
  <2>2. Alive' => First'
    BY <1>2, <1>4, LivingJobsStay DEF First
  <2> QED
    BY <2>1, <2>2 DEF Once
<1>5. ASSUME QuietStep \/ WatchMoves \/ Dies \/ StartLeading \/ EditStep
      PROVE  started' <= 1 /\ (Alive' => First')
  <2>1. UNCHANGED <<job, started>>
    BY <1>5 DEF QuietStep, WatchMoves, Dies, StartLeading, EditStep, server
  <2> QED
    BY <1>2, <2>1 DEF Once, First
<1>6. started' <= 1 /\ (Alive' => First')
  BY <1>3, <1>4, <1>5, StepKinds
<1> QED
  BY <1>1, <1>6 DEF Once

\* A run that is refused, or has to wait, has no Job.
Refused ==
  plan # "ready" => /\ started = 0 /\ job.state = "none"
                    /\ \A r \in Object : Shows(r) => ~ r.guard
                    /\ \A w \in Worker : ~ mine[w].guard /\ step[w] \notin {"create", "mark", "report"}

LEMMA RefusedStep ==
  ASSUME Base, Data, Refused, Owned, [Next]_vars
  PROVE  Refused'
<1> SUFFICES ASSUME plan' # "ready"
             PROVE  /\ started' = 0 /\ job'.state = "none"
                    /\ \A r \in Object : Shows(r)' => ~ r.guard
                    /\ \A w \in Worker : ~ mine'[w].guard /\ step'[w] \notin {"create", "mark", "report"}
  BY DEF Refused
<1>1. run \in Object /\ Shows(run) /\ cache \in Object /\ Shows(cache)
  BY DEF Base, Types, Shows
<1>2. plan # "ready"
  <2>1. ASSUME NEW w \in Worker, NEW s \in {"none"} \cup Steps, NEW o \in Object, Answered(w, s, o)
        PROVE  plan' = plan
    BY <2>1 DEF Answered
  <2>2. plan' = plan \/ plan = "wait"
    BY <2>1, StepKinds DEF QuietStep, WatchMoves, Dies, StartLeading, EditStep, JobStep, given
  <2> QED
    BY <2>2
<1>3. /\ started = 0 /\ job.state = "none" /\ ~ run.guard
      /\ \A r \in Object : Shows(r) => ~ r.guard
      /\ \A w \in Worker : ~ mine[w].guard /\ step[w] \notin {"create", "mark", "report"}
  BY <1>1, <1>2 DEF Refused
<1>4. ~ run'.guard => \A r \in Object : Shows(r)' => ~ r.guard
  BY <1>3, OnlyNewShows, GoneFacts
<1>5. ASSUME NEW w \in Worker, NEW s \in {"none"} \cup Steps, NEW o \in Object, Answered(w, s, o)
      PROVE  /\ started' = 0 /\ job'.state = "none" /\ ~ run'.guard
             /\ \A v \in Worker : ~ mine'[v].guard /\ step'[v] \notin {"create", "mark", "report"}
  <2>1. Manages(w) /\ (s # "none" => Leads(w, s, o)) /\ (s = "none" => o = Gone)
    BY <1>5 DEF Answered, Moves
  <2>2. started' = 0 /\ job'.state = "none"
    BY <1>3, <2>1 DEF Manages
  <2>3. ~ run'.guard
    <3>1. CASE \E r \in Object : Rewrites(w, s, r) /\ run' = Settled(r)
      BY <1>3, <3>1, SettledCases, GoneFacts DEF Rewrites
    <3> QED
      BY <1>3, <1>5, <3>1 DEF Answered
  <2>4. ~ o.guard
    BY <1>1, <1>3, <2>1, <2>3, GoneFacts DEF Leads
  <2>5. s \notin {"create", "mark", "report"}
    <3>1. FirstStep(cache) \in {"done", "stop", "refetch", "settle", "job"}
      BY DEF FirstStep
    <3> QED
      BY <1>2, <1>3, <2>1, <3>1 DEF Leads, Continues
  <2> QED
    BY <1>5, <2>2, <2>3, <2>4, <2>5, AnswerFacts, GoneFacts
<1>6. CASE QuietStep \/ WatchMoves \/ Dies \/ StartLeading \/ EditStep \/ JobStep
  <2>1. ~ run'.guard
    <3>1. CASE EditStep
      <4>1. PICK r \in Object : run' = Settled(r) /\ r.guard = run.guard
        BY <3>1 DEF EditStep, Store
      <4> QED
        BY <1>3, <4>1, SettledCases, GoneFacts
    <3>2. QuietStep \/ WatchMoves \/ Dies \/ StartLeading \/ JobStep => run' = run
      BY DEF QuietStep, WatchMoves, Dies, StartLeading, JobStep, Apart, server
    <3> QED
      BY <1>3, <1>6, <3>1, <3>2
  <2>2. started' = started /\ (job' = job \/ job' = NoJob \/ job.state = "running")
    BY <1>6 DEF QuietStep, WatchMoves, Dies, StartLeading, EditStep, JobStep, server, JobFinishes,
                JobStopped, JobExpires, DelJobEnds, GarbageCollect
  <2>3. \A v \in Worker : ~ mine'[v].guard /\ step'[v] \notin {"create", "mark", "report"}
    BY <1>3, <1>6, StillAtWork, GoneFacts
  <2> QED
    BY <1>3, <1>4, <2>1, <2>2, <2>3 DEF NoJob
<1> QED
  BY <1>4, <1>5, <1>6, StepKinds

\* A Job that may still be created finds the run guarded, one that runs keeps it so.
Guarded ==
  /\ Alive /\ job.state = "none" =>
       /\ \A r \in Object : Shows(r) /\ r.guard => run.guard
       /\ \A w \in Worker : mine[w].guard => run.guard
  /\ \A w \in Worker : step[w] = "unguard" => job.state # "running"
  /\ job.state = "running" => run.guard

\* Who takes the guard away.
LEMMA GuardFalls ==
  ASSUME Base, Data, [Next]_vars, run.guard, ~ run'.guard
  PROVE  \E w \in Worker : step[w] \in {"unguard", "settle"}
<1>1. run \in Object
  BY DEF Base, Types
<1>2. ASSUME NEW w \in Worker, NEW s \in {"none"} \cup Steps, NEW o \in Object, Answered(w, s, o)
      PROVE  \E v \in Worker : step[v] \in {"unguard", "settle"}
  <2>1. run' # run
    BY <1>1
  <2>2. PICK r \in Object : Rewrites(w, s, r) /\ run' = Settled(r)
    BY <1>2, <2>1 DEF Answered
  <2>3. ~ r.guard
    BY <2>2, SettledCases
  <2>4. step[w] \in {"unguard", "settle"}
    BY <2>2, <2>3 DEF Rewrites
  <2> QED
    BY <2>4
<1>3. ASSUME QuietStep \/ WatchMoves \/ Dies \/ StartLeading \/ EditStep \/ JobStep
      PROVE  run'.guard
  <2>1. CASE EditStep
    <3>1. PICK r \in Object : run' = Settled(r) /\ r.guard = run.guard
      BY <2>1 DEF EditStep, Store
    <3> QED
      BY <3>1, SettledCases
  <2>2. QuietStep \/ WatchMoves \/ Dies \/ StartLeading \/ JobStep => run' = run
    BY DEF QuietStep, WatchMoves, Dies, StartLeading, JobStep, Apart, server
  <2> QED
    BY <1>3, <2>1, <2>2
<1> QED
  BY <1>2, <1>3, StepKinds

\* A Job starts to run only when a worker creates it.
LEMMA JobsStart ==
  ASSUME Base, [Next]_vars, job'.state = "running", job.state # "running"
  PROVE  \E w \in Worker : step[w] = "create" /\ mine[w].guard /\ job.state = "none"
<1>1. ASSUME NEW w \in Worker, NEW s \in {"none"} \cup Steps, NEW o \in Object, Answered(w, s, o)
      PROVE  \E v \in Worker : step[v] = "create" /\ mine[v].guard /\ job.state = "none"
  <2>1. Manages(w)
    BY <1>1 DEF Answered
  <2> QED
    BY <2>1 DEF Manages
<1>2. ASSUME JobStep PROVE job'.state # "running"
  <2>1. job \in [state : {"none", "running", "finished"}, deleting : BOOLEAN]
    BY DEF Base, Types
  <2>2. job' = job \/ job' = NoJob
    BY <1>2 DEF JobStep, JobFinishes, JobStopped, JobExpires, DelJobEnds, GarbageCollect
  <2>3. NoJob.state = "none"
    BY DEF NoJob
  <2> QED
    BY <2>2, <2>3
<1>3. QuietStep \/ WatchMoves \/ Dies \/ StartLeading \/ EditStep => job' = job
  BY DEF QuietStep, WatchMoves, Dies, StartLeading, EditStep, server
<1> QED
  BY <1>1, <1>2, <1>3, StepKinds

LEMMA GuardedStep ==
  ASSUME Base, Data, Once, Ended, Refused, Guarded, Owned,
         ~ world.jobsVanish, ~ world.watchesBreak, [Next]_vars
  PROVE  Guarded'
<1>1. /\ Alive' => Alive /\ First
      /\ \A r : Shows(r)' => Shows(r) \/ r = run' \/ r = Gone
      /\ run \in Object /\ cache \in Object /\ Shows(run) /\ Shows(cache)
  BY NobodyRevives, OnlyNewShows DEF Once, Base, Types, Shows
<1>2. ASSUME Alive', job'.state = "none" PROVE job.state = "none"
  <2>1. ASSUME NEW w \in Worker, NEW s \in {"none"} \cup Steps, NEW o \in Object, Answered(w, s, o)
        PROVE  job.state = "none"
    <3>1. Manages(w)
      BY <2>1 DEF Answered
    <3> QED
      BY <1>2, <3>1 DEF Manages
  <2>2. JobStep => job.state = "none"
    BY <1>1, <1>2, LivingJobsStay
  <2>3. QuietStep \/ WatchMoves \/ Dies \/ StartLeading \/ EditStep => job' = job
    BY DEF QuietStep, WatchMoves, Dies, StartLeading, EditStep, server
  <2> QED
    BY <1>2, <2>1, <2>2, <2>3, StepKinds
<1>3. ASSUME Alive, First, job.state = "none", run.guard PROVE run'.guard
  <2>1. SUFFICES ASSUME ~ run'.guard PROVE FALSE
    OBVIOUS
  <2>2. PICK w \in Worker : step[w] \in {"unguard", "settle"}
    BY <1>3, <2>1, GuardFalls
  <2>3. step[w] # "unguard"
    BY <1>3 DEF Once, Ending, EndSteps
  <2>4. Over
    BY <2>2, <2>3 DEF Ended
  <2>5. plan = "refused"
    BY <1>3, <2>4 DEF First, Over
  <2> QED
    BY <1>1, <1>3, <2>5 DEF Refused
<1>4. ASSUME Alive', job'.state = "none"
      PROVE  /\ \A r \in Object : Shows(r)' /\ r.guard => run'.guard
             /\ \A w \in Worker : mine'[w].guard => run'.guard
  <2>1. Alive /\ First /\ job.state = "none"
    BY <1>1, <1>2, <1>4
  <2>2. run.guard => run'.guard
    BY <1>3, <2>1
  <2>3. \A r \in Object : Shows(r)' /\ r.guard => run'.guard
    BY <1>1, <2>1, <2>2, GoneFacts DEF Guarded
  <2>4. ASSUME NEW w \in Worker, mine'[w].guard PROVE run'.guard
    <3>1. ASSUME NEW v \in Worker, NEW s \in {"none"} \cup Steps, NEW o \in Object, Answered(v, s, o)
          PROVE  run'.guard
      <4>1. v = w /\ mine'[w] = o
        BY <2>4, <3>1, AnswerFacts, GoneFacts
      <4>2. o = Gone \/ o = cache \/ o = run' \/ o = mine[w]
        BY <3>1, <4>1 DEF Answered, Moves, Leads
      <4> QED
        BY <1>1, <2>1, <2>2, <2>4, <4>1, <4>2, GoneFacts DEF Guarded
    <3>2. ASSUME QuietStep \/ WatchMoves \/ Dies \/ StartLeading \/ EditStep \/ JobStep
          PROVE  run'.guard
      BY <2>1, <2>2, <2>4, <3>2, StillAtWork, GoneFacts DEF Guarded
    <3> QED
      BY <3>1, <3>2, StepKinds
  <2> QED
    BY <2>3, <2>4
<1>5. ASSUME NEW w \in Worker, step'[w] = "unguard" PROVE job'.state # "running"
  <2>1. step[w] = "unguard" \/ (step[w] = "stop" /\ job.state # "running")
    <3>1. ASSUME NEW v \in Worker, NEW s \in {"none"} \cup Steps, NEW o \in Object, Answered(v, s, o)
          PROVE  step[w] = "stop" /\ job.state # "running"
      <4>1. v = w /\ s = "unguard"
        BY <1>5, <3>1, AnswerFacts
      <4>2. Leads(w, s, o)
        BY <3>1, <4>1 DEF Answered
      <4>3. FirstStep(cache) \in {"done", "stop", "refetch", "settle", "job"}
        BY DEF FirstStep
      <4> QED
        BY <4>1, <4>2, <4>3 DEF Leads, Continues
    <3>2. ASSUME QuietStep \/ WatchMoves \/ Dies \/ StartLeading \/ EditStep \/ JobStep
          PROVE  step[w] = "unguard"
      BY <1>5, <3>2, StillAtWork
    <3> QED
      BY <3>1, <3>2, StepKinds
  <2>2. job.state # "running" /\ holds[w] = TheKey /\ QueueInv /\ Busy
    BY <2>1 DEF Guarded, Base, Busy
  <2>3. ASSUME job'.state = "running" PROVE FALSE
    <3>1. PICK v \in Worker : step[v] = "create"
      BY <2>2, <2>3, JobsStart
    <3>2. v = w
      BY <2>2, <3>1, Alone
    <3> QED
      BY <2>1, <3>1, <3>2
  <2> QED
    BY <2>3
<1>6. ASSUME job'.state = "running" PROVE run'.guard
  <2>1. CASE job.state = "running"
    <3>1. run.guard
      BY <2>1 DEF Guarded
    <3>2. SUFFICES ASSUME ~ run'.guard PROVE FALSE
      OBVIOUS
    <3>3. PICK w \in Worker : step[w] \in {"unguard", "settle"}
      BY <3>1, <3>2, GuardFalls
    <3>4. step[w] = "settle" => Over
      BY DEF Ended
    <3> QED
      BY <2>1, <3>3, <3>4 DEF Guarded, Over
  <2>2. CASE job.state # "running"
    <3>1. PICK w \in Worker : step[w] = "create" /\ mine[w].guard /\ job.state = "none"
      BY <1>6, <2>2, JobsStart
    <3>2. Alive
      BY <3>1 DEF Alive, JobSteps
    <3>3. First /\ run.guard
      BY <3>1, <3>2 DEF Once, Guarded
    <3> QED
      BY <1>3, <3>1, <3>2, <3>3
  <2> QED
    BY <2>1, <2>2
<1> QED
  BY <1>4, <1>5, <1>6 DEF Guarded

-----------------------------------------------------------------------------
(* The inductive invariant *)

Steadily == ~ world.jobsVanish /\ ~ world.watchesBreak

\* What holds in which worlds.
RunInv ==
  /\ Base /\ Data
  /\ ~ Owned => Scheduled
  /\ Owned /\ Steadily => Once /\ Refused /\ Guarded
  /\ ~ Owned \/ Steadily => Ended /\ DataJob

LEMMA RunInvInit == ASSUME Init PROVE RunInv
<1>1. /\ cache = Gone /\ log = <<run>> /\ delJob = "none" /\ stored = FALSE
      /\ step = [w \in Worker |-> "none"] /\ mine = [w \in Worker |-> Gone]
      /\ job = IF Owned THEN NoJob ELSE [state |-> "running", deleting |-> FALSE]
      /\ started = IF Owned THEN 0 ELSE 1
  BY DEF Init
<1>2. \E p \in {"Retain", "Delete"} : run = New(p)
  BY DEF Init
<1>3. /\ ~ run.guard /\ ~ run.dataGuard /\ run.phase = "New"
      /\ \A r : Shows(r) => r = run \/ r = Gone
  <2>1. ~ run.guard /\ ~ run.dataGuard /\ run.phase = "New"
    BY <1>2 DEF New
  <2> QED
    BY <1>1, <2>1 DEF Shows
<1>4. Scheduled \/ Owned
  BY <1>1 DEF Scheduled
<1>5. Ended
  BY <1>1, <1>3, GoneFacts DEF Ended
<1>6. DataJob
  BY <1>1 DEF DataJob
<1>7. Order
  <2>1. \A i \in DOMAIN log : i = 1 /\ log[i] = run
    BY <1>1
  <2> QED
    BY <1>1, <2>1 DEF Order, Follows
<1>8. ASSUME Owned PROVE Once /\ Refused /\ Guarded
  <2>1. job.state = "none" /\ ~ job.deleting /\ started = 0
    BY <1>1, <1>8 DEF NoJob
  <2>2. Ending /\ First
    BY <1>1, <2>1 DEF Ending, First, EndSteps, DataSteps
  <2>3. Once
    BY <1>7, <2>1, <2>2 DEF Once
  <2>4. Refused
    BY <1>1, <1>3, <2>1, GoneFacts DEF Refused
  <2>5. Guarded
    BY <1>1, <1>3, <2>1, GoneFacts DEF Guarded
  <2> QED
    BY <2>3, <2>4, <2>5
<1> QED
  BY <1>4, <1>5, <1>6, <1>8, BaseInit, DataInit DEF RunInv

\* The world is the one Init has chosen.
LEMMA WorldStays == ASSUME Base, [Next]_vars PROVE world' = world
<1>1. ASSUME NEW w \in Worker, NEW s \in {"none"} \cup Steps, NEW o \in Object, Answered(w, s, o)
      PROVE  world' = world
  BY <1>1 DEF Answered
<1>2. QuietStep \/ WatchMoves \/ Dies \/ StartLeading \/ EditStep \/ JobStep => world' = world
  BY DEF QuietStep, WatchMoves, Dies, StartLeading, EditStep, JobStep, Apart, given
<1> QED
  BY <1>1, <1>2, StepKinds

\* A worker that finds no Job, or a finished one, may trust it: a scheduled run's Job has
\* existed, and one that may still be needed is not removed.
LEMMA JobsAreTrusted ==
  ASSUME ~ Owned => Scheduled, Owned => Once /\ Refused
  PROVE  Lasting /\ Conclusive
<1>1. CASE ~ Owned
  BY <1>1 DEF Lasting, Conclusive, Scheduled
<1>2. CASE Owned
  <2>1. ASSUME NEW w \in Worker, step[w] \in JobSteps PROVE First
    BY <1>2, <2>1 DEF Once, Alive
  <2>2. Lasting
    <3> SUFFICES ASSUME NEW w \in Worker, step[w] = "create" PROVE ~ (job.state = "none" /\ Over)
      BY DEF Lasting
    <3>1. plan = "ready"
      BY <1>2 DEF Refused
    <3>2. job.state = "none" => started = 0
      BY <2>1 DEF JobSteps, First
    <3> QED
      BY <3>1, <3>2 DEF Over
  <2>3. Conclusive
    BY <1>2, <2>1 DEF Conclusive, JobSteps, First
  <2> QED
    BY <2>2, <2>3
<1> QED
  BY <1>1, <1>2

LEMMA RunInvStep == ASSUME RunInv, [Next]_vars PROVE RunInv'
<1>1. Base /\ Data /\ Base' /\ Data'
  BY BaseStep, DataStep DEF RunInv
<1>2. (Owned' <=> Owned) /\ (Steadily' <=> Steadily)
  BY <1>1, WorldStays DEF Owned, Steadily
<1>3. ~ Owned => Scheduled'
  BY <1>1, ScheduledStep DEF RunInv
<1>4. Owned /\ Steadily => Once' /\ Refused' /\ Guarded'
  <2> SUFFICES ASSUME Owned, Steadily PROVE Once' /\ Refused' /\ Guarded'
    OBVIOUS
  <2>1. Once /\ Refused /\ Guarded /\ Ended /\ ~ world.jobsVanish /\ ~ world.watchesBreak
    BY DEF RunInv, Steadily
  <2> QED
    BY <1>1, <2>1, OnceStep, RefusedStep, GuardedStep
<1>5. ~ Owned \/ Steadily => Ended' /\ DataJob'
  <2> SUFFICES ASSUME ~ Owned \/ Steadily PROVE Ended' /\ DataJob'
    OBVIOUS
  <2>1. Ended /\ DataJob /\ (~ Owned => Scheduled) /\ (Owned => Once /\ Refused)
    BY DEF RunInv
  <2>2. Lasting /\ Conclusive
    BY <2>1, JobsAreTrusted
  <2> QED
    BY <1>1, <2>1, <2>2, EndedStep, DataJobStep
<1> QED
  BY <1>1, <1>2, <1>3, <1>4, <1>5 DEF RunInv

LEMMA RunInvAlways == Spec => []RunInv
<1>1. Init => RunInv
  BY RunInvInit
<1>2. RunInv /\ [Next]_vars => RunInv'
  BY RunInvStep
<1> QED
  BY <1>1, <1>2, PTL DEF Spec

\* In these worlds the Job of a run that owns it stays until its result is known.
JobsStay == \A v \in Worlds : v.jobsVanish => v.kind = "scheduled"

\* Where Jobs stay and the watch does not break, one Job is created for the object,
\* whatever lags, fails, is retried or restarted.
THEOREM NoSecondJob == ASSUME JobsStay PROVE Spec => []OnceUnlessReplayed
<1>1. RunInv => OnceUnlessReplayed
  <2> SUFFICES ASSUME RunInv, ~ world.watchesBreak PROVE started <= 1
    BY DEF OnceUnlessReplayed, RunsOnce
  <2>1. CASE ~ Owned
    BY <2>1 DEF RunInv, Scheduled
  <2>2. CASE Owned
    <3>1. world \in Worlds
      BY DEF RunInv, Base, Types
    <3>2. Steadily
      BY <2>2, <3>1 DEF JobsStay, Owned, Steadily
    <3> QED
      BY <2>2, <3>2 DEF RunInv, Once
  <2> QED
    BY <2>1, <2>2
<1> QED
  BY <1>1, RunInvAlways, PTL

\* In the same worlds a Job of its own runs only while the object is there and holds the
\* finalizer that makes its deletion stop the Job first.
THEOREM RunningJobsAreGuarded == ASSUME JobsStay PROVE Spec => []GuardedUnlessReplayed
<1>1. RunInv => GuardedUnlessReplayed
  <2> SUFFICES ASSUME RunInv, ~ world.watchesBreak, Owned, job.state = "running" PROVE run.guard
    BY DEF GuardedUnlessReplayed
  <2>1. world \in Worlds
    BY DEF RunInv, Base, Types
  <2>2. Steadily
    BY <2>1 DEF JobsStay, Owned, Steadily
  <2> QED
    BY <2>2 DEF RunInv, Guarded
<1> QED
  BY <1>1, RunInvAlways, PTL

\* A manual backup keeps its Job and its watch; a scheduled one may lose both.
BackupsAreSteady == \A v \in Worlds : v.kind = "backup" => ~ v.jobsVanish /\ ~ v.watchesBreak

\* There, a backup object that holds the data finalizer goes when its data has gone, or
\* its policy does not ask for that.
THEOREM DataIsDeletedFirst == ASSUME BackupsAreSteady PROVE Spec => DataGoesFirst
<1> DEFINE Heeded == run.dataGuard /\ run' = Gone => ~ stored \/ run.policy = "Retain"
<1>1. ASSUME RunInv, [Next]_vars, run.dataGuard, run' = Gone PROVE ~ stored \/ run.policy = "Retain"
  <2>1. Base /\ Data /\ world \in Worlds /\ run \in Object /\ Shows(run)
    BY <1>1 DEF RunInv, Base, Types, Shows
  <2>2. IsBackup /\ run # Gone
    BY <1>1, <2>1, GoneFacts DEF Data, Sane
  <2>3. DataJob
    <3>1. ~ Owned \/ Steadily
      <4>1. world.kind \in RunKinds
        BY <2>1, WorldsAssumption DEF AnyWorld
      <4> QED
        BY <2>1, <2>2, <4>1 DEF BackupsAreSteady, IsBackup, Owned, Steadily, RunKinds
    <3> QED
      BY <1>1, <3>1 DEF RunInv
  <2>4. ASSUME NEW w \in Worker, NEW s \in {"none"} \cup Steps, NEW o \in Object, Answered(w, s, o)
        PROVE  ~ stored \/ run.policy = "Retain"
    <3>1. w \in fresh /\ \E r \in Object : Rewrites(w, s, r) /\ run' = Settled(r)
      BY <1>1, <2>2, <2>4 DEF Answered
    <3>2. PICK r \in Object : Rewrites(w, s, r) /\ run' = Settled(r)
      BY <3>1
    <3>3. mine[w] = run /\ Suits(step[w], run)
      BY <1>1, <2>1, <3>1 DEF Base, Busy, Data
    <3>4. r # Gone
      BY <2>1, <2>2, <3>2, <3>3, GoneFacts DEF Rewrites, Data, Sane
    <3>5. r.deleting /\ ~ r.dataGuard /\ r.deleting = run.deleting
      BY <1>1, <3>2, <3>4, SettledCases DEF Rewrites
    <3>6. step[w] = "release"
      BY <1>1, <3>2, <3>3, <3>5 DEF Rewrites, Suits
    <3> QED
      BY <2>3, <3>3, <3>6 DEF DataJob
  <2>5. CASE EditStep
    <3>1. PICK r \in Object : run' = Settled(r) /\ r.dataGuard = run.dataGuard
      BY <2>5 DEF EditStep, Store
    <3> QED
      BY <1>1, <3>1, GoneFacts DEF Settled
  <2>6. QuietStep \/ WatchMoves \/ Dies \/ StartLeading \/ JobStep => run' = run
    BY DEF QuietStep, WatchMoves, Dies, StartLeading, JobStep, Apart, server
  <2>7. ~ (QuietStep \/ WatchMoves \/ Dies \/ StartLeading \/ JobStep)
    BY <1>1, <2>2, <2>6
  <2> QED
    BY <1>1, <2>1, <2>4, <2>5, <2>7, StepKinds
<1>2. RunInv /\ [Next]_vars => [Heeded]_vars
  BY <1>1
<1> QED
  BY <1>2, RunInvAlways, PTL DEF Spec, DataGoesFirst
=============================================================================
