--------------------------- MODULE LevelTriggered ---------------------------
(***************************************************************************)
(* What a controller's work queue promises its workers                     *)
(* (controller/workqueue.ts): a key asked for is handed out, to one worker *)
(* at a time; asked for while a worker has it, it is handed out again      *)
(* afterwards; many requests may be answered at once, none is dropped.     *)
(***************************************************************************)
CONSTANTS Key, Worker, Nothing

VARIABLES
  todo,   \* keys asked for since they were last handed out
  has,    \* has[w]: the key worker w has, or Nothing
  open    \* FALSE once nothing is handed out any more

vars == <<todo, has, open>>

Init == todo = {} /\ has = [w \in Worker |-> Nothing] /\ open = TRUE

Held == {has[w] : w \in Worker} \cap Key

Ask(k) == open /\ todo' = todo \cup {k} /\ UNCHANGED <<has, open>>

HandOut(k, w) ==
  /\ open
  /\ k \in todo \ Held
  /\ has[w] = Nothing
  /\ todo' = todo \ {k}
  /\ has' = [has EXCEPT ![w] = k]
  /\ UNCHANGED open

\* A key asked for while a worker waits is handed out in the same step.
AskAndHandOut(k, w) ==
  /\ open
  /\ k \notin Held
  /\ has[w] = Nothing
  /\ has' = [has EXCEPT ![w] = k]
  /\ UNCHANGED <<todo, open>>

TakeBack(w) ==
  /\ has[w] \in Key
  /\ has' = [has EXCEPT ![w] = Nothing]
  /\ UNCHANGED <<todo, open>>

\* A key asked for meanwhile goes to a worker that waits as it is taken back.
PassOn(v, w) ==
  /\ open
  /\ has[v] \in todo
  /\ has[w] = Nothing
  /\ todo' = todo \ {has[v]}
  /\ has' = [has EXCEPT ![v] = Nothing, ![w] = has[v]]
  /\ UNCHANGED open

Close == open /\ open' = FALSE /\ UNCHANGED <<todo, has>>

Next ==
  \/ \E k \in Key : Ask(k) \/ \E w \in Worker : HandOut(k, w) \/ AskAndHandOut(k, w)
  \/ \E v \in Worker : TakeBack(v) \/ \E w \in Worker : PassOn(v, w)
  \/ Close

Spec == Init /\ [][Next]_vars
=============================================================================
