------------------------------ MODULE Journal ------------------------------
(***************************************************************************)
(* The change journal: the writer (journal/writer.ts) that records every   *)
(* change of the deployment into segments, the coverage worked out from a  *)
(* listing (coverage.ts), what a verified read accepts (reader.ts), and    *)
(* the pruning of segments no base backup needs (prune.ts).                *)
(*                                                                         *)
(* EventsAt[t] events share the cluster time t (a transaction).  A segment *)
(* in storage is named by where it starts and holds the events after that, *)
(* up to `to`, of `to` only the first `part`.  A writer may fail, crash    *)
(* and be started again between any two awaits, and a put may fail after   *)
(* it landed.                                                              *)
(***************************************************************************)
EXTENDS Integers, Sequences, FiniteSets, FiniteSetsExt

CONSTANTS
  Writer,       \* the writer processes
  MaxTime,      \* bound: the last cluster time
  EventsAt,     \* how many events happen at each cluster time
  BaseTimes     \* bound: the cluster times of base backups

Times == 0..MaxTime

ASSUME TimesAssumption ==
  MaxTime \in Nat /\ EventsAt \in [Times -> Nat] /\ EventsAt[0] = 0 /\ BaseTimes \subseteq Times

VARIABLES
  now,      \* the deployment's cluster time
  oldest,   \* the oplog no longer holds the events up to here
  segs,     \* segments in storage, by start
  gaps,     \* gap records: where the journal starts again, by start of the gap
  state,    \* state.json
  bases,    \* cluster times of the base backups
  doomed,   \* segments a journal prune is about to delete
  pc,       \* the step each writer is at
  mem,      \* its #position, #previousHash and #startKind, the end of what its open
            \* segment holds, and the uploads prepare is about to delete
  start,    \* history: the journal has the events since then: where it began, or
            \* the base backup it was pruned for
  flaws     \* history: what happened that the journal does not survive intact

deployment == <<now, oldest>>
storage == <<segs, gaps, state, bases>>
prune == <<doomed, start>>
vars == <<deployment, storage, prune, pc, mem, flaws>>

NoState == [from |-> -1, to |-> -1, sha256 |-> <<>>]

Unstarted == [pos |-> 0, prev |-> <<>>, kind |-> "new", seen |-> 0, part |-> 0, stale |-> {}]

\* The digest of a segment stands for its whole content, that of the segments
\* before it included.
Digest(from, segment) == <<from, segment.to, segment.part>> \o segment.previous

Set(f, key, value) == [k \in DOMAIN f \cup {key} |-> IF k = key THEN value ELSE f[k]]

Without(f, keys) == [k \in DOMAIN f \ keys |-> f[k]]

-----------------------------------------------------------------------------
(* Coverage: what the names and the small records say                        *)

Committed   == {f \in DOMAIN segs : f <= state.from}
Uncommitted == DOMAIN segs \ Committed

Later(f)   == {g \in Committed : g > f}
Earlier(f) == {g \in Committed : g < f}

\* Mutant: gaps are not looked at.
EndIgnoresGaps(f) == IF Later(f) = {} THEN state.to ELSE Min(Later(f))

\* A segment ends at the next one, the newest at the recovery point, unless a gap
\* starts before that.
End(f) ==
  LET end    == IF Later(f) = {} THEN state.to ELSE Min(Later(f))
      inside == {g \in DOMAIN gaps : f < g /\ g < end}
  IN  IF inside = {} THEN end ELSE Min(inside)

\* The segments of one covered range from f on.
Joined(f, g) == \A h \in Committed : f <= h /\ h < g => End(h) = Min(Later(h))

Covers(from, to) ==
  \E f, g \in Committed : f <= from /\ f <= g /\ Joined(f, g) /\ to <= End(g)

Between(from, to) == {f \in Committed : End(f) > from /\ to > f}

-----------------------------------------------------------------------------
(* A verified read of the events in (from, to]                               *)

\* The header names the segment before, the trailer the end the names imply.
Sound(f) ==
  /\ segs[f].to = End(f)
  /\ Earlier(f) # {} =>
       LET before == Max(Earlier(f)) IN segs[f].previous = Digest(before, segs[before])

\* The last segment is checked against the next one, or against state.json.
TailSound(f) ==
  IF Later(f) # {}
  THEN LET next == Min(Later(f)) IN segs[next].previous = Digest(f, segs[f])
  ELSE f = state.from => state.sha256 = Digest(f, segs[f])

ReadSucceeds(from, to) ==
  /\ Covers(from, to)
  /\ \A f \in Between(from, to) : Sound(f)
  /\ Between(from, to) # {} => TailSound(Max(Between(from, to)))

\* What the segment f holds of the events at t.
HeldOf(f, t) ==
  IF ~ (f < t /\ t <= segs[f].to) THEN 0
  ELSE IF t = segs[f].to THEN segs[f].part ELSE EventsAt[t]

-----------------------------------------------------------------------------
(* prepare *)

\* Starting at a point, skips over recorded gaps that begin exactly there: the last of
\* the times one comes by.
FollowGaps(point) ==
  LET times     == {point} \cup {gaps[g] : g \in DOMAIN gaps}
      closed(R) == point \in R /\ \A g \in R \cap DOMAIN gaps : gaps[g] > g => gaps[g] \in R
  IN  IF point \notin DOMAIN gaps THEN point
      ELSE Max({p \in times : \A R \in SUBSET times : closed(R) => p \in R})

To(w, step) == pc' = [pc EXCEPT ![w] = step]

\* Bound: writers overlap once, and where there are no base backups and no prunes.
Overlapped == "overlap" \in flaws

Running == {w \in Writer : pc[w] # "off"}

\* The writer has its lease and reads where to resume; segments without a
\* state.json are refused.  A second writer means that a lease was lost or ran out
\* unnoticed.
Prepare(w) ==
  /\ pc[w] = "off"
  /\ \/ Running = {} /\ UNCHANGED flaws
     \/ /\ Running # {} /\ ~ Overlapped /\ bases = {} /\ doomed = {}
        /\ flaws' = flaws \cup {"overlap"}
  /\ state = NoState => DOMAIN segs = {}
  /\ mem' = [mem EXCEPT ![w] = IF state # NoState
       THEN [Unstarted EXCEPT !.pos = FollowGaps(state.to), !.prev = state.sha256,
                              !.kind = "resume", !.stale = Uncommitted]
       ELSE [Unstarted EXCEPT !.pos = IF bases # {} THEN Max(bases) ELSE now]]
  /\ To(w, IF state # NoState /\ Uncommitted # {} THEN "prepared" ELSE "open")
  /\ UNCHANGED <<deployment, storage, prune>>

\* Interrupted uploads are deleted as far as storage lets it.
DeleteInterrupted(w) ==
  /\ pc[w] = "prepared"
  /\ \E gone \in SUBSET mem[w].stale : segs' = Without(segs, gone)
  /\ mem' = [mem EXCEPT ![w].stale = {}]
  /\ To(w, "open")
  /\ UNCHANGED <<deployment, gaps, state, bases, prune, flaws>>

-----------------------------------------------------------------------------
(* The loop: segments *)

Reads(w, t, k) == mem' = [mem EXCEPT ![w].seen = t, ![w].part = k]

\* Everything at the time the stream has reached was read.
BetweenTimes(w) == mem[w].part = EventsAt[mem[w].seen]

Behind(w) ==
  mem[w].seen < oldest \/ (mem[w].seen = oldest /\ ~ BetweenTimes(w))

\* The stream opens after the position, if the oplog still reaches back to it.
Open(w) ==
  /\ pc[w] = "open"
  /\ IF mem[w].pos < oldest
     THEN To(w, "lost") /\ UNCHANGED mem
     ELSE To(w, "segment") /\ Reads(w, mem[w].pos, EventsAt[mem[w].pos])
  /\ UNCHANGED <<deployment, storage, prune, flaws>>

\* The open stream falls off the oplog.
FallsOff(w) ==
  /\ pc[w] = "segment" /\ Behind(w)
  /\ To(w, "lost")
  /\ Reads(w, 0, 0)
  /\ UNCHANGED <<deployment, storage, prune, flaws>>

\* The next event, in the order of the stream.
NextEvent(w, t, k) ==
  LET seen == mem[w].seen IN
  \/ ~ BetweenTimes(w) /\ t = seen /\ k = mem[w].part + 1
  \/ /\ BetweenTimes(w) /\ k = 1 /\ t > seen /\ EventsAt[t] > 0
     /\ \A u \in seen + 1 .. t - 1 : EventsAt[u] = 0

TakeEvent(w) ==
  /\ pc[w] = "segment" /\ ~ Behind(w)
  /\ \E t \in 1..now : \E k \in 1..EventsAt[t] : NextEvent(w, t, k) /\ Reads(w, t, k)
  /\ UNCHANGED <<deployment, storage, prune, pc, flaws>>

\* An empty batch: every event up to its position was returned.
TakePosition(w) ==
  /\ pc[w] = "segment" /\ ~ Behind(w) /\ BetweenTimes(w)
  /\ \E p \in mem[w].seen + 1 .. now :
       /\ \A u \in mem[w].seen + 1 .. p : EventsAt[u] = 0
       /\ Reads(w, p, 0)
  /\ UNCHANGED <<deployment, storage, prune, pc, flaws>>

\* Mutant: a segment is closed inside a cluster time.
ClosableAnywhere(w) == mem[w].seen > mem[w].pos

\* Age, size or a stop closes the segment, between two cluster times only: the next
\* item is an event of a later time, or the position just read.
Closable(w) == mem[w].seen > mem[w].pos /\ BetweenTimes(w)

Body(w) == [to |-> mem[w].seen, part |-> mem[w].part, previous |-> mem[w].prev]

\* After a failure: on again from the last commit the writer knows of.
Retry(w) == To(w, "open") /\ Reads(w, 0, 0)

\* The process ends; its memory is gone.
Stop(w) == To(w, "off") /\ mem' = [mem EXCEPT ![w] = Unstarted]

\* The upload becomes an object when it is complete; it may do so and fail.
Upload(w) ==
  /\ pc[w] = "segment" /\ Closable(w)
  /\ \/ /\ segs' = Set(segs, mem[w].pos, Body(w))
        /\ \/ To(w, "commit") /\ UNCHANGED mem
           \/ Retry(w)
     \/ Retry(w) /\ UNCHANGED segs
  /\ UNCHANGED <<deployment, gaps, state, bases, prune, flaws>>

NextState(w) == [from |-> mem[w].pos, to |-> mem[w].seen, sha256 |-> Digest(mem[w].pos, Body(w))]

Advance(w) ==
  mem' = [mem EXCEPT ![w].pos = mem[w].seen, ![w].kind = "resume",
                     ![w].prev = Digest(mem[w].pos, Body(w))]

\* Rewriting state.json makes the segment part of the journal; the next one follows,
\* or the writer stops.  The write may fail, and may do so after it landed: then the
\* writer does work again that is committed.
Commit(w) ==
  /\ pc[w] = "commit"
  /\ \/ /\ state' = NextState(w)
        /\ start' = IF state = NoState THEN mem[w].pos ELSE start
        /\ \/ To(w, "segment") /\ Advance(w) /\ UNCHANGED flaws
           \/ Stop(w) /\ UNCHANGED flaws
           \/ Retry(w) /\ flaws' = flaws \cup {"doubt"}
     \/ Retry(w) /\ UNCHANGED <<state, start, flaws>>
  /\ UNCHANGED <<deployment, segs, gaps, bases, doomed>>

-----------------------------------------------------------------------------
(* The loop: lost history, failures and stops *)

\* The upload that was to follow the position stays behind, uncommitted, and the
\* journal goes on after it.
Strands(w) ==
  flaws' = IF mem[w].pos \in DOMAIN segs THEN flaws \cup {"stranded"} ELSE flaws

\* A journal that has committed nothing just starts now.
StartNow(w) ==
  /\ pc[w] = "lost" /\ mem[w].kind = "new"
  /\ mem' = [mem EXCEPT ![w].pos = now]
  /\ To(w, "open")
  /\ Strands(w)
  /\ UNCHANGED <<deployment, storage, prune>>

\* readClusterTime says where the journal goes on.
MeasureGap(w) ==
  /\ pc[w] = "lost" /\ mem[w].kind = "resume"
  /\ Reads(w, now, 0)
  /\ To(w, "gap")
  /\ UNCHANGED <<deployment, storage, prune, flaws>>

Skip(w) == mem' = [mem EXCEPT ![w].pos = mem[w].seen, ![w].seen = 0]

\* Mutant: a gap that could not be recorded is passed over.
RecordGapOrNot(w) ==
  /\ pc[w] = "gap"
  /\ gaps' = Set(gaps, mem[w].pos, mem[w].seen) \/ UNCHANGED gaps
  /\ To(w, "open") /\ Skip(w)
  /\ UNCHANGED <<deployment, segs, state, bases, prune, flaws>>

\* The gap is on record before the position moves on; then the writer goes on
\* (onGap "backup") or stops ("fail").
RecordGap(w) ==
  /\ pc[w] = "gap"
  /\ \/ /\ gaps' = Set(gaps, mem[w].pos, mem[w].seen)
        /\ Strands(w)
        /\ \/ To(w, "open") /\ Skip(w)
           \/ Stop(w)
           \/ Retry(w)
     \/ Retry(w) /\ UNCHANGED <<gaps, flaws>>
  /\ UNCHANGED <<deployment, segs, state, bases, prune>>

\* A transient failure of the stream, or of the reading of the cluster time.
StreamFails(w) ==
  /\ pc[w] \in {"segment", "lost"}
  /\ Retry(w)
  /\ UNCHANGED <<deployment, storage, prune, flaws>>

\* The process dies, stops with nothing to commit, or hears that its lease is lost.
Quit(w) ==
  /\ pc[w] # "off"
  /\ Stop(w)
  /\ UNCHANGED <<deployment, storage, prune, flaws>>

-----------------------------------------------------------------------------
(* The deployment, the base backups and the prunes                           *)

Tick ==
  /\ now < MaxTime
  /\ now' = now + 1
  /\ UNCHANGED <<oldest, storage, prune, pc, mem, flaws>>

\* The oplog rolls over.
Truncate ==
  /\ oldest < now
  /\ oldest' \in oldest + 1 .. now
  /\ UNCHANGED <<now, storage, prune, pc, mem, flaws>>

\* A base backup is in the catalog some time after its cluster time.
BaseBackup ==
  /\ ~ Overlapped
  /\ \E t \in BaseTimes : t <= now /\ bases' = bases \cup {t}
  /\ UNCHANGED <<deployment, segs, gaps, state, prune, pc, mem, flaws>>

PruneBase ==
  /\ ~ Overlapped
  /\ \E base \in bases : bases' = bases \ {base}
  /\ UNCHANGED <<deployment, segs, gaps, state, prune, pc, mem, flaws>>

\* Mutant: the segment a base backup falls into goes too.
PruneByStart ==
  /\ ~ Overlapped
  /\ doomed = {} /\ bases # {}
  /\ doomed' = {f \in Committed : Later(f) # {} /\ f <= Min(bases)}
  /\ start' = Max({start, Min(bases)})
  /\ UNCHANGED <<deployment, storage, pc, mem, flaws>>

\* pruneJournal, after the backups were pruned: what ends at or before the oldest
\* base backup, but never the newest segment.
PrunePlan ==
  /\ ~ Overlapped
  /\ doomed = {} /\ bases # {}
  /\ doomed' = {f \in Committed : Later(f) # {} /\ End(f) <= Min(bases)}
  /\ start' = Max({start, Min(bases)})
  /\ doomed' # {}
  /\ UNCHANGED <<deployment, storage, pc, mem, flaws>>

\* It may be stopped half way.  An older segment left where a newer one went is the
\* one before the first that is kept, which names another.
PruneDelete ==
  /\ doomed # {}
  /\ \E gone \in SUBSET doomed :
       /\ segs' = Without(segs, gone)
       /\ flaws' = IF \E f \in gone, g \in doomed \ gone : g < f
                   THEN flaws \cup {"torn"} ELSE flaws
  /\ doomed' = {}
  /\ UNCHANGED <<deployment, gaps, state, bases, start, pc, mem>>

-----------------------------------------------------------------------------
Init ==
  /\ now = 0 /\ oldest = 0
  /\ segs = [f \in {} |-> 0] /\ gaps = [f \in {} |-> 0]
  /\ state = NoState
  /\ bases = {} /\ doomed = {} /\ start = 0
  /\ pc = [w \in Writer |-> "off"]
  /\ mem = [w \in Writer |-> Unstarted]
  /\ flaws = {}

WriterStep(w) ==
  \/ Prepare(w) \/ DeleteInterrupted(w) \/ Open(w) \/ FallsOff(w)
  \/ TakeEvent(w) \/ TakePosition(w) \/ Upload(w) \/ Commit(w)
  \/ StartNow(w) \/ MeasureGap(w) \/ RecordGap(w) \/ StreamFails(w) \/ Quit(w)

Next ==
  \/ \E w \in Writer : WriterStep(w)
  \/ Tick \/ Truncate \/ BaseBackup \/ PruneBase \/ PrunePlan \/ PruneDelete

Spec == Init /\ [][Next]_vars

-----------------------------------------------------------------------------
(* Properties *)

\* Whatever two writers, late failures and prunes did to the objects: a verified
\* read that succeeds misses no event.
NothingMissed ==
  \A from, to \in Times :
    from < to /\ ReadSucceeds(from, to) =>
      \A t \in from + 1 .. to : \A k \in 1..EventsAt[t] :
        \E f \in Between(from, to) : k <= HeldOf(f, t)

\* What the names say is covered can be read, so that a plan is kept.
PromisesAreKept ==
  \A from, to \in Times : from < to /\ Covers(from, to) => ReadSucceeds(from, to)

KeptUnlessFlawed == flaws = {} => PromisesAreKept

\* Every event from the start of the journal to its recovery point is in a committed
\* segment, or was lost on record.
EveryEventAccountedFor ==
  flaws \subseteq {"stranded"} =>
    \A t \in 1..state.to :
      \/ \E f \in Committed : HeldOf(f, t) = EventsAt[t]
      \/ \E g \in DOMAIN gaps : g < t /\ t <= gaps[g]
      \/ t <= start

\* What could be restored from a base backup can still be restored.
RecoverableStays ==
  [][flaws' \subseteq {"stranded"} =>
       \A base \in bases \cap bases' : \A to \in Times :
         start' <= base /\ base < to /\ ReadSucceeds(base, to) => ReadSucceeds(base, to)']_vars
=============================================================================
