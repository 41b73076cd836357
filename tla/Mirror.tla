------------------------------- MODULE Mirror -------------------------------
(***************************************************************************)
(* The observability mirror: the journals of the daemon, the bounded       *)
(* buffer and the breaker of mirror-runtime.ts, the SQLite tables, and     *)
(* the catch-up that replays journal lines no live event has brought       *)
(* (src/src/observability).                                                *)
(*                                                                         *)
(* An order state or an incident is appended to its journal and then       *)
(* enqueued.  A timer and the daemon flush the head of the buffer into one *)
(* transaction.  After its own flush the daemon replays the lines past a   *)
(* durable cursor, reading one journal after the other; the timer may      *)
(* flush between two of these reads, and the process may die anywhere.     *)
(* node:sqlite is synchronous, so a flush is one step.                     *)
(***************************************************************************)
EXTENDS Integers, Sequences, FiniteSetsExt

CONSTANTS
  Capacity,      \* queueCapacity
  BatchSize,     \* batchSize
  Threshold,     \* failureThreshold
  MaxLines,      \* bound: lines of the journals together
  MaxFailures,   \* bound: flushes that fail with all their retries
  MaxRestarts    \* bound: processes that die

MirrorAssumption ==
  /\ {Capacity, BatchSize, Threshold} \subseteq Nat \ {0}
  /\ {MaxLines, MaxFailures, MaxRestarts} \subseteq Nat

VARIABLES
  journal,    \* the lines of each journal
  cursor,     \* mirror-cursor.json: the lines of each journal already replayed
  row,        \* the version of the order its row shows
  mirrored,   \* history: the lines some transaction has written
  version,    \* history: how many states the order has gone through
  queue,      \* the buffer
  dropped,    \* droppedEvents > 0
  lost,       \* history: lines whose event was dropped, or died behind the cursor
  health,     \* the breaker: metrics.state, consecutiveFailures, the cooldown
  daemon,     \* where the loop of the daemon is
  replay,     \* the catch-up under way
  failures, restarts

disk == <<journal, cursor, row, mirrored>>
buffer == <<queue, dropped, lost>>
bounds == <<failures, restarts>>
vars == <<disk, buffer, version, health, daemon, replay, bounds>>

Journals == {"orders", "incidents"}
\* A line holds the version of its record, unless a crash cut it or a record was glued to it.
Torn == -1
Unreadable == 0
Readable(j, i) == journal[j][i] > 0

\* Line 0: an event of no journal line.
Event(from, kind, line, version_) == [from |-> from, kind |-> kind, line |-> line, version |-> version_]
Events == [from : {"live", "catchup"}, kind : Journals \cup {"snapshots"},
           line : 0..MaxLines, version : Nat]
\* What the catch-up enqueues is of low priority; the live events here are of high priority (those
\* of cycles and reconciliations, of medium priority, carry no line and are left out).
Rank(e) == IF e.from = "catchup" THEN 0 ELSE 2

Lines == Len(journal["orders"]) + Len(journal["incidents"])

NoReplay == [budget |-> 0, count |-> 0, todo |-> <<>>, next |-> [j \in Journals |-> 0]]
Healthy == [state |-> "healthy", streak |-> 0, cooling |-> FALSE]

TypeOK ==
  /\ journal \in [Journals -> Seq(Int)]
  /\ cursor \in [Journals -> 0..MaxLines] /\ \A j \in Journals : cursor[j] <= Len(journal[j])
  /\ row \in 0..version /\ version \in Nat /\ dropped \in BOOLEAN
  /\ mirrored \cup lost \subseteq Journals \X (1..MaxLines)
  /\ queue \in Seq(Events) /\ Len(queue) <= Capacity
  /\ health \in [state : {"healthy", "degraded", "open"}, streak : 0..MaxFailures, cooling : BOOLEAN]
  /\ daemon \in {"tick", "replay", "flush"}

Init ==
  /\ journal = [j \in Journals |-> <<>>] /\ cursor = [j \in Journals |-> 0]
  /\ row = 0 /\ mirrored = {} /\ version = 0
  /\ queue = <<>> /\ dropped = FALSE /\ lost = {} /\ health = Healthy
  /\ daemon = "tick" /\ replay = NoReplay /\ failures = 0 /\ restarts = 0

-----------------------------------------------------------------------------
(* The buffer.                                                             *)

Buffer(q, d, l) == [queue |-> q, dropped |-> d, lost |-> l]
Now == Buffer(queue, dropped, lost)
Becomes(b) == queue' = b.queue /\ dropped' = b.dropped /\ lost' = b.lost
LinesOf(events) == {<<e.kind, e.line>> : e \in {f \in events : f.line > 0}}

\* MirrorBuffer.enqueue: a full buffer gives up the first event of its lowest rank if that is below
\* the rank of the incoming one, and otherwise the incoming one.
Enqueue(b, e) ==
  LET lowest == {i \in DOMAIN b.queue : /\ Rank(b.queue[i]) < Rank(e)
                                        /\ \A h \in DOMAIN b.queue : Rank(b.queue[i]) <= Rank(b.queue[h])}
      i == Min(lowest)
  IN IF Len(b.queue) < Capacity THEN Buffer(Append(b.queue, e), b.dropped, b.lost)
     ELSE IF lowest = {} THEN Buffer(b.queue, TRUE, b.lost \cup LinesOf({e}))
     ELSE Buffer(Append(SubSeq(b.queue, 1, i - 1) \o SubSeq(b.queue, i + 1, Len(b.queue)), e),
                 TRUE, b.lost \cup LinesOf({b.queue[i]}))

-----------------------------------------------------------------------------
(* A flush.                                                                *)

\* maybePrune, which may not be due, succeed or fail: unless the breaker is open it alone decides
\* the state.
Pruned == {health} \cup
  (IF health.state = "open" THEN {} ELSE {[health EXCEPT !.state = s] : s \in {"healthy", "degraded"}})

\* Mutant: a row that exists is not updated.
WriteIgnored(batch) ==
  LET states == {i \in DOMAIN batch : batch[i].kind = "orders"}
  IN /\ row' = IF states = {} \/ row # 0 THEN row ELSE batch[Max(states)].version
     /\ mirrored' = mirrored \cup LinesOf(Range(batch))

\* writeBatch: every event is an upsert of its row, and the tables change together or not at all.
Write(batch) ==
  LET states == {i \in DOMAIN batch : batch[i].kind = "orders"}
  IN /\ row' = IF states = {} THEN row ELSE batch[Max(states)].version
     /\ mirrored' = mirrored \cup LinesOf(Range(batch))

\* Mutant: a batch that is written does not close the breaker.
AfterWriteOpen(b) == health

AfterWrite(b) == IF b.dropped THEN [Healthy EXCEPT !.state = "degraded"] ELSE Healthy
AfterFailure ==
  IF health.streak + 1 >= Threshold THEN [state |-> "open", streak |-> health.streak + 1, cooling |-> TRUE]
  ELSE [health EXCEPT !.state = "degraded", !.streak = @ + 1]

\* Mutant: a batch is acknowledged before it is written.
FlushOnceEager(b) ==
  LET n == Min({BatchSize, Len(b.queue)})
  IN /\ Becomes(Buffer(SubSeq(b.queue, n + 1, Len(b.queue)), b.dropped, b.lost))
     /\ \/ failures < MaxFailures /\ failures' = failures + 1 /\ health' = AfterFailure
           /\ UNCHANGED <<row, mirrored>>
        \/ Write(SubSeq(b.queue, 1, n)) /\ health' = AfterWrite(b) /\ UNCHANGED failures

\* flushOnce with b in the buffer: nothing while the breaker is open and cools down; otherwise a
\* prune, and one batch that is acknowledged when it is written.
FlushOnce(b) ==
  LET n == Min({BatchSize, Len(b.queue)})
  IN \/ /\ health.state = "open" /\ health.cooling
        /\ Becomes(b) /\ UNCHANGED <<health, failures, row, mirrored>>
     \/ /\ ~(health.state = "open" /\ health.cooling) /\ b.queue = <<>>
        /\ health' \in Pruned
        /\ Becomes(b) /\ UNCHANGED <<failures, row, mirrored>>
     \/ /\ ~(health.state = "open" /\ health.cooling) /\ b.queue # <<>>
        /\ Write(SubSeq(b.queue, 1, n)) /\ health' = AfterWrite(b)
        /\ Becomes(Buffer(SubSeq(b.queue, n + 1, Len(b.queue)), b.dropped, b.lost))
        /\ UNCHANGED failures
     \/ /\ ~(health.state = "open" /\ health.cooling) /\ b.queue # <<>>
        /\ failures < MaxFailures /\ failures' = failures + 1
        /\ health' = AfterFailure
        /\ Becomes(b) /\ UNCHANGED <<row, mirrored>>

\* The interval of start().
TimerFlush ==
  /\ FlushOnce(Now)
  /\ UNCHANGED <<journal, cursor, version, daemon, replay, restarts>>

CooldownEnds ==
  /\ health.cooling /\ health' = [health EXCEPT !.cooling = FALSE]
  /\ UNCHANGED <<disk, buffer, version, daemon, replay, bounds>>

-----------------------------------------------------------------------------
(* The loop of the daemon.                                                 *)

\* The version of the next record of journal j.
Upcoming(j) == IF j = "orders" THEN version + 1 ELSE 1
\* appendJsonLine: a record that follows a line cut by a crash is glued to it.
Appended(j, v) ==
  LET last == Len(journal[j])
  IN IF last > 0 /\ journal[j][last] = Torn THEN [journal EXCEPT ![j][last] = Unreadable]
     ELSE [journal EXCEPT ![j] = Append(@, v)]

\* An order state or an incident: its line, and its live event as soon as the line is written.
Record(j) ==
  LET v == Upcoming(j)
      last == Len(Appended(j, v)[j])
      at == IF Appended(j, v)[j][last] = v THEN last ELSE 0
  IN /\ daemon = "tick" /\ Lines < MaxLines
     /\ journal' = Appended(j, v)
     /\ version' = IF j = "orders" THEN v ELSE version
     /\ Becomes(Enqueue(Now, Event("live", j, at, v)))
     /\ UNCHANGED <<cursor, row, mirrored, health, daemon, replay, bounds>>

\* emitRecoveredOrderState, enqueueResolvedOpenOrderMirror: a state that no journal holds.
EnqueueRecovered ==
  /\ daemon = "tick" /\ version > 0 /\ version = Len(journal["orders"])
  /\ version' = version + 1
  /\ Becomes(Enqueue(Now, Event("live", "orders", 0, version')))
  /\ UNCHANGED <<disk, health, daemon, replay, bounds>>

\* canRunCatchup and the budget of the replay.
Budget(q) == Capacity - Len(q)

\* The snapshot is enqueued and flushed, and the catch-up starts if the mirror is healthy and less
\* than half full.
Report ==
  /\ daemon = "tick"
  /\ FlushOnce(Enqueue(Now, Event("live", "snapshots", 0, 0)))
  /\ IF health'.state = "healthy" /\ Len(queue') < Capacity \div 2
     THEN daemon' = "replay" /\ replay' = [budget |-> Budget(queue'), count |-> 0, next |-> cursor,
                                           todo |-> <<"orders", "incidents">>]
     ELSE daemon' = "tick" /\ replay' = NoReplay
  /\ UNCHANGED <<journal, cursor, version, restarts>>

Unseen(j, upto) == {i \in cursor[j] + 1..upto : Readable(j, i)}

\* The last line of j the budget reaches; a line that cannot be read costs nothing.
Reach(j) == Max({m \in cursor[j]..Len(journal[j]) :
                   \A i \in cursor[j] + 1..m : replay.count + Cardinality(Unseen(j, i - 1)) < replay.budget})
Exhausted == replay.todo = <<>> \/ replay.count >= replay.budget

\* The unseen lines of one journal, enqueued one after the other.
ReplayJournal ==
  /\ daemon = "replay" /\ ~Exhausted
  /\ LET j == Head(replay.todo)
         lines == Unseen(j, Reach(j))
         Replayed(i) == Event("catchup", j, i, journal[j][i])
     IN /\ Becomes(MapThenFoldSet(LAMBDA e, b : Enqueue(b, e), Now, Replayed, Max, lines))
        /\ replay' = [replay EXCEPT !.todo = Tail(@), !.count = @ + Cardinality(lines), !.next[j] = Reach(j)]
  /\ UNCHANGED <<disk, version, health, daemon, bounds>>

\* Only now does the cursor move, for all journals at once.
SaveCursor ==
  /\ daemon = "replay" /\ Exhausted
  /\ cursor' = replay.next
  /\ daemon' = IF replay.count > 0 THEN "flush" ELSE "tick"
  /\ replay' = NoReplay
  /\ UNCHANGED <<journal, row, mirrored, buffer, version, health, bounds>>

FlushReplayed ==
  /\ daemon = "flush"
  /\ FlushOnce(Now)
  /\ daemon' = "tick"
  /\ UNCHANGED <<journal, cursor, version, replay, restarts>>

\* The process dies, perhaps in an append or between it and its live event, and another one starts.
Restart ==
  /\ restarts < MaxRestarts /\ restarts' = restarts + 1
  /\ \/ UNCHANGED <<journal, version>>
     \/ \E j \in Journals : \E v \in {Torn, Upcoming(j)} :
          /\ daemon = "tick" /\ Lines < MaxLines
          /\ journal' = Appended(j, v)
          /\ version' = IF j = "orders" /\ v # Torn THEN v ELSE version
  /\ lost' = lost \cup {l \in LinesOf(Range(queue)) : l[2] <= cursor[l[1]]}
  /\ queue' = <<>> /\ dropped' = FALSE /\ health' = Healthy
  /\ daemon' = "tick" /\ replay' = NoReplay
  /\ UNCHANGED <<cursor, row, mirrored, failures>>

Daemon ==
  \/ \E j \in Journals : Record(j)
  \/ EnqueueRecovered \/ Report
  \/ ReplayJournal \/ SaveCursor \/ FlushReplayed

Next == Daemon \/ TimerFlush \/ CooldownEnds \/ Restart

Spec == Init /\ [][Next]_vars

\* The daemon loops, the interval fires and a cooldown ends.
Fairness == WF_vars(Daemon) /\ WF_vars(TimerFlush) /\ WF_vars(CooldownEnds)
FairSpec == Spec /\ Fairness

-----------------------------------------------------------------------------
(* Properties.                                                             *)

\* A line the cursor has passed is in the database or on its way there, or is one of those that
\* were dropped or died with their process: neither the replay nor the breaker skips any.
AccountedFor ==
  \A j \in Journals : \A i \in 1..cursor[j] :
    Readable(j, i) => <<j, i>> \in mirrored \cup lost \cup LinesOf(Range(queue))

Drained == queue = <<>> /\ \A j \in Journals : cursor[j] = Len(journal[j])

\* The replay brings old states of an order after new ones; when it is done and no event was lost,
\* the row shows the last state again, if a journal holds it.
RowsKeepUp ==
  Drained /\ lost = {} /\ daemon = "tick" /\ journal["orders"] # <<>>
    /\ journal["orders"][Len(journal["orders"])] = version
    => row = version

\* However many flushes fail and processes die, the mirror catches up again and again, until an
\* event is dropped.
CatchesUp == []<>(dropped \/ Drained)
=============================================================================
