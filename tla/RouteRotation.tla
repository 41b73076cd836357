--------------------------- MODULE RouteRotation ---------------------------
(* Which pools the candidate worker asks Jupiter about in a tick.  The quote
   budget is a few pools a tick, so the worker rotates: pools the daemon
   tracks, pools whose row is openable now and pools whose safety check was
   put off come first, the rest are "discovery", each group has a cursor, and
   a part of the budget is reserved for discovery.  The cursors index lists
   that this very tick's results will change.

   A pool is a number, its rank in the tick's list of eligible pools.  What a
   check of a pool would answer is outcome[p]; the answers change at most
   MaxFlips times, so from some tick on they are what they are.           *)
EXTENDS Naturals, Sequences, SequencesExt, FiniteSets

CONSTANTS
  Pools,          \* how many pools Meteora lists
  MaximumPools,   \* routeMaximumPoolsPerTick
  DiscoveryPools, \* routeDiscoveryPoolsPerTick
  Life,           \* ticks for which a passed route keeps its row openable
  MaxFlips,       \* bound: answers that change
  MaxRestarts     \* bound: restarts of the worker, which forget the rotation

RotationAssumption ==
  /\ {Pools, MaximumPools, Life} \subseteq Nat \ {0}
  /\ DiscoveryPools \in 1 .. MaximumPools
  /\ {MaxFlips, MaxRestarts} \subseteq Nat

VARIABLES
  outcome,          \* pool -> what a check of it answers
  tracked,          \* pools the daemon holds a position in
  fresh,            \* pool -> ticks its row stays openable
  deferred,         \* rotationState.deferredPoolAddresses, in insertion order
  priorityCursor,   \* rotationState.priorityCursor
  discoveryCursor,  \* rotationState.discoveryCursor
  turn,             \* rotationState.singleSlotTurn, modulo 4
  routed,           \* the pools checked in the last tick
  flips, restarts

vars == <<outcome, tracked, fresh, deferred, priorityCursor, discoveryCursor,
          turn, routed, flips, restarts>>

All == 1 .. Pools

\* "gone": Meteora does not list it or a filter drops it; "kept": its safety
\* check is put off but an earlier pass is still stored.
Outcomes == {"gone", "noRoute", "unsafe", "deferred", "kept", "passed"}

RotationTypeOK ==
  /\ outcome \in [All -> Outcomes]
  /\ tracked \subseteq All
  /\ fresh \in [All -> 0 .. Life]
  /\ IsInjective(deferred) /\ ToSet(deferred) \subseteq All
  /\ {priorityCursor, discoveryCursor} \subseteq 0 .. Pools
  /\ turn \in 0 .. 3
  /\ routed \subseteq All
  /\ flips \in 0 .. MaxFlips /\ restarts \in 0 .. MaxRestarts

Init ==
  /\ outcome \in [All -> Outcomes \ {"kept"}]
  /\ \E t \in All : tracked \in {{}, {t}}
  /\ fresh = [p \in All |-> 0]
  /\ deferred = <<>>
  /\ priorityCursor = 0 /\ discoveryCursor = 0 /\ turn = 0
  /\ routed = {}
  /\ flips = 0 /\ restarts = 0

-----------------------------------------------------------------------------
Least(a, b) == IF a < b THEN a ELSE b

\* takeCircular: at most `maximum' items from the cursor on, and the cursor
\* behind them; an empty take puts the cursor back to the start.
TakeCircular(items, maximum, cursor) ==
  LET n     == Len(items)
      count == Least(n, maximum)
      start == cursor % n
  IN  IF count = 0 THEN [items |-> <<>>, next |-> 0]
      ELSE [items |-> SubSeq(items \o items, start + 1, start + count),
            next  |-> (start + count) % n]

Ranked(S) == SelectSeq([p \in All |-> p], LAMBDA p : p \in S)

Eligible == {p \in All : outcome[p] # "gone"}
Openable == {p \in All : fresh[p] > 0}

\* Deferred pools that are no longer eligible are forgotten.
StillDeferred == SelectSeq(deferred, LAMBDA p : p \in Eligible)

\* The tracked pools, then the openable rows by score, then the deferred ones.
PriorityList ==
  Ranked(tracked \cap Eligible)
    \o Ranked((Openable \ tracked) \cap Eligible)
    \o SelectSeq(StillDeferred, LAMBDA p : p \notin tracked \cup Openable)

\* The part of the budget that is reserved for discovery; a rotation that
\* forgets to reserve it lets the priority set take every slot.
ReservedNothing(priority, discovery) == 0
Reserved(priority, discovery) ==
  Least(Least(DiscoveryPools, Len(discovery)),
        IF priority = <<>> THEN MaximumPools ELSE MaximumPools - 1)

\* selectRouteCandidates: what each group gets and where the cursors go.  With
\* one slot in all, every fourth tick is discovery's.
Selection(priority, discovery) ==
  IF MaximumPools = 1 /\ priority # <<>> /\ discovery # <<>> THEN
    LET p == TakeCircular(priority, 1, priorityCursor)
        d == TakeCircular(discovery, 1, discoveryCursor)
    IN  IF turn = 3
        THEN [items |-> ToSet(d.items), priority |-> priorityCursor,
              discovery |-> d.next, turn |-> 0]
        ELSE [items |-> ToSet(p.items), priority |-> p.next,
              discovery |-> discoveryCursor, turn |-> turn + 1]
  ELSE
    LET p == TakeCircular(priority, MaximumPools - Reserved(priority, discovery),
                          priorityCursor)
        d == TakeCircular(discovery,
                          Least(DiscoveryPools, MaximumPools - Len(p.items)),
                          discoveryCursor)
    IN  [items |-> ToSet(p.items) \cup ToSet(d.items), priority |-> p.next,
         discovery |-> d.next, turn |-> turn]

\* What the checks of the tick leave behind.  A pool that has no route any
\* more stays on the deferred list; only a definite safety answer removes it.
Rerouted(S) ==
  /\ fresh' = [p \in All |->
       IF p \in S THEN (IF outcome[p] \in {"kept", "passed"} THEN Life ELSE 0)
       ELSE IF outcome[p] = "gone" \/ fresh[p] = 0 THEN 0 ELSE fresh[p] - 1]
  /\ LET cleared == {p \in S : outcome[p] \in {"passed", "unsafe"}}
         added   == {p \in S : outcome[p] \in {"deferred", "kept"}}
     IN  deferred' = SelectSeq(StillDeferred, LAMBDA p : p \notin cleared)
                       \o Ranked(added \ ToSet(StillDeferred))

\* runCandidateWorkerTick, as far as the rotation goes.
Tick ==
  \E priority \in {PriorityList} :
  \E discovery \in {Ranked(Eligible \ ToSet(priority))} :
  \E chosen \in {Selection(priority, discovery)} :
      /\ routed' = chosen.items
      /\ priorityCursor' = chosen.priority
      /\ discoveryCursor' = chosen.discovery
      /\ turn' = chosen.turn
      /\ Rerouted(chosen.items)
      /\ UNCHANGED <<outcome, tracked, flips, restarts>>

\* A pool answers differently from now on (an earlier pass stays stored), or
\* the daemon opens or leaves a position.
Flip ==
  /\ flips < MaxFlips
  /\ flips' = flips + 1
  /\ \/ \E p \in All, o \in Outcomes :
          /\ o # outcome[p]
          /\ o = "kept" => outcome[p] = "passed"
          /\ outcome' = [outcome EXCEPT ![p] = o]
          /\ UNCHANGED tracked
     \/ /\ \E t \in All : tracked' \in {{}, {t}} \ {tracked}
        /\ UNCHANGED outcome
  /\ UNCHANGED <<fresh, deferred, priorityCursor, discoveryCursor, turn,
                 routed, restarts>>

Restart ==
  /\ restarts < MaxRestarts
  /\ restarts' = restarts + 1
  /\ deferred' = <<>> /\ priorityCursor' = 0 /\ discoveryCursor' = 0 /\ turn' = 0
  /\ UNCHANGED <<outcome, tracked, fresh, routed, flips>>

Next == Tick \/ Flip \/ Restart
FairSpec == Init /\ [][Next]_vars /\ WF_vars(Tick)

-----------------------------------------------------------------------------
\* Once the answers no longer change, every pool that is eligible is checked
\* again and again: no stable set of openable pools starves a new candidate,
\* and no large priority set starves one of its own.
NoPoolStarves ==
  \A p \in All : []<>(p \in routed \/ outcome[p] = "gone")
=============================================================================
