---------------------------- MODULE MCLoops ----------------------------
(* One instance for TLC of the loops that must make progress beside the order
   path.  `part' says which of them a behaviour is about, and the others stay
   as they start.                                                         *)
EXTENDS TLC

VARIABLES
  part,
  \* Mirror
  m_journal, m_cursor, m_row, m_mirrored, m_version, m_queue, m_dropped, m_lost,
  m_health, m_daemon, m_replay, m_failures, m_restarts,
  \* RpcEndpoints
  e_endpoint, e_call, e_idleFor,
  \* RateLimiter
  r_owner, r_lockAge, r_stamps, r_worker, r_granted, r_crashes,
  \* RuntimeModes
  d_mem, d_file, d_health, d_healthFile, d_pending, d_tick, d_calm,
  \* RouteRotation
  w_outcome, w_tracked, w_fresh, w_deferred, w_priorityCursor, w_discoveryCursor,
  w_turn, w_routed, w_flips, w_restarts,
  \* LiveExecution
  o_side, o_instance, o_store, o_builds, o_chain, o_queued, o_handler, o_reply, o_wal,
  o_pending, o_spend, o_signed, o_risk, o_pc, o_stage, o_tries, o_resolved, o_outcome,
  o_result, o_faults

Mirror == INSTANCE Mirror WITH
  Capacity <- 2, BatchSize <- 2, Threshold <- 1, MaxLines <- 2, MaxFailures <- 1,
  MaxRestarts <- 1, journal <- m_journal, cursor <- m_cursor, row <- m_row, mirrored <-
  m_mirrored, version <- m_version, queue <- m_queue, dropped <- m_dropped, lost <-
  m_lost, health <- m_health, daemon <- m_daemon, replay <- m_replay, failures <-
  m_failures, restarts <- m_restarts
Rpc == INSTANCE RpcEndpoints WITH
  Endpoints <- {1, 2}, Candidates <- <<<<1, 2>>, <<2, 1>>>>, MaxConcurrency <- 1,
  MinInterval <- 1, RateCooldown <- 2, TimeoutCooldown <- 1, MaxWait <- 1, Decay <- 1,
  MaxMultiplier <- 2, MaxRun <- 1, endpoint <- e_endpoint, call <- e_call, idleFor <-
  e_idleFor
Limiter == INSTANCE RateLimiter WITH
  Workers <- {"p1", "p2", "p3"}, Capacity <- 2, Window <- 2, LockTimeout <- 1,
  MaxCrashes <- 1, owner <- r_owner, lockAge <- r_lockAge, stamps <- r_stamps, worker <-
  r_worker, granted <- r_granted, crashes <- r_crashes
Modes == INSTANCE RuntimeModes WITH
  QuoteDegraded <- 1, QuoteOpen <- 2, ReconcileOpen <- 1, SuccessTicks <- 1, mem <-
  d_mem, file <- d_file, health <- d_health, healthFile <- d_healthFile, pending <-
  d_pending, tick <- d_tick, calm <- d_calm
Rotation == INSTANCE RouteRotation WITH
  Pools <- 3, MaximumPools <- 2, DiscoveryPools <- 1, Life <- 4, MaxFlips <- 1,
  MaxRestarts <- 0, outcome <- w_outcome, tracked <- w_tracked, fresh <- w_fresh,
  deferred <- w_deferred, priorityCursor <- w_priorityCursor, discoveryCursor <-
  w_discoveryCursor, turn <- w_turn, routed <- w_routed, flips <- w_flips, restarts <-
  w_restarts
Live == INSTANCE LiveExecution WITH
  Keys <- {"k"}, Sides <- {"open", "swap"}, Legs <- 1, MaxBuilds <- 2, MaxInstances <- 1,
  MaxQueue <- 2, Faults <- {}, NoKey <- "no-key",
  TransportErrors <- {"timeout", "fetch-failed"}, MaxFaults <- 2,
  side <- o_side, instance <- o_instance, store <- o_store, builds <- o_builds,
  chain <- o_chain, queued <- o_queued, handler <- o_handler, reply <- o_reply,
  wal <- o_wal, pending <- o_pending, spend <- o_spend, signed <- o_signed,
  risk <- o_risk, pc <- o_pc, stage <- o_stage, tries <- o_tries,
  resolved <- o_resolved, outcome <- o_outcome, result <- o_result, faults <- o_faults

mirrorVars == <<m_journal, m_cursor, m_row, m_mirrored, m_version, m_queue, m_dropped,
  m_lost, m_health, m_daemon, m_replay, m_failures, m_restarts>>
rpcVars == <<e_endpoint, e_call, e_idleFor>>
limiterVars == <<r_owner, r_lockAge, r_stamps, r_worker, r_granted, r_crashes>>
modeVars == <<d_mem, d_file, d_health, d_healthFile, d_pending, d_tick, d_calm>>
rotationVars == <<w_outcome, w_tracked, w_fresh, w_deferred, w_priorityCursor,
  w_discoveryCursor, w_turn, w_routed, w_flips, w_restarts>>
liveVars == <<o_side, o_instance, o_store, o_builds, o_chain, o_queued, o_handler,
  o_reply, o_wal, o_pending, o_spend, o_signed, o_risk, o_pc, o_stage, o_tries,
  o_resolved, o_outcome, o_result, o_faults>>
all == <<part, mirrorVars, rpcVars, limiterVars, modeVars, rotationVars, liveVars>>

\* What a step of one component leaves alone.
But_m == UNCHANGED <<part, rpcVars, limiterVars, modeVars, rotationVars, liveVars>>
But_e == UNCHANGED <<part, mirrorVars, limiterVars, modeVars, rotationVars, liveVars>>
But_r == UNCHANGED <<part, mirrorVars, rpcVars, modeVars, rotationVars, liveVars>>
But_d == UNCHANGED <<part, mirrorVars, rpcVars, limiterVars, rotationVars, liveVars>>
But_w == UNCHANGED <<part, mirrorVars, rpcVars, limiterVars, modeVars, liveVars>>
But_o == UNCHANGED <<part, mirrorVars, rpcVars, limiterVars, modeVars, rotationVars>>

Parts == {"mirror", "rpc", "limiter", "modes", "rotation", "live"}

\* A component that the behaviour is not about starts in one state only.
LoopInit ==
  /\ part \in Parts
  /\ Mirror!Init
  /\ Rpc!Init
  /\ Limiter!Init
  /\ CASE part = "modes" -> Modes!Init
       [] OTHER -> d_file = Modes!Healthy /\ Modes!Init
  /\ CASE part = "rotation" -> Rotation!Init
       [] OTHER -> /\ w_tracked = {} /\ w_outcome = [p \in Rotation!All |-> "gone"]
                  /\ Rotation!Init
  /\ CASE part = "live" -> Live!Init
       [] OTHER -> o_side = [k \in {"k"} |-> "open"] /\ Live!Init

LoopNext ==
  \/ part = "mirror" /\ Mirror!Next /\ But_m
  \/ part = "rpc" /\ Rpc!Next /\ But_e
  \/ part = "limiter" /\ Limiter!Next /\ But_r
  \/ part = "modes" /\ Modes!Next /\ But_d
  \/ part = "rotation" /\ Rotation!Next /\ But_w
  \/ part = "live" /\ Live!Next /\ But_o

\* The fairness of each component, one step of each put together.
Fair1 ==
  \/ part = "mirror" /\ Mirror!Daemon /\ But_m
  \/ part = "rpc" /\ Rpc!Tick /\ But_e
  \/ part = "limiter" /\ Limiter!Tick /\ But_r
  \/ part = "modes" /\ Modes!Proceed /\ But_d
  \/ part = "rotation" /\ Rotation!Tick /\ But_w
  \/ part = "live" /\ Live!Tick /\ But_o
Fair2 ==
  \/ part = "mirror" /\ Mirror!TimerFlush /\ But_m
  \/ part = "rpc" /\ Rpc!Step(1) /\ But_e
  \/ part = "limiter" /\ Limiter!Step("p1") /\ But_r
  \/ part = "modes" /\ Modes!BecomeCalm /\ But_d
  \/ part = "live" /\ Live!Environment /\ Live!Sidecar!Serve("k") /\ But_o
Fair3 ==
  \/ part = "mirror" /\ Mirror!CooldownEnds /\ But_m
  \/ part = "rpc" /\ Rpc!Step(2) /\ But_e
  \/ part = "limiter" /\ Limiter!Step("p2") /\ But_r
  \/ part = "live" /\ Live!Environment /\ Live!Sidecar!Network /\ But_o
Fair4 ==
  \/ part = "limiter" /\ Limiter!Step("p3") /\ But_r

LoopSpec ==
  LoopInit /\ [][LoopNext]_all /\ WF_all(Fair1) /\ WF_all(Fair2) /\ WF_all(Fair3) /\ WF_all(Fair4)

ASSUME LoopAssumption ==
  /\ Mirror!MirrorAssumption /\ Rpc!EndpointsAssumption /\ Limiter!LimiterAssumption /\
     Modes!ModesAssumption /\ Rotation!RotationAssumption

-----------------------------------------------------------------------------
\* The mirror catches up with the journals again and again, until an event is dropped.
CatchesUp == Mirror!CatchesUp
\* A call of the registry ends, however long its endpoints cool down.
CallsEnd == Rpc!CallsEnd
\* The lock of the shared window comes free, whoever died with it.
LockComesFree == Limiter!LockComesFree
\* A circuit that may heal does so when the world is calm.
Heals == Modes!Heals
\* Every order is sooner or later accounted for.
OrderSettles == Live!OrderSettles
\* No pool waits for its route check for ever.
NoPoolStarves == Rotation!NoPoolStarves
=============================================================================
