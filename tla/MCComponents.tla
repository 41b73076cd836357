---------------------------- MODULE MCComponents ----------------------------
(* One instance for TLC of the components whose properties need no fairness.
   They share no variable here: `part' says which of them a behaviour is
   about, and the others stay as they start.  SpendingLimits is extended, the
   others are instantiated with their variables renamed, those that keep the
   program's records in MCRecords.                                        *)
EXTENDS SpendingLimits, MCRecords

CONSTANTS
  \* RpcEndpoints
  Endpoints, Candidates, MaxConcurrency, MinInterval, RateCooldown, TimeoutCooldown, MaxWait,
  Decay, MaxMultiplier, MaxRun,
  \* RuntimeModes
  QuoteDegraded, QuoteOpen, ReconcileOpen, SuccessTicks,
  \* CandidatePool
  Pools, Stale, GmgnTtl, Lease, Retirement,
  \* OwnedTokens, SpotInventory
  Lps, Buys, Deposit, MaxMoves, Values

\* Two calls that try the two endpoints in opposite orders.
BothWays == <<<<1, 2>>, <<2, 1>>>>

VARIABLES
  \* RpcEndpoints
  e_endpoint, e_call, e_idleFor,
  \* RuntimeModes
  d_mem, d_file, d_health, d_healthFile, d_pending, d_tick, d_calm,
  \* LiveCycle
  c_at, c_target, c_life, c_pending, c_action, c_saw, c_result,
  \* CandidatePool
  p_obs, p_row, p_retired, p_lease, p_locked, p_stage, p_todo, p_listed, p_profile,
  p_routed, p_unread,
  \* OwnedTokens
  t_wallet, t_users, t_lp, t_fee, t_record, t_wal, t_answer, t_pending, t_at, t_seen,
  t_value, t_due, t_cooled, t_moves, t_crashes,
  \* SpotInventory
  i_wallet, i_users, i_record, i_state, i_order, i_fate, i_wal, i_pending, i_at,
  i_seen, i_settled, i_moves, i_crashes

Rpc == INSTANCE RpcEndpoints WITH
  endpoint <- e_endpoint, call <- e_call, idleFor <- e_idleFor
Modes == INSTANCE RuntimeModes WITH
  mem <- d_mem, file <- d_file, health <- d_health, healthFile <- d_healthFile,
  pending <- d_pending, tick <- d_tick, calm <- d_calm
Cycle(on) == INSTANCE LiveCycle WITH
  LpEnabled <- on, at <- c_at, target <- c_target, life <- c_life, pending <- c_pending,
  action <- c_action, saw <- c_saw, result <- c_result
Pool == INSTANCE CandidatePool WITH
  obs <- p_obs, row <- p_row, retired <- p_retired, lease <- p_lease, locked <- p_locked,
  stage <- p_stage, todo <- p_todo, listed <- p_listed, profile <- p_profile,
  routed <- p_routed, unread <- p_unread
Tokens == INSTANCE OwnedTokens WITH
  Faults <- {}, wallet <- t_wallet, users <- t_users, lp <- t_lp, fee <- t_fee, record <- t_record, wal <- t_wal, answer <-
  t_answer, pending <- t_pending, at <- t_at, seen <- t_seen, value <- t_value, due <-
  t_due, cooled <- t_cooled, moves <- t_moves, crashes <- t_crashes
Inventory == INSTANCE SpotInventory WITH
  Faults <- {}, wallet <- i_wallet, users <- i_users, record <- i_record, state <- i_state, order <-
  i_order, fate <- i_fate, wal <- i_wal, pending <- i_pending, at <- i_at, seen <-
  i_seen, settled <- i_settled, moves <- i_moves, crashes <- i_crashes

rpcVars == <<e_endpoint, e_call, e_idleFor>>
modeVars == <<d_mem, d_file, d_health, d_healthFile, d_pending, d_tick, d_calm>>
cycleVars == <<c_at, c_target, c_life, c_pending, c_action, c_saw, c_result>>
poolVars == <<p_obs, p_row, p_retired, p_lease, p_locked, p_stage, p_todo, p_listed,
  p_profile, p_routed, p_unread>>
tokenVars == <<t_wallet, t_users, t_lp, t_fee, t_record, t_wal, t_answer, t_pending,
  t_at, t_seen, t_value, t_due, t_cooled, t_moves, t_crashes>>
inventoryVars == <<i_wallet, i_users, i_record, i_state, i_order, i_fate, i_wal, i_pending,
  i_at, i_seen, i_settled, i_moves, i_crashes>>
limitVars == vars
componentVars == <<rpcVars, modeVars, cycleVars, poolVars, tokenVars, inventoryVars, limitVars>>
all == <<componentVars, records>>

\* What a step of one component leaves alone.
But_e == UNCHANGED <<records, modeVars, cycleVars, poolVars, tokenVars, inventoryVars, limitVars>>
But_d == UNCHANGED <<records, rpcVars, cycleVars, poolVars, tokenVars, inventoryVars, limitVars>>
But_c == UNCHANGED <<records, rpcVars, modeVars, poolVars, tokenVars, inventoryVars, limitVars>>
But_p == UNCHANGED <<records, rpcVars, modeVars, cycleVars, tokenVars, inventoryVars, limitVars>>
But_t == UNCHANGED <<records, rpcVars, modeVars, cycleVars, poolVars, inventoryVars, limitVars>>
But_i == UNCHANGED <<records, rpcVars, modeVars, cycleVars, poolVars, tokenVars, limitVars>>
But_l == UNCHANGED <<records, rpcVars, modeVars, cycleVars, poolVars, tokenVars, inventoryVars>>

\* The decision cycle of the strategy with an LP position and of the one without.
CyclePart(on) == IF on THEN "cycle" ELSE "spot"
Parts == {"limits", "rpc", "modes", "cycle", "spot", "pool", "tokens", "inventory"}
           \cup RecordsParts

\* A component that the behaviour is not about starts in one state only.
CompInit ==
  /\ part \in Parts
  /\ RecordsInit
  /\ Init
  /\ Rpc!Init
  /\ CASE part = "modes" -> Modes!Init
       [] OTHER -> d_file = Modes!Healthy /\ Modes!Init
  /\ IF part \in {"cycle", "spot"} THEN \E on \in BOOLEAN : part = CyclePart(on) /\ Cycle(on)!Init
     ELSE /\ c_at = "wal" /\ c_target = CHOOSE t \in Cycle(TRUE)!Targets : TRUE
          /\ c_life = "closed" /\ c_pending = "none" /\ c_action = Cycle(TRUE)!Undecided
          /\ c_saw = {} /\ c_result = Cycle(TRUE)!Running
  /\ Pool!Init
  /\ CASE part = "tokens" -> Tokens!Init
       [] OTHER -> t_wallet = 0 /\ Tokens!Init
  /\ CASE part = "inventory" -> Inventory!Init
       [] OTHER -> i_wallet = 0 /\ Inventory!Init

\* The spending limits are checked up to the last hour.
Rests == part = "limits" /\ UNCHANGED all

CompNext ==
  \/ part = "limits" /\ Next /\ But_l
  \/ part = "rpc" /\ Rpc!Next /\ But_e
  \/ part = "modes" /\ Modes!Next /\ But_d
  \/ \E on \in BOOLEAN : part = CyclePart(on) /\ Cycle(on)!Next /\ But_c
  \/ part = "pool" /\ Pool!Next /\ But_p
  \/ part = "tokens" /\ Tokens!Next /\ But_t
  \/ part = "inventory" /\ Inventory!Next /\ But_i
  \/ RecordsNext /\ UNCHANGED componentVars
  \/ Rests

CompSpec ==
  CompInit /\ [][CompNext]_all

ASSUME CompAssumption ==
  /\ Rpc!EndpointsAssumption /\ Modes!ModesAssumption
  /\ \A on \in BOOLEAN : Cycle(on)!CycleAssumption
  /\ Pool!PoolAssumption /\ Tokens!OwnedTokensAssumption /\ Inventory!SpotAssumption

-----------------------------------------------------------------------------
\* The types of the states of the component that the behaviour is about.
CompTypeOK ==
  CASE part = "limits" -> TypeOK          [] part = "rpc" -> Rpc!TypeOK
    [] part = "modes" -> Modes!TypeOK     [] part \in {"cycle", "spot"} -> Cycle(TRUE)!TypeOK
    [] part = "pool" -> Pool!PoolTypeOK   [] part = "tokens" -> Tokens!TokensTypeOK
    [] part = "inventory" -> Inventory!SpotTypeOK
    [] OTHER -> RecordsTypeOK

\* Two calls of one RPC endpoint never start closer than its minimal interval.
StartsArePaced == Rpc!StartsArePaced
\* No position is opened while an account read failed or quotes keep failing, however
\* the mode was set.
OpensNeedHealth == Modes!OpensNeedHealth
\* The operator's flatten_only or paused is lifted only by a restart, a tick that throws,
\* or a tick with an order.
OperatorModeIsKept == Modes!OperatorModeIsKept
\* What forbids opening never stops an exit.
ExitIsNotVetoed ==
  \A on \in BOOLEAN : part = CyclePart(on) => Cycle(on)!ExitIsNotVetoed
\* An open is sent only if nothing spoke against it.
OpensAreClean ==
  \A on \in BOOLEAN : part = CyclePart(on) => Cycle(on)!OpensAreClean
\* A cycle never closes a lifecycle whose order is pending or whose position is held.
ClosesWhenGone ==
  \A on \in BOOLEAN : part = CyclePart(on) => Cycle(on)!ClosesWhenGone
\* A pool offered to the daemon has fresh evidence from every source it needs.
OfferedHasEvidence == part = "pool" => Pool!OfferedHasEvidence
\* A retired pool that a tick has listed with its profile is not offered before its term.
RetiredStaysOut == part = "pool" => Pool!RetiredStaysOut
\* The owner's tokens stay, the next sale of a residual or of a spot position is
\* of the program's own, and what it bought is on its books.
OwnTokensOnly ==
  /\ part = "tokens" => Tokens!UsersTokensStay /\ Tokens!BooksAreBacked
  /\ part = "inventory" => Inventory!SpotBacked /\ Inventory!BoughtIsKnown
=============================================================================
