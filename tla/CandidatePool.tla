--------------------------- MODULE CandidatePool ---------------------------
(* The candidate database: the worker writes what each source says of a pool
   and, in the same transaction, a row derived from all of it; the daemon
   reads rows only.  Between two writes time passes, the worker fails or dies,
   a compaction holds the maintenance lock, and the source data of a row
   expires one by one while the row stays as it was derived.

   Time is relative: every lifetime is a number of units left, 0 is expired
   or absent.  Which pools a tick routes is RouteRotation's matter: here it is
   any set.                                                               *)
EXTENDS Naturals, FiniteSets, FiniteSetsExt

CONSTANTS
  Pools,
  Stale,      \* staleMs: the life of a Meteora, fee or route observation
  GmgnTtl,    \* gmgnTtlMs: the life of a safety answer
  Lease,      \* workerLeaseMs
  Retirement  \* retirementMs: how long a drained pool is retired

PoolAssumption ==
  /\ Pools # {}
  /\ {Stale, GmgnTtl, Lease, Retirement} \subseteq Nat \ {0}

VARIABLES
  obs,      \* candidate_source_observations: pool -> source -> [status, left]
  row,      \* candidate_pool: pool -> [openable, left]; left: freshness
  retired,  \* pool_fee_yield_retirements: pool -> life left
  lease,    \* candidate_pool_worker_status: life left, 0 when failed
  locked,   \* <database>.maintenance.lock: "no", "held", or "left" by a crash
  stage,    \* where the worker's tick is
  todo,     \* the pools the stage still has to write
  listed,   \* lpEligible: the pools this tick found
  profile,  \* feeYieldProfiles: "drained", "fine", or "none"
  routed,   \* routePassedCandidates
  unread    \* history: pools retired but not listed with a profile since

vars == <<obs, row, retired, lease, locked, stage, todo, listed, profile,
          routed, unread>>

worker == <<stage, todo, listed, profile, routed>>

Hard     == {"meteora", "jupiter_route", "gmgn"}
Sources  == Hard \cup {"pool_fee_yield"}
Statuses == {"passed", "blocked", "failed", "deferred"}
Stages   == {"idle", "fetching", "listing", "routing", "safety"}
Longest  == Max({Stale, GmgnTtl})

PoolTypeOK ==
  /\ obs \in [Pools -> [Sources -> [status : Statuses, left : 0 .. Longest]]]
  /\ row \in [Pools -> [openable : BOOLEAN, left : 0 .. Longest]]
  /\ retired \in [Pools -> 0 .. Retirement]
  /\ lease \in 0 .. Lease
  /\ locked \in {"no", "held", "left"}
  /\ stage \in Stages
  /\ {todo, listed, routed, unread} \subseteq SUBSET Pools
  /\ profile \in [Pools -> {"none", "fine", "drained"}]

Absent == [status |-> "deferred", left |-> 0]

Init ==
  /\ obs = [p \in Pools |-> [s \in Sources |-> Absent]]
  /\ row = [p \in Pools |-> [openable |-> FALSE, left |-> 0]]
  /\ retired = [p \in Pools |-> 0]
  /\ lease = 0 /\ locked = "no" /\ stage = "idle"
  /\ todo = {} /\ listed = {} /\ routed = {} /\ unread = {}
  /\ profile = [p \in Pools |-> "none"]

-----------------------------------------------------------------------------
\* deriveCandidatePoolEntry: openable when the three hard sources pass and no
\* live fee observation blocks; fresh for as long as the first of them lasts.
Passes(o, s) == o[s].status = "passed" /\ o[s].left > 0

FreshnessOfRoute(o) == o["jupiter_route"].left
Freshness(o) == Min({o[s].left : s \in Hard})

DeriveUnblocked(o) ==
  [openable |-> \A s \in Hard : Passes(o, s), left |-> Freshness(o)]
Derive(o) ==
  [openable |-> /\ \A s \in Hard : Passes(o, s)
                /\ ~(o["pool_fee_yield"].status = "blocked"
                     /\ o["pool_fee_yield"].left > 0),
   left     |-> Freshness(o)]

\* upsertCandidate: observations and row in one transaction, refused while the
\* database is under maintenance.
Upsert(p, new) ==
  /\ locked = "no"
  /\ obs' = [obs EXCEPT ![p] =
       [s \in Sources |-> IF s \in DOMAIN new THEN new[s] ELSE obs[p][s]]]
  /\ row' = [row EXCEPT ![p] = Derive(obs'[p])]

Observation(status, life) == [status |-> status, left |-> life]
Observed(s, status, life) == [source \in {s} |-> Observation(status, life)]
Free(next, S) == todo = {} /\ stage' = next /\ todo' = S

\* The tick starts: the lease is renewed before anything is fetched.
StartTick ==
  /\ stage = "idle" /\ locked = "no"
  /\ lease' = Lease
  /\ stage' = "fetching"
  /\ UNCHANGED <<obs, row, retired, locked, todo, listed, profile, routed, unread>>

\* Meteora answers; the fee samples are recorded, a drained pool is retired and
\* a retired one keeps its verdict.  Sampling that fails, or a pool beyond the
\* sampled rows, has no profile.
Fetch ==
  /\ stage = "fetching"
  /\ \E found \in SUBSET Pools, sampled \in SUBSET Pools, drained \in SUBSET Pools :
       /\ sampled \subseteq found /\ drained \subseteq sampled
       /\ sampled # {} => locked = "no"
       /\ listed' = found /\ todo' = found
       /\ profile' = [p \in Pools |->
            IF p \notin sampled THEN "none"
            ELSE IF p \in drained \/ retired[p] > 0 THEN "drained" ELSE "fine"]
       /\ retired' = [p \in Pools |->
            IF p \in drained /\ retired[p] = 0 THEN Retirement ELSE retired[p]]
       /\ unread' = unread \cup {p \in drained : retired[p] = 0}
  /\ stage' = "listing"
  /\ UNCHANGED <<obs, row, lease, locked, routed>>

ListPool(p) ==
  /\ stage = "listing" /\ p \in todo
  /\ LET fee == CASE profile[p] = "none"    -> "deferred"
                  [] profile[p] = "drained" -> "blocked"
                  [] profile[p] = "fine"    -> "passed"
     IN  Upsert(p, [source \in {"meteora", "pool_fee_yield"} |->
                      Observation(IF source = "meteora" THEN "passed" ELSE fee, Stale)])
  /\ todo' = todo \ {p}
  /\ unread' = IF profile[p] = "none" /\ retired[p] > 0 THEN unread \cup {p}
               ELSE unread \ {p}
  /\ UNCHANGED <<retired, lease, locked, stage, listed, profile, routed>>

ChooseRoutes ==
  /\ stage = "listing"
  /\ \E S \in SUBSET listed : Free("routing", S)
  /\ routed' = {}
  /\ UNCHANGED <<obs, row, retired, lease, locked, listed, profile, unread>>

RoutePool(p) ==
  /\ stage = "routing" /\ p \in todo
  /\ \E status \in {"passed", "blocked", "failed"} :
       /\ Upsert(p, Observed("jupiter_route", status, Stale))
       /\ routed' = IF status = "passed" THEN routed \cup {p} ELSE routed
  /\ todo' = todo \ {p}
  /\ UNCHANGED <<retired, lease, locked, stage, listed, profile, unread>>

\* markMissingOpenableStale: rows of pools this tick did not find.
MarkMissing ==
  /\ stage = "routing" /\ locked = "no"
  /\ Free("safety", routed)
  /\ row' = [p \in Pools |->
       IF p \in listed THEN row[p] ELSE [row[p] EXCEPT !.openable = FALSE]]
  /\ UNCHANGED <<obs, retired, lease, locked, listed, profile, routed, unread>>

\* A safety check put off keeps what is stored; an error or a verdict replaces it.
SafetyOf(p) ==
  /\ stage = "safety" /\ p \in todo
  /\ \/ UNCHANGED <<obs, row>>
     \/ Upsert(p, Observed("gmgn", "failed", Stale))
     \/ \E verdict \in {"passed", "blocked"} :
          Upsert(p, Observed("gmgn", verdict, GmgnTtl))
  /\ todo' = todo \ {p}
  /\ UNCHANGED <<retired, lease, locked, stage, listed, profile, routed, unread>>

Idle == stage' = "idle" /\ todo' = {} /\ listed' = {} /\ routed' = {}
          /\ profile' = [p \in Pools |-> "none"]

FinishTick ==
  /\ stage = "safety" /\ todo = {} /\ locked = "no"
  /\ lease' = Lease
  /\ Idle
  /\ UNCHANGED <<obs, row, retired, locked, unread>>

\* A step of the tick throws: the worker's status becomes failed, if that can
\* be written.
FailTick ==
  /\ stage # "idle"
  /\ Idle
  /\ lease' \in IF locked = "no" THEN {0, lease} ELSE {lease}
  /\ UNCHANGED <<obs, row, retired, locked, unread>>

WorkerDies ==
  /\ stage # "idle"
  /\ Idle
  /\ UNCHANGED <<obs, row, retired, lease, locked, unread>>

\* compact-candidate-db: the lock is a file; a killed compaction leaves it, and
\* only the operator removes it.
Compact ==
  /\ \/ locked = "no" /\ locked' = "held"
     \/ locked = "held" /\ locked' \in {"no", "left"}
     \/ locked = "left" /\ locked' = "no"
  /\ UNCHANGED <<obs, row, retired, lease, worker, unread>>

Less(n) == IF n = 0 THEN 0 ELSE n - 1

TimePasses ==
  /\ obs' = [p \in Pools |-> [s \in Sources |->
               [obs[p][s] EXCEPT !.left = Less(obs[p][s].left)]]]
  /\ row' = [p \in Pools |-> [row[p] EXCEPT !.left = Less(row[p].left)]]
  /\ retired' = [p \in Pools |-> Less(retired[p])]
  /\ lease' = Less(lease)
  /\ unread' = {p \in unread : retired'[p] > 0}
  /\ UNCHANGED <<locked, worker>>

Next ==
  \/ StartTick \/ Fetch \/ ChooseRoutes \/ MarkMissing \/ FinishTick
  \/ FailTick \/ WorkerDies \/ Compact \/ TimePasses
  \/ \E p \in Pools : ListPool(p) \/ RoutePool(p) \/ SafetyOf(p)

Spec == Init /\ [][Next]_vars

-----------------------------------------------------------------------------
\* listOpenableCandidates: what the daemon may open.
Offered(p) == lease > 0 /\ row[p].openable /\ row[p].left > 0

\* What the daemon may open has, at the moment it is read, a listing, a route
\* and a safety verdict that pass and are not expired, although the reader
\* looks at none of them.
OfferedHasEvidence ==
  \A p \in Pools : Offered(p) => \A s \in Hard : Passes(obs[p], s)

\* A pool retired for a drain of its liquidity is not offered while it is
\* retired, once a tick has listed it with its profile.
RetiredStaysOut ==
  \A p \in Pools : Offered(p) /\ retired[p] > 0 => p \in unread
=============================================================================
