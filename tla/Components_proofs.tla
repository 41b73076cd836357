------------------------- MODULE Components_proofs -------------------------
(***************************************************************************)
(* Proofs about components of MCComponents, whatever the values of their   *)
(* constants.  A behaviour of MCComponents is for each component one of    *)
(* its own specification, so that what is proved of the component alone is *)
(* a theorem about CompSpec too.                                           *)
(***************************************************************************)
EXTENDS MCComponents, Sequences, Sums_proofs

\* CompAssumption, one component at a time.
LEMMA Assumptions ==
  Rpc!EndpointsAssumption /\ Modes!ModesAssumption /\ Pool!PoolAssumption
BY CompAssumption

\* The steps of another component are not a component's own.
LEMMA OthersStutter ==
  ASSUME [CompNext]_all
  PROVE /\ [part = "rpc" /\ Rpc!Next]_rpcVars
        /\ [\E on \in BOOLEAN : part = CyclePart(on) /\ Cycle(on)!Next]_cycleVars
        /\ [part = "modes" /\ Modes!Next]_modeVars
        /\ [part = "pool" /\ Pool!Next]_poolVars
        /\ [Tokens!Next]_tokenVars /\ [Inventory!Next]_inventoryVars
        /\ UNCHANGED part
<1>1. CASE UNCHANGED all
  BY <1>1 DEF all, componentVars, records
<1>2. CASE CompNext
  <2>1. CASE RecordsNext /\ UNCHANGED componentVars
    BY <2>1 DEF RecordsNext, RecordsRest, records, componentVars
  <2>2. CASE ~(RecordsNext /\ UNCHANGED componentVars)
    BY <1>2, <2>2 DEF CompNext, Rests, all, records, componentVars, But_l, But_e, But_d, But_c, But_p,
      But_t, But_i
  <2> QED BY <2>1, <2>2
<1> QED BY <1>1, <1>2

\* The components of MCRecords take only steps of its specification, so that what is proved of
\* RecordsSpec holds of CompSpec too.
THEOREM RecordsWithin == CompSpec => RecordsSpec
<1>1. CompInit => RecordsInit BY DEF CompInit
<1>2. [CompNext]_all => [RecordsNext]_records
  BY DEF CompNext, Rests, all, But_l, But_e, But_d, But_c, But_p, But_t, But_i
<1> QED BY <1>1, <1>2, PTL DEF CompSpec, RecordsSpec

-----------------------------------------------------------------------------
(* CandidatePool.                                                          *)

\* A row is never fresher than what it was derived from, and an openable one was
\* derived from sources that passed.
RowFollows(p) ==
  \A s \in Pool!Hard :
    /\ p_row[p].left <= p_obs[p][s].left
    /\ p_row[p].openable => p_obs[p][s].status = "passed"

\* Once a tick has listed a retired pool with its profile, the blocking fee observation
\* lasts as long as the listing it came with.
BlockHolds(p) ==
  p_retired[p] > 0 /\ p \notin p_unread =>
    /\ ~p_row[p].openable
    /\ p_obs[p]["pool_fee_yield"].status = "blocked"
    /\ p_obs[p]["meteora"].left <= p_obs[p]["pool_fee_yield"].left

\* Within a tick no pool with a profile that is fine is retired.
FineIsFree(p) == p_profile[p] = "fine" => p_retired[p] = 0

PoolInv ==
  /\ Pool!PoolTypeOK
  /\ \A p \in Pools : RowFollows(p) /\ BlockHolds(p) /\ FineIsFree(p)

LEMMA LeastIsMin ==
  ASSUME NEW S \in SUBSET Nat, S # {}
  PROVE Pool!Min(S) \in S /\ \A n \in S : Pool!Min(S) <= n
BY LeastNumber DEF Pool!Min

LEMMA LongestLives ==
  Pool!Longest \in Nat /\ Stale \in 1..Pool!Longest /\ GmgnTtl \in 1..Pool!Longest
<1> DEFINE top == IF Stale >= GmgnTtl THEN Stale ELSE GmgnTtl
<1>1. Stale \in Nat \ {0} /\ GmgnTtl \in Nat \ {0} BY Assumptions DEF Pool!PoolAssumption
<1>2. top \in {Stale, GmgnTtl} /\ \A n \in {Stale, GmgnTtl} : top >= n BY <1>1
<1>3. \A m \in {Stale, GmgnTtl} : (\A n \in {Stale, GmgnTtl} : m >= n) => m = top BY <1>1
<1>4. Pool!Longest = top BY <1>2, <1>3, Zenon DEF Pool!Longest, Pool!Max
<1> QED BY <1>1, <1>4

\* The observations of one pool.
Observations == [Pool!Sources -> [status : Pool!Statuses, left : 0..Pool!Longest]]

\* What a row derived from o says: it is as fresh as the first source to expire, and a
\* live blocking observation of the fees closes it.
LEMMA DerivedRow ==
  ASSUME NEW o \in Observations
  PROVE /\ Pool!Derive(o) \in [openable : BOOLEAN, left : 0..Pool!Longest]
        /\ \A s \in Pool!Hard : /\ Pool!Derive(o).left <= o[s].left
                                /\ Pool!Derive(o).openable => o[s].status = "passed"
        /\ /\ o["pool_fee_yield"].status = "blocked"
           /\ o["meteora"].left <= o["pool_fee_yield"].left
           => ~Pool!Derive(o).openable
<1> DEFINE lives == {o[s].left : s \in Pool!Hard}
<1>1. \A s \in Pool!Hard \cup {"pool_fee_yield"} : o[s].left \in 0..Pool!Longest
  BY DEF Observations, Pool!Hard, Pool!Sources
<1>2. lives \in SUBSET Nat /\ lives # {} BY <1>1, LongestLives DEF Pool!Hard
<1>3. Pool!Min(lives) \in lives /\ \A n \in lives : Pool!Min(lives) <= n
  <2> HIDE DEF lives
  <2> QED BY <1>2, LeastIsMin
<1>4. Pool!Freshness(o) = Pool!Min(lives) BY DEF Pool!Freshness
<1>5. Pool!Freshness(o) \in 0..Pool!Longest BY <1>1, <1>3, <1>4
<1>6. \A s \in Pool!Hard : Pool!Freshness(o) <= o[s].left BY <1>3, <1>4
<1>7. Pool!Derive(o).left = Pool!Freshness(o) BY DEF Pool!Derive
<1>8. Pool!Derive(o).openable =>
        /\ \A s \in Pool!Hard : Pool!Passes(o, s)
        /\ ~(o["pool_fee_yield"].status = "blocked" /\ o["pool_fee_yield"].left > 0)
  BY DEF Pool!Derive
<1>9. Pool!Derive(o) \in [openable : BOOLEAN, left : 0..Pool!Longest] BY <1>5 DEF Pool!Derive
<1>10. ASSUME o["pool_fee_yield"].status = "blocked", Pool!Derive(o).openable,
              o["meteora"].left <= o["pool_fee_yield"].left
       PROVE FALSE
  <2>1. o["meteora"].left > 0 BY <1>8, <1>10 DEF Pool!Passes, Pool!Hard
  <2>2. o["meteora"].left \in Nat /\ o["pool_fee_yield"].left \in Nat
    BY <1>1, LongestLives DEF Pool!Hard
  <2> QED BY <1>8, <1>10, <2>1, <2>2
<1> QED BY <1>6, <1>7, <1>8, <1>9, <1>10 DEF Pool!Passes

\* A transaction writes what it brings of one pool, and the row that follows from it.
LEMMA UpsertRows ==
  ASSUME PoolInv, NEW p \in Pools, NEW new, DOMAIN new \subseteq Pool!Sources,
         \A s \in DOMAIN new : new[s] \in [status : Pool!Statuses, left : 0..Pool!Longest],
         Pool!Upsert(p, new)
  PROVE /\ p_obs' \in [Pools -> Observations]
        /\ p_row' \in [Pools -> [openable : BOOLEAN, left : 0..Pool!Longest]]
        /\ \A q \in Pools : RowFollows(q)'
        /\ \A q \in Pools \ {p} : p_obs'[q] = p_obs[q] /\ p_row'[q] = p_row[q]
        /\ \A s \in Pool!Sources : p_obs'[p][s] = IF s \in DOMAIN new THEN new[s] ELSE p_obs[p][s]
        /\ p_row'[p] = Pool!Derive(p_obs'[p])
<1> DEFINE o == [s \in Pool!Sources |-> IF s \in DOMAIN new THEN new[s] ELSE p_obs[p][s]]
<1>1. p_obs \in [Pools -> Observations]
      /\ p_row \in [Pools -> [openable : BOOLEAN, left : 0..Pool!Longest]]
  BY DEF PoolInv, Pool!PoolTypeOK, Observations
<1>2. o \in Observations BY <1>1 DEF Observations
<1>3. p_obs' = [p_obs EXCEPT ![p] = o] /\ p_obs'[p] = o BY <1>1 DEF Pool!Upsert
<1>4. p_row' = [p_row EXCEPT ![p] = Pool!Derive(o)] BY <1>3 DEF Pool!Upsert
<1> HIDE DEF o
<1>5. p_obs' \in [Pools -> Observations] BY <1>1, <1>2, <1>3
<1>6. Pool!Derive(o) \in [openable : BOOLEAN, left : 0..Pool!Longest] BY <1>2, DerivedRow
<1>7. p_row' \in [Pools -> [openable : BOOLEAN, left : 0..Pool!Longest]] BY <1>1, <1>4, <1>6
<1>8. \A q \in Pools \ {p} : p_obs'[q] = p_obs[q] /\ p_row'[q] = p_row[q] BY <1>1, <1>3, <1>4
<1>9. p_row'[p] = Pool!Derive(o) BY <1>1, <1>4
<1>10. ASSUME NEW q \in Pools PROVE RowFollows(q)'
  <2>1. CASE q = p
    <3>1. \A s \in Pool!Hard : /\ Pool!Derive(o).left <= o[s].left
                               /\ Pool!Derive(o).openable => o[s].status = "passed"
      BY <1>2, DerivedRow
    <3>2. p_obs'[q] = o /\ p_row'[q] = Pool!Derive(o) BY <1>3, <1>9, <2>1
    <3> QED BY <3>1, <3>2 DEF RowFollows
  <2>2. CASE q # p
    <3>1. RowFollows(q) BY DEF PoolInv
    <3> QED BY <1>8, <2>2, <3>1 DEF RowFollows
  <2> QED BY <2>1, <2>2
<1>11. \A s \in Pool!Sources : o[s] = IF s \in DOMAIN new THEN new[s] ELSE p_obs[p][s] BY DEF o
<1> QED BY <1>3, <1>5, <1>7, <1>8, <1>9, <1>10, <1>11

LEMMA PoolStarts == Pool!Init => PoolInv
<1> SUFFICES ASSUME Pool!Init PROVE PoolInv OBVIOUS
<1> USE LongestLives
<1>1. 0 \in 0..Lease /\ 0 \in 0..Retirement BY Assumptions DEF Pool!PoolAssumption
<1>2. p_obs \in [Pools -> Observations]
  BY DEF Pool!Init, Pool!Absent, Observations, Pool!Statuses
<1>3. Pool!PoolTypeOK
  BY <1>1, <1>2 DEF Pool!Init, Pool!PoolTypeOK, Pool!Stages, Observations
<1>4. \A p \in Pools : RowFollows(p) /\ BlockHolds(p) /\ FineIsFree(p)
  BY DEF Pool!Init, RowFollows, BlockHolds, FineIsFree, Pool!Hard, Pool!Sources, Pool!Absent
<1> QED BY <1>3, <1>4 DEF PoolInv

\* Lists a pool: the listing and the fee observation are as old as each other.
LEMMA ListPoolKeeps ==
  ASSUME PoolInv, NEW p \in Pools, Pool!ListPool(p) PROVE PoolInv'
<1> DEFINE fee == CASE p_profile[p] = "none"    -> "deferred"
                    [] p_profile[p] = "drained" -> "blocked"
                    [] p_profile[p] = "fine"    -> "passed"
           new == [source \in {"meteora", "pool_fee_yield"} |->
                    Pool!Observation(IF source = "meteora" THEN "passed" ELSE fee, Stale)]
<1>1. Pool!PoolTypeOK /\ p_profile[p] \in {"none", "fine", "drained"}
  BY DEF PoolInv, Pool!PoolTypeOK
<1>2. fee \in Pool!Statuses /\ (p_profile[p] = "drained" => fee = "blocked")
  BY <1>1 DEF Pool!Statuses
<1>3. Pool!Upsert(p, new) BY DEF Pool!ListPool
<1> HIDE DEF fee
<1>4. DOMAIN new \subseteq Pool!Sources
      /\ \A s \in DOMAIN new : new[s] \in [status : Pool!Statuses, left : 0..Pool!Longest]
  BY <1>2, LongestLives DEF Pool!Observation, Pool!Sources, Pool!Hard, Pool!Statuses
<1>5. new["meteora"].left = Stale /\ new["pool_fee_yield"] = [status |-> fee, left |-> Stale]
      /\ DOMAIN new = {"meteora", "pool_fee_yield"}
  BY DEF Pool!Observation
<1> HIDE DEF new
<1>6. /\ p_obs' \in [Pools -> Observations]
      /\ p_row' \in [Pools -> [openable : BOOLEAN, left : 0..Pool!Longest]]
      /\ \A q \in Pools : RowFollows(q)'
      /\ \A q \in Pools \ {p} : p_obs'[q] = p_obs[q] /\ p_row'[q] = p_row[q]
      /\ \A s \in Pool!Sources : p_obs'[p][s] = IF s \in DOMAIN new THEN new[s] ELSE p_obs[p][s]
      /\ p_row'[p] = Pool!Derive(p_obs'[p])
  BY <1>3, <1>4, UpsertRows
<1>7. UNCHANGED <<p_retired, p_lease, p_locked, p_stage, p_listed, p_profile, p_routed>>
      /\ p_todo' = p_todo \ {p}
      /\ p_unread' = IF p_profile[p] = "none" /\ p_retired[p] > 0 THEN p_unread \cup {p}
                     ELSE p_unread \ {p}
  BY DEF Pool!ListPool
<1>8. Pool!PoolTypeOK' BY <1>1, <1>6, <1>7 DEF Pool!PoolTypeOK, Observations
<1>9. ASSUME NEW q \in Pools PROVE FineIsFree(q)'
  BY <1>7 DEF PoolInv, FineIsFree
<1>10. ASSUME NEW q \in Pools PROVE BlockHolds(q)'
  <2>1. CASE q # p
    <3>1. BlockHolds(q) /\ p_obs'[q] = p_obs[q] /\ p_row'[q] = p_row[q] BY <1>6, <2>1 DEF PoolInv
    <3>2. q \notin p_unread' => q \notin p_unread BY <1>7, <2>1
    <3> QED BY <1>7, <3>1, <3>2 DEF BlockHolds
  <2>2. ASSUME q = p, p_retired[p] > 0, p \notin p_unread' PROVE BlockHolds(p)'
    <3>1. p_profile[p] = "drained"
      <4>1. FineIsFree(p) BY DEF PoolInv
      <4> QED BY <1>1, <1>7, <2>2, <4>1 DEF FineIsFree
    <3>2. p_obs'[p]["meteora"].left = Stale
          /\ p_obs'[p]["pool_fee_yield"] = [status |-> "blocked", left |-> Stale]
      BY <1>2, <1>5, <1>6, <3>1 DEF Pool!Sources, Pool!Hard
    <3>3. p_obs'[p] \in Observations BY <1>6
    <3>4. p_obs'[p]["meteora"].left <= p_obs'[p]["pool_fee_yield"].left
      BY <3>2, LongestLives
    <3>5. ~p_row'[p].openable BY <1>6, <3>2, <3>3, <3>4, DerivedRow
    <3> QED BY <3>2, <3>4, <3>5 DEF BlockHolds
  <2>3. CASE ~(p_retired[p] > 0 /\ p \notin p_unread')
    BY <1>7, <2>1, <2>3 DEF BlockHolds
  <2> QED BY <2>1, <2>2, <2>3
<1> QED BY <1>6, <1>8, <1>9, <1>10 DEF PoolInv

\* Another observation of a pool neither lists it anew nor changes its fee observation.
LEMMA ObserveKeeps ==
  ASSUME PoolInv, NEW p \in Pools, NEW source \in {"jupiter_route", "gmgn"},
         NEW status \in Pool!Statuses, NEW life \in 0..Pool!Longest,
         Pool!Upsert(p, Pool!Observed(source, status, life)),
         UNCHANGED <<p_retired, p_lease, p_locked, p_stage, p_listed, p_profile, p_unread>>,
         p_todo' \subseteq Pools, p_routed' \subseteq Pools
  PROVE PoolInv'
<1> DEFINE new == Pool!Observed(source, status, life)
<1>1. DOMAIN new = {source} /\ new[source] = [status |-> status, left |-> life]
  BY DEF Pool!Observed, Pool!Observation
<1>2. Pool!Upsert(p, new) OBVIOUS
<1> HIDE DEF new
<1>3. DOMAIN new \subseteq Pool!Sources
      /\ \A s \in DOMAIN new : new[s] \in [status : Pool!Statuses, left : 0..Pool!Longest]
  BY <1>1 DEF Pool!Sources, Pool!Hard
<1>4. /\ p_obs' \in [Pools -> Observations]
      /\ p_row' \in [Pools -> [openable : BOOLEAN, left : 0..Pool!Longest]]
      /\ \A q \in Pools : RowFollows(q)'
      /\ \A q \in Pools \ {p} : p_obs'[q] = p_obs[q] /\ p_row'[q] = p_row[q]
      /\ \A s \in Pool!Sources : p_obs'[p][s] = IF s \in DOMAIN new THEN new[s] ELSE p_obs[p][s]
      /\ p_row'[p] = Pool!Derive(p_obs'[p])
  BY <1>2, <1>3, UpsertRows
<1>5. Pool!PoolTypeOK BY DEF PoolInv
<1>6. Pool!PoolTypeOK' BY <1>4, <1>5 DEF Pool!PoolTypeOK, Observations
<1>7. ASSUME NEW q \in Pools PROVE FineIsFree(q)' BY DEF PoolInv, FineIsFree
<1>8. ASSUME NEW q \in Pools PROVE BlockHolds(q)'
  <2>1. BlockHolds(q) BY DEF PoolInv
  <2>2. CASE q # p BY <1>4, <2>1, <2>2 DEF BlockHolds
  <2>3. ASSUME q = p, p_retired[p] > 0, p \notin p_unread PROVE BlockHolds(p)'
    <3>1. p_obs'[p]["meteora"] = p_obs[p]["meteora"]
          /\ p_obs'[p]["pool_fee_yield"] = p_obs[p]["pool_fee_yield"]
      BY <1>1, <1>4 DEF Pool!Sources, Pool!Hard
    <3>2. /\ p_obs'[p]["pool_fee_yield"].status = "blocked"
          /\ p_obs'[p]["meteora"].left <= p_obs'[p]["pool_fee_yield"].left
      BY <2>1, <2>3, <3>1 DEF BlockHolds
    <3>3. p_obs'[p] \in Observations BY <1>4
    <3>4. ~p_row'[p].openable BY <1>4, <3>2, <3>3, DerivedRow
    <3> QED BY <3>2, <3>4 DEF BlockHolds
  <2>4. CASE ~(p_retired[p] > 0 /\ p \notin p_unread) BY <2>2, <2>4 DEF BlockHolds
  <2> QED BY <2>2, <2>3, <2>4
<1> QED BY <1>4, <1>6, <1>7, <1>8 DEF PoolInv

\* A step that leaves the observations and the rows alone, and puts every pool it retires
\* among those not listed since.
LEMMA RetiringKeeps ==
  ASSUME PoolInv, UNCHANGED <<p_obs, p_row>>, Pool!PoolTypeOK',
         \A p \in Pools : /\ p_profile'[p] = "fine" => p_retired'[p] = 0
                          /\ p_retired'[p] > 0 /\ p \notin p_unread'
                             => p_retired[p] > 0 /\ p \notin p_unread
  PROVE PoolInv'
<1>1. ASSUME NEW q \in Pools PROVE RowFollows(q)' /\ BlockHolds(q)' /\ FineIsFree(q)'
  <2>1. RowFollows(q) /\ BlockHolds(q) BY DEF PoolInv
  <2>2. RowFollows(q)' BY <2>1 DEF RowFollows
  <2>3. BlockHolds(q)' BY <2>1 DEF BlockHolds
  <2>4. FineIsFree(q)' BY DEF FineIsFree
  <2> QED BY <2>2, <2>3, <2>4
<1> QED BY <1>1 DEF PoolInv

LEMMA FetchKeeps == ASSUME PoolInv, Pool!Fetch PROVE PoolInv'
<1>1. PICK found \in SUBSET Pools, sampled \in SUBSET Pools, drained \in SUBSET Pools :
       /\ drained \subseteq sampled
       /\ p_listed' = found /\ p_todo' = found
       /\ p_profile' = [p \in Pools |->
            IF p \notin sampled THEN "none"
            ELSE IF p \in drained \/ p_retired[p] > 0 THEN "drained" ELSE "fine"]
       /\ p_retired' = [p \in Pools |->
            IF p \in drained /\ p_retired[p] = 0 THEN Retirement ELSE p_retired[p]]
       /\ p_unread' = p_unread \cup {p \in drained : p_retired[p] = 0}
  BY DEF Pool!Fetch
<1>2. Pool!PoolTypeOK BY DEF PoolInv
<1>3. UNCHANGED <<p_obs, p_row, p_lease, p_locked, p_routed>> /\ p_stage' = "listing"
  BY DEF Pool!Fetch
<1>4. \A p \in Pools : p_retired[p] \in 0..Retirement /\ Retirement \in Nat
  BY <1>2, Assumptions DEF Pool!PoolTypeOK, Pool!PoolAssumption
<1>5. p_retired' \in [Pools -> 0..Retirement] BY <1>1, <1>4
<1>6. p_profile' \in [Pools -> {"none", "fine", "drained"}] BY <1>1
<1>7. p_unread' \subseteq Pools BY <1>1, <1>2 DEF Pool!PoolTypeOK
<1>8. Pool!PoolTypeOK'
  BY <1>1, <1>2, <1>3, <1>5, <1>6, <1>7 DEF Pool!PoolTypeOK, Pool!Stages
<1>9. ASSUME NEW p \in Pools
      PROVE /\ p_profile'[p] = "fine" => p_retired'[p] = 0
            /\ p_retired'[p] > 0 /\ p \notin p_unread' => p_retired[p] > 0 /\ p \notin p_unread
  BY <1>1, <1>4
<1> QED BY <1>3, <1>8, <1>9, RetiringKeeps

\* Everything gets older by one unit.
LEMMA TimePassesKeeps == ASSUME PoolInv, Pool!TimePasses PROVE PoolInv'
<1>1. Pool!PoolTypeOK BY DEF PoolInv
<1>2. /\ p_obs' = [p \in Pools |-> [s \in Pool!Sources |->
                    [p_obs[p][s] EXCEPT !.left = Pool!Less(p_obs[p][s].left)]]]
      /\ p_row' = [p \in Pools |-> [p_row[p] EXCEPT !.left = Pool!Less(p_row[p].left)]]
      /\ p_retired' = [p \in Pools |-> Pool!Less(p_retired[p])]
      /\ p_lease' = Pool!Less(p_lease)
      /\ p_unread' = {p \in p_unread : p_retired'[p] > 0}
      /\ UNCHANGED <<p_locked, p_stage, p_todo, p_listed, p_profile, p_routed>>
  BY DEF Pool!TimePasses, Pool!worker
<1>3. \A bound \in Nat : \A n \in 0..bound : Pool!Less(n) \in 0..bound /\ Pool!Less(n) <= n
  BY DEF Pool!Less
<1>4. \A m, n \in Nat : m <= n => Pool!Less(m) <= Pool!Less(n) BY DEF Pool!Less
<1>5. /\ {Stale, GmgnTtl, Lease, Retirement} \subseteq Nat /\ Pool!Longest \in Nat
  BY LongestLives, Assumptions DEF Pool!PoolAssumption
<1>6. \A p \in Pools : \A s \in Pool!Sources :
        p_obs[p][s] \in [status : Pool!Statuses, left : 0..Pool!Longest]
  BY <1>1 DEF Pool!PoolTypeOK
<1>7. \A p \in Pools : \A s \in Pool!Sources :
        /\ p_obs'[p][s] \in [status : Pool!Statuses, left : 0..Pool!Longest]
        /\ p_obs'[p][s].status = p_obs[p][s].status
        /\ p_obs'[p][s].left = Pool!Less(p_obs[p][s].left)
  BY <1>2, <1>3, <1>5, <1>6
<1>8. \A p \in Pools : p_row[p] \in [openable : BOOLEAN, left : 0..Pool!Longest]
  BY <1>1 DEF Pool!PoolTypeOK
<1>9. \A p \in Pools :
        /\ p_row'[p] \in [openable : BOOLEAN, left : 0..Pool!Longest]
        /\ p_row'[p].openable = p_row[p].openable
        /\ p_row'[p].left = Pool!Less(p_row[p].left)
  BY <1>2, <1>3, <1>5, <1>8
<1>10. \A p \in Pools : /\ p_retired[p] \in 0..Retirement
                        /\ p_retired'[p] = Pool!Less(p_retired[p])
  BY <1>1, <1>2 DEF Pool!PoolTypeOK
<1>11. Pool!PoolTypeOK'
  <2>1. p_obs' \in [Pools -> [Pool!Sources -> [status : Pool!Statuses, left : 0..Pool!Longest]]]
    BY <1>2, <1>7
  <2>2. p_row' \in [Pools -> [openable : BOOLEAN, left : 0..Pool!Longest]] BY <1>2, <1>9
  <2>3. p_retired' \in [Pools -> 0..Retirement] BY <1>2, <1>3, <1>5, <1>10
  <2>4. p_lease' \in 0..Lease BY <1>1, <1>2, <1>3, <1>5 DEF Pool!PoolTypeOK
  <2> QED BY <1>1, <1>2, <2>1, <2>2, <2>3, <2>4 DEF Pool!PoolTypeOK
<1>12. ASSUME NEW p \in Pools PROVE RowFollows(p)' /\ BlockHolds(p)' /\ FineIsFree(p)'
  <2>1. RowFollows(p) /\ BlockHolds(p) /\ FineIsFree(p) BY DEF PoolInv
  <2>2. RowFollows(p)'
    <3>1. ASSUME NEW s \in Pool!Hard
          PROVE /\ p_row'[p].left <= p_obs'[p][s].left
                /\ p_row'[p].openable => p_obs'[p][s].status = "passed"
      <4>1. s \in Pool!Sources BY DEF Pool!Sources
      <4>2. p_row[p].left \in Nat /\ p_obs[p][s].left \in Nat /\ p_row[p].left <= p_obs[p][s].left
        BY <1>5, <1>6, <1>8, <2>1, <4>1 DEF RowFollows
      <4> QED BY <1>4, <1>7, <1>9, <2>1, <4>1, <4>2 DEF RowFollows
    <3> QED BY <3>1 DEF RowFollows
  <2>3. BlockHolds(p)'
    <3>1. p_retired'[p] > 0 => p_retired[p] > 0 BY <1>5, <1>10 DEF Pool!Less
    <3>2. p_retired'[p] > 0 /\ p \notin p_unread' => p \notin p_unread BY <1>2
    <3>3. {"meteora", "pool_fee_yield"} \subseteq Pool!Sources BY DEF Pool!Sources, Pool!Hard
    <3>4. p_obs[p]["meteora"].left \in Nat /\ p_obs[p]["pool_fee_yield"].left \in Nat
      BY <1>5, <1>6, <3>3
    <3> QED BY <1>4, <1>7, <1>9, <2>1, <3>1, <3>2, <3>3, <3>4 DEF BlockHolds
  <2>4. FineIsFree(p)' BY <1>2, <1>10, <2>1 DEF FineIsFree, Pool!Less
  <2> QED BY <2>2, <2>3, <2>4
<1> QED BY <1>11, <1>12 DEF PoolInv

\* The other steps: none retires a pool or writes what openable rows are derived from.
LEMMA MarkMissingKeeps == ASSUME PoolInv, Pool!MarkMissing PROVE PoolInv'
<1>1. Pool!PoolTypeOK BY DEF PoolInv
<1>2. /\ p_row' = [p \in Pools |->
           IF p \in p_listed THEN p_row[p] ELSE [p_row[p] EXCEPT !.openable = FALSE]]
      /\ p_stage' = "safety" /\ p_todo' = p_routed
      /\ UNCHANGED <<p_obs, p_retired, p_lease, p_locked, p_listed, p_profile, p_routed, p_unread>>
  BY DEF Pool!MarkMissing, Pool!Free
<1>3. \A p \in Pools : /\ p_row'[p] \in [openable : BOOLEAN, left : 0..Pool!Longest]
                       /\ p_row'[p].left = p_row[p].left
                       /\ p_row'[p].openable => p_row[p].openable
  BY <1>1, <1>2 DEF Pool!PoolTypeOK
<1>4. p_row' \in [Pools -> [openable : BOOLEAN, left : 0..Pool!Longest]]
  <2>1. p_row' = [p \in Pools |-> p_row'[p]] BY <1>2
  <2> QED BY <1>3, <2>1
<1>5. Pool!PoolTypeOK' BY <1>1, <1>2, <1>4 DEF Pool!PoolTypeOK, Pool!Stages
<1>6. ASSUME NEW p \in Pools PROVE RowFollows(p)' /\ BlockHolds(p)' /\ FineIsFree(p)'
  <2>1. RowFollows(p) /\ BlockHolds(p) /\ FineIsFree(p) BY DEF PoolInv
  <2> QED BY <1>2, <1>3, <2>1 DEF RowFollows, BlockHolds, FineIsFree
<1> QED BY <1>5, <1>6 DEF PoolInv

LEMMA PoolStep ==
  ASSUME PoolInv, [part = "pool" /\ Pool!Next]_poolVars PROVE PoolInv'
<1> USE DEF PoolInv
<1>1. Pool!PoolTypeOK OBVIOUS
<1>2. 0 \in 0..Lease /\ Lease \in 0..Lease BY Assumptions DEF Pool!PoolAssumption
<1>3. CASE Pool!StartTick
  <2>1. Pool!PoolTypeOK' BY <1>1, <1>2, <1>3 DEF Pool!StartTick, Pool!PoolTypeOK, Pool!Stages
  <2> QED BY <1>3, <2>1, RetiringKeeps DEF Pool!StartTick, FineIsFree
<1>4. CASE Pool!ChooseRoutes
  <2>1. Pool!PoolTypeOK'
    BY <1>1, <1>4 DEF Pool!ChooseRoutes, Pool!Free, Pool!PoolTypeOK, Pool!Stages
  <2> QED BY <1>4, <2>1, RetiringKeeps DEF Pool!ChooseRoutes, FineIsFree
<1>5. ASSUME Pool!FinishTick \/ Pool!FailTick \/ Pool!WorkerDies PROVE PoolInv'
  <2>1. /\ UNCHANGED <<p_obs, p_row, p_retired, p_locked, p_unread>>
        /\ p_lease' \in {0, p_lease, Lease}
        /\ p_stage' = "idle" /\ p_todo' = {} /\ p_listed' = {} /\ p_routed' = {}
        /\ p_profile' = [p \in Pools |-> "none"]
    BY <1>5 DEF Pool!FinishTick, Pool!FailTick, Pool!WorkerDies, Pool!Idle
  <2>2. p_lease' \in 0..Lease BY <1>1, <1>2, <2>1 DEF Pool!PoolTypeOK
  <2>3. Pool!PoolTypeOK' BY <1>1, <2>1, <2>2 DEF Pool!PoolTypeOK, Pool!Stages
  <2> QED BY <2>1, <2>3, RetiringKeeps
<1>6. CASE Pool!Compact
  <2>1. Pool!PoolTypeOK' BY <1>1, <1>6 DEF Pool!Compact, Pool!worker, Pool!PoolTypeOK
  <2> QED BY <1>6, <2>1, RetiringKeeps DEF Pool!Compact, Pool!worker, FineIsFree
<1>7. ASSUME NEW p \in Pools, Pool!RoutePool(p) PROVE PoolInv'
  <2>1. PICK status \in {"passed", "blocked", "failed"} :
          /\ Pool!Upsert(p, Pool!Observed("jupiter_route", status, Stale))
          /\ p_routed' = IF status = "passed" THEN p_routed \cup {p} ELSE p_routed
    BY <1>7 DEF Pool!RoutePool
  <2>2. /\ UNCHANGED <<p_retired, p_lease, p_locked, p_stage, p_listed, p_profile, p_unread>>
        /\ p_todo' = p_todo \ {p}
    BY <1>7 DEF Pool!RoutePool
  <2>3. p_todo' \subseteq Pools /\ p_routed' \subseteq Pools
    BY <1>1, <2>1, <2>2 DEF Pool!PoolTypeOK
  <2>4. status \in Pool!Statuses /\ Stale \in 0..Pool!Longest BY LongestLives DEF Pool!Statuses
  <2> QED BY <2>1, <2>2, <2>3, <2>4, ObserveKeeps
<1>8. ASSUME NEW p \in Pools, Pool!SafetyOf(p) PROVE PoolInv'
  <2>1. /\ UNCHANGED <<p_retired, p_lease, p_locked, p_stage, p_listed, p_profile, p_routed,
                       p_unread>>
        /\ p_todo' = p_todo \ {p}
    BY <1>8 DEF Pool!SafetyOf
  <2>2. p_todo' \subseteq Pools /\ p_routed' \subseteq Pools BY <1>1, <2>1 DEF Pool!PoolTypeOK
  <2>3. CASE UNCHANGED <<p_obs, p_row>>
    <3>1. Pool!PoolTypeOK' BY <1>1, <2>1, <2>2, <2>3 DEF Pool!PoolTypeOK
    <3> QED BY <2>1, <2>3, <3>1, RetiringKeeps DEF FineIsFree
  <2>4. CASE Pool!Upsert(p, Pool!Observed("gmgn", "failed", Stale))
    BY <2>1, <2>2, <2>4, ObserveKeeps, LongestLives DEF Pool!Statuses
  <2>5. ASSUME NEW verdict \in {"passed", "blocked"},
               Pool!Upsert(p, Pool!Observed("gmgn", verdict, GmgnTtl))
        PROVE PoolInv'
    <3>1. verdict \in Pool!Statuses /\ GmgnTtl \in 0..Pool!Longest
      BY LongestLives DEF Pool!Statuses
    <3> QED BY <2>1, <2>2, <2>5, <3>1, ObserveKeeps
  <2> QED BY <1>8, <2>3, <2>4, <2>5 DEF Pool!SafetyOf
<1>9. CASE UNCHANGED poolVars
  <2>1. Pool!PoolTypeOK' BY <1>1, <1>9 DEF poolVars, Pool!PoolTypeOK
  <2> QED BY <1>9, <2>1, RetiringKeeps DEF poolVars, FineIsFree
<1>10. CASE Pool!Fetch BY <1>10, FetchKeeps
<1>11. CASE Pool!MarkMissing BY <1>11, MarkMissingKeeps
<1>12. CASE Pool!TimePasses BY <1>12, TimePassesKeeps
<1>13. ASSUME NEW p \in Pools, Pool!ListPool(p) PROVE PoolInv' BY <1>13, ListPoolKeeps
<1> HIDE DEF PoolInv
<1> QED
  BY <1>3, <1>4, <1>5, <1>6, <1>7, <1>8, <1>9, <1>10, <1>11, <1>12, <1>13 DEF Pool!Next

LEMMA PoolAlways == CompSpec => []PoolInv
<1>1. CompInit => PoolInv BY PoolStarts DEF CompInit
<1>2. PoolInv /\ [CompNext]_all => PoolInv' BY OthersStutter, PoolStep
<1> QED BY <1>1, <1>2, PTL DEF CompSpec

\* Whatever the lives of the observations and the lease, and wherever the worker fails, dies
\* or is held up: a pool offered to the daemon has evidence that is passed and alive.
THEOREM OfferedIsEvidenced == CompSpec => []OfferedHasEvidence
<1>1. PoolInv => OfferedHasEvidence
  <2> SUFFICES ASSUME PoolInv, NEW p \in Pools, Pool!Offered(p), NEW s \in Pool!Hard
               PROVE Pool!Passes(p_obs[p], s)
    BY DEF OfferedHasEvidence, Pool!OfferedHasEvidence
  <2>1. RowFollows(p) BY DEF PoolInv
  <2>2. p_row[p].left \in Nat /\ p_obs[p][s].left \in Nat
    BY LongestLives DEF PoolInv, Pool!PoolTypeOK, Pool!Sources
  <2> QED BY <2>1, <2>2 DEF RowFollows, Pool!Offered, Pool!Passes
<1> QED BY <1>1, PoolAlways, PTL

\* A pool retired for a drain is not offered before its term, once a tick has listed it
\* with its profile, although the observation that blocks it expires long before.
THEOREM RetiredIsOut == CompSpec => []RetiredStaysOut
<1>1. PoolInv => RetiredStaysOut
  BY DEF PoolInv, RetiredStaysOut, Pool!RetiredStaysOut, Pool!Offered, BlockHolds
<1> QED BY <1>1, PoolAlways, PTL

-----------------------------------------------------------------------------
(* RpcEndpoints.                                                           *)

EndpointStates == [cooldown : Int, next : Int, inFlight : Int, strikes : Int, struck : Int]
CallStates == [at : {"idle", "running", "waiting"}, on : Nat, age : Nat, earliest : Nat,
               left : Nat, timer : Nat]

\* An endpoint that was not used for idle ticks is not to be used before its interval is over.
Paced(s, idle) == idle >= MinInterval \/ idle + s.next >= MinInterval

RpcInv ==
  /\ e_endpoint \in [Endpoints -> EndpointStates]
  /\ e_call \in [Rpc!Calls -> CallStates]
  /\ \A c \in Rpc!Calls : e_call[c].at = "running" => e_call[c].on \in 1..Len(Candidates[c])
  /\ e_idleFor \in [Endpoints -> Nat]
  /\ \A e \in Endpoints : Paced(e_endpoint[e], e_idleFor[e])

LEMMA RpcConstants ==
  /\ MinInterval \in Nat /\ RateCooldown \in Nat /\ TimeoutCooldown \in Nat
  /\ MaxWait \in Nat /\ Decay \in Nat /\ MaxRun \in Nat /\ MaxMultiplier \in Nat
  /\ MaxConcurrency \in Nat
  /\ Rpc!MaxAge \in Nat /\ Rpc!Never \in Nat
  /\ \A c \in Rpc!Calls : Candidates[c] \in Seq(Endpoints)
<1>1. Rpc!EndpointsAssumption BY Assumptions
<1>2. Rpc!Cardinality(Endpoints) \in Nat
  <2>1. Rpc!Cardinality(Endpoints) = Cardinality(Endpoints) BY DEF Rpc!Cardinality, Cardinality
  <2>2. IsFiniteSet(Endpoints)
    BY <1>1 DEF Rpc!EndpointsAssumption, Rpc!IsFiniteSet, IsFiniteSet
  <2> QED BY <2>1, <2>2, FS_CardinalityType
<1>3. \A m, n \in Nat : m * n \in Nat OBVIOUS
<1>4. /\ MinInterval \in Nat /\ RateCooldown \in Nat /\ TimeoutCooldown \in Nat
      /\ MaxWait \in Nat /\ Decay \in Nat /\ MaxRun \in Nat /\ MaxMultiplier \in Nat
      /\ MaxConcurrency \in Nat
  BY <1>1 DEF Rpc!EndpointsAssumption
<1>5. MaxMultiplier * RateCooldown \in Nat BY <1>3, <1>4
<1>6. Rpc!MaxAge \in Nat BY <1>2, <1>3, <1>4 DEF Rpc!MaxAge
<1>7. Rpc!Never \in Nat
  <2> DEFINE product == MaxMultiplier * RateCooldown
  <2>1. product \in Nat BY <1>5
  <2> HIDE DEF product
  <2>2. MaxWait + 1 + product + TimeoutCooldown + MinInterval \in Nat BY <1>4, <2>1
  <2> QED BY <2>2 DEF Rpc!Never, product
<1> QED BY <1>1, <1>4, <1>6, <1>7 DEF Rpc!EndpointsAssumption, Rpc!Calls

LEMMA GreaterOfTwo ==
  ASSUME NEW m \in Int, NEW n \in Int PROVE Rpc!Max({m, n}) = IF m >= n THEN m ELSE n
<1> DEFINE top == IF m >= n THEN m ELSE n
<1>1. top \in {m, n} /\ \A x \in {m, n} : top >= x OBVIOUS
<1>2. \A y \in {m, n} : (\A x \in {m, n} : y >= x) => y = top OBVIOUS
<1> HIDE DEF top
<1>3. Rpc!Max({m, n}) = top BY <1>1, <1>2, Zenon DEF Rpc!Max
<1> QED BY <1>3 DEF top

LEMMA LeastOfAll ==
  ASSUME NEW S \in SUBSET Nat, S # {}
  PROVE Rpc!Min(S) \in S /\ \A n \in S : Rpc!Min(S) <= n
BY LeastNumber DEF Rpc!Min

\* One field of a state at a time.
LEMMA OneField ==
  ASSUME NEW s \in EndpointStates, NEW n \in Int
  PROVE /\ [s EXCEPT !.cooldown = n] \in EndpointStates /\ [s EXCEPT !.next = n] \in EndpointStates
        /\ [s EXCEPT !.inFlight = n] \in EndpointStates /\ [s EXCEPT !.strikes = n] \in EndpointStates
        /\ [s EXCEPT !.struck = n] \in EndpointStates
        /\ [s EXCEPT !.next = n].next = n /\ [s EXCEPT !.next = n].inFlight = s.inFlight
        /\ [s EXCEPT !.inFlight = n].inFlight = n /\ [s EXCEPT !.inFlight = n].next = s.next
        /\ [s EXCEPT !.cooldown = n].next = s.next /\ [s EXCEPT !.cooldown = n].inFlight = s.inFlight
        /\ [s EXCEPT !.strikes = n].next = s.next /\ [s EXCEPT !.strikes = n].inFlight = s.inFlight
        /\ [s EXCEPT !.struck = n].next = s.next /\ [s EXCEPT !.struck = n].inFlight = s.inFlight
BY DEF EndpointStates

LEMMA StartedState ==
  ASSUME NEW s \in EndpointStates
  PROVE /\ Rpc!Started(s) \in EndpointStates /\ Rpc!Started(s).next >= MinInterval
        /\ Rpc!Started(s).next \in Int
<1> DEFINE next == Rpc!Max({s.next, MinInterval})
           paced == [s EXCEPT !.next = next]
<1>1. next \in Int /\ next >= MinInterval
  <2> DEFINE was == s.next
  <2>1. was \in Int BY DEF EndpointStates
  <2> HIDE DEF was
  <2>2. Rpc!Max({was, MinInterval}) = IF was >= MinInterval THEN was ELSE MinInterval
    BY <2>1, RpcConstants, GreaterOfTwo
  <2> QED BY <2>1, <2>2, RpcConstants DEF was
<1> HIDE DEF next
<1>2. paced \in EndpointStates /\ paced.next = next /\ paced.inFlight = s.inFlight BY <1>1, OneField
<1> HIDE DEF paced
<1>3. [paced EXCEPT !.inFlight = paced.inFlight + 1] \in EndpointStates
      /\ [paced EXCEPT !.inFlight = paced.inFlight + 1].next = next
  <2> DEFINE n == paced.inFlight + 1
  <2>1. n \in Int BY <1>2 DEF EndpointStates
  <2> HIDE DEF n
  <2>2. [paced EXCEPT !.inFlight = n] \in EndpointStates
        /\ [paced EXCEPT !.inFlight = n].next = paced.next
    BY <1>2, <2>1, OneField
  <2> QED BY <1>2, <2>2 DEF n
<1>4. Rpc!Started(s) = [paced EXCEPT !.inFlight = paced.inFlight + 1]
  BY <1>2 DEF Rpc!Started, paced, next
<1> QED BY <1>1, <1>3, <1>4

\* A pass starts a call on an endpoint only when its interval is over.
LEMMA PassKeeps ==
  ASSUME RpcInv, NEW c \in Rpc!Calls, NEW es \in [Endpoints -> EndpointStates],
         \A e \in Endpoints : es[e].next = e_endpoint[e].next,
         NEW from \in Nat \ {0}, NEW age \in Nat, NEW earliest \in Nat, NEW left \in Nat,
         Rpc!Pass(c, es, from, age, earliest, left)
  PROVE /\ RpcInv'
        /\ \A e \in Endpoints :
             e_endpoint'[e].inFlight > es[e].inFlight => e_idleFor[e] >= MinInterval
<1> DEFINE list == Candidates[c]
           usable == {i \in from..Len(list) : Rpc!Usable(es[list[i]], age)}
           stop == Rpc!Min(usable \cup {Len(list) + 1})
           waits == {earliest} \cup {Rpc!ReadyIn(es[list[i]], age) : i \in from..stop - 1}
           seen == Rpc!Min(waits)
           passed == [Rpc!Idle EXCEPT !.age = age, !.earliest = seen, !.left = left]
<1>1. list \in Seq(Endpoints) /\ Len(list) \in Nat BY RpcConstants
<1>2. usable \cup {Len(list) + 1} \in SUBSET Nat BY <1>1
<1>3. stop \in usable \cup {Len(list) + 1} /\ \A i \in usable : stop <= i
  <2> HIDE DEF usable
  <2> QED BY <1>2, LeastOfAll
<1>4. usable # {} => stop \in usable BY <1>1, <1>3
<1>5. stop \in 1..Len(list) + 1 BY <1>1, <1>3
<1>6. \A i \in from..stop - 1 : list[i] \in Endpoints BY <1>1, <1>5
<1>7. \A s \in EndpointStates : Rpc!ReadyIn(s, age) \in Nat
  <2>1. \A t \in Int : Rpc!FromNow(t) \in Nat
    <3> SUFFICES ASSUME NEW t \in Int PROVE Rpc!FromNow(t) \in Nat OBVIOUS
    <3>1. Rpc!FromNow(t) = IF 0 >= t THEN 0 ELSE t BY GreaterOfTwo DEF Rpc!FromNow
    <3> QED BY <3>1
  <2> QED BY <2>1 DEF Rpc!ReadyIn, EndpointStates
<1> HIDE DEF usable, stop
<1>8. waits \in SUBSET Nat /\ waits # {} BY <1>6, <1>7
<1> HIDE DEF waits
<1>9. seen \in Nat BY <1>8, LeastOfAll
<1> HIDE DEF seen
<1>10. passed \in CallStates /\ passed.at = "idle"
  <2> DEFINE aged == [Rpc!Idle EXCEPT !.age = age]
             informed == [aged EXCEPT !.earliest = seen]
  <2>1. aged \in CallStates /\ aged.at = "idle" BY RpcConstants DEF Rpc!Idle, CallStates
  <2> HIDE DEF aged
  <2>2. informed \in CallStates /\ informed.at = "idle" BY <1>9, <2>1 DEF CallStates
  <2> HIDE DEF informed
  <2>3. [informed EXCEPT !.left = left] \in CallStates
        /\ [informed EXCEPT !.left = left].at = "idle"
    BY <2>2 DEF CallStates
  <2> QED BY <2>3 DEF informed, aged
<1> HIDE DEF passed
<1>12. CASE usable # {}
  <2>1. /\ e_endpoint' = [es EXCEPT ![list[stop]] = Rpc!Started(@)]
        /\ e_call' = [e_call EXCEPT ![c] = [passed EXCEPT !.at = "running", !.on = stop]]
        /\ e_idleFor' = [e_idleFor EXCEPT ![list[stop]] = 0]
    BY <1>12 DEF Rpc!Pass, usable, stop, waits, seen, passed
  <2>2. stop \in 1..Len(list) /\ list[stop] \in Endpoints /\ Rpc!Usable(es[list[stop]], age)
    BY <1>1, <1>4, <1>12 DEF usable
  <2> DEFINE e == list[stop]
  <2>3. es[e] \in EndpointStates /\ es[e].next \in Int /\ es[e].inFlight \in Int
    BY <2>2 DEF EndpointStates
  <2> HIDE DEF e
  <2>7. /\ Rpc!Started(es[e]) \in EndpointStates /\ Rpc!Started(es[e]).next >= MinInterval
        /\ Rpc!Started(es[e]).next \in Int
    BY <2>3, StartedState
  <2>8. e \in Endpoints /\ e_endpoint' = [es EXCEPT ![e] = Rpc!Started(@)]
        /\ e_idleFor' = [e_idleFor EXCEPT ![e] = 0]
    BY <2>1, <2>2 DEF e
  <2>9. e_endpoint' \in [Endpoints -> EndpointStates] BY <2>7, <2>8
  <2>10. [passed EXCEPT !.at = "running", !.on = stop] \in CallStates
         /\ [passed EXCEPT !.at = "running", !.on = stop].on = stop
    <3> DEFINE runs == [passed EXCEPT !.at = "running"]
    <3>1. runs \in CallStates BY <1>10 DEF CallStates
    <3> HIDE DEF runs
    <3>2. [runs EXCEPT !.on = stop] \in CallStates /\ [runs EXCEPT !.on = stop].on = stop
      BY <1>1, <2>2, <3>1 DEF CallStates
    <3> QED BY <3>2 DEF runs
  <2>11. e_call' \in [Rpc!Calls -> CallStates] BY <2>1, <2>10 DEF RpcInv
  <2>12. ASSUME NEW d \in Rpc!Calls, e_call'[d].at = "running"
         PROVE e_call'[d].on \in 1..Len(Candidates[d])
    BY <2>1, <2>2, <2>10, <2>12 DEF RpcInv
  <2>13. e_idleFor' \in [Endpoints -> Nat] BY <2>8 DEF RpcInv
  <2>14. ASSUME NEW f \in Endpoints PROVE Paced(e_endpoint'[f], e_idleFor'[f])
    <3>1. CASE f = e
      <4>1. e_endpoint'[f] = Rpc!Started(es[e]) /\ e_idleFor'[f] = 0 BY <2>8, <3>1 DEF RpcInv
      <4> QED BY <2>7, <4>1, RpcConstants DEF Paced
    <3>2. CASE f # e BY <2>8, <3>2 DEF RpcInv, Paced
    <3> QED BY <3>1, <3>2
  <2>15. e_idleFor[e] >= MinInterval
    <3>1. es[e].next <= 0
      <4>1. es[e].next + age <= 0 BY <2>2 DEF Rpc!Usable, e
      <4> QED BY <2>3, <4>1
    <3>2. Paced(es[e], e_idleFor[e]) /\ e_idleFor[e] \in Nat BY <2>8 DEF RpcInv, Paced
    <3> QED BY <2>3, <3>1, <3>2, RpcConstants DEF Paced
  <2>16. \A f \in Endpoints \ {e} : e_endpoint'[f].inFlight = es[f].inFlight /\ es[f].inFlight \in Int
    BY <2>8 DEF EndpointStates
  <2>17. RpcInv' BY <2>9, <2>11, <2>12, <2>13, <2>14 DEF RpcInv
  <2>18. ASSUME NEW f \in Endpoints, e_endpoint'[f].inFlight > es[f].inFlight
         PROVE e_idleFor[f] >= MinInterval
    BY <2>15, <2>16, <2>18
  <2> QED BY <2>17, <2>18
<1>13. CASE usable = {}
  <2>1. /\ e_endpoint' = es /\ UNCHANGED e_idleFor
        /\ e_call' = [e_call EXCEPT ![c] = Rpc!WaitOrGiveUp(passed, Rpc!Min({seen, left}))]
    BY <1>13 DEF Rpc!Pass, usable, stop, waits, seen, passed
  <2>2. Rpc!Min({seen, left}) \in Nat
    <3>1. {seen, left} \in SUBSET Nat /\ {seen, left} # {} BY <1>9
    <3> QED BY <3>1, LeastOfAll
  <2>3. Rpc!WaitOrGiveUp(passed, Rpc!Min({seen, left})) \in CallStates
        /\ Rpc!WaitOrGiveUp(passed, Rpc!Min({seen, left})).at # "running"
    <3> DEFINE until == Rpc!Min({seen, left})
               waiting == [passed EXCEPT !.at = "waiting"]
    <3> HIDE DEF until
    <3>1. waiting \in CallStates /\ waiting.at = "waiting" BY <1>10 DEF CallStates
    <3> HIDE DEF waiting
    <3>2. [waiting EXCEPT !.timer = until] \in CallStates
          /\ [waiting EXCEPT !.timer = until].at = "waiting"
      BY <2>2, <3>1 DEF CallStates, until
    <3>3. Rpc!Idle \in CallStates /\ Rpc!Idle.at = "idle" BY RpcConstants DEF Rpc!Idle, CallStates
    <3>4. Rpc!WaitOrGiveUp(passed, until)
            = IF until <= 0 THEN Rpc!Idle ELSE [waiting EXCEPT !.timer = until]
      BY DEF Rpc!WaitOrGiveUp, waiting
    <3> QED BY <3>2, <3>3, <3>4 DEF until
  <2>4. e_call' \in [Rpc!Calls -> CallStates] BY <2>1, <2>3 DEF RpcInv
  <2>5. \A d \in Rpc!Calls : e_call'[d].at = "running" => e_call'[d].on \in 1..Len(Candidates[d])
    BY <2>1, <2>3 DEF RpcInv
  <2>6. \A e \in Endpoints : Paced(e_endpoint'[e], e_idleFor'[e]) BY <2>1 DEF RpcInv, Paced
  <2>7. \A e \in Endpoints : ~(e_endpoint'[e].inFlight > es[e].inFlight)
    BY <2>1 DEF EndpointStates
  <2> QED BY <2>1, <2>4, <2>5, <2>6, <2>7 DEF RpcInv
<1> QED BY <1>12, <1>13

LEMMA RpcStarts == Rpc!Init => RpcInv
<1> SUFFICES ASSUME Rpc!Init PROVE RpcInv OBVIOUS
<1>1. e_endpoint \in [Endpoints -> EndpointStates]
  BY RpcConstants DEF Rpc!Init, EndpointStates
<1>2. e_call \in [Rpc!Calls -> CallStates] BY RpcConstants DEF Rpc!Init, Rpc!Idle, CallStates
<1> QED BY <1>1, <1>2, RpcConstants DEF Rpc!Init, Rpc!Idle, RpcInv, Paced

\* What an attempt that ended makes of its endpoint: one call less, and the pacing as it was.
LEMMA AfterAttempt ==
  ASSUME NEW s \in EndpointStates,
         NEW after \in {Rpc!Ended(s), Rpc!Succeeded(s), Rpc!TimedOut(s), Rpc!RateLimited(s)}
  PROVE after \in EndpointStates /\ after.next = s.next /\ after.inFlight = s.inFlight - 1
<1>1. Rpc!Ended(s) \in EndpointStates /\ Rpc!Ended(s).next = s.next
      /\ Rpc!Ended(s).inFlight = s.inFlight - 1
      /\ Rpc!Ended(s).cooldown = s.cooldown
  BY DEF EndpointStates, Rpc!Ended
<1> DEFINE t == Rpc!Ended(s)
<1> HIDE DEF t
<1>2. t \in EndpointStates /\ t.next = s.next /\ t.inFlight = s.inFlight - 1 BY <1>1 DEF t
<1>3. CASE after = Rpc!Ended(s) BY <1>1, <1>3
<1>4. CASE after = Rpc!Succeeded(s)
  <2> DEFINE decayed == s.struck > Decay
             strikes == IF decayed THEN 0 ELSE t.strikes
             struck == IF decayed THEN -1 ELSE t.struck
  <2>1. after = [t EXCEPT !.cooldown = -Rpc!MaxAge, !.strikes = strikes, !.struck = struck]
    BY <1>4, <1>2 DEF Rpc!Succeeded, t
  <2>2. strikes \in Int /\ struck \in Int BY <1>2 DEF EndpointStates
  <2> HIDE DEF strikes, struck
  <2> DEFINE cool == -Rpc!MaxAge
             t1 == [t EXCEPT !.cooldown = cool]
             t2 == [t1 EXCEPT !.strikes = strikes]
  <2>3. cool \in Int BY RpcConstants
  <2> HIDE DEF cool
  <2>4. t1 \in EndpointStates /\ t1.next = t.next /\ t1.inFlight = t.inFlight
    BY <1>2, <2>3, OneField
  <2> HIDE DEF t1
  <2>5. t2 \in EndpointStates /\ t2.next = t.next /\ t2.inFlight = t.inFlight
    BY <2>2, <2>4, OneField
  <2> HIDE DEF t2
  <2>6. /\ [t2 EXCEPT !.struck = struck] \in EndpointStates
        /\ [t2 EXCEPT !.struck = struck].next = t.next
        /\ [t2 EXCEPT !.struck = struck].inFlight = t.inFlight
    BY <2>2, <2>5, OneField
  <2>7. after = [t2 EXCEPT !.struck = struck] BY <2>1 DEF t2, t1, cool
  <2> QED BY <1>2, <2>6, <2>7
<1>5. CASE after = Rpc!TimedOut(s)
  <2> DEFINE was == t.cooldown
             cool == Rpc!Max({was, TimeoutCooldown})
  <2>1. was \in Int BY <1>2 DEF EndpointStates
  <2>2. after = [t EXCEPT !.cooldown = cool]
    BY <1>2, <1>5 DEF Rpc!TimedOut, t, EndpointStates
  <2> HIDE DEF was
  <2>3. cool = IF was >= TimeoutCooldown THEN was ELSE TimeoutCooldown
    BY <2>1, RpcConstants, GreaterOfTwo
  <2>4. cool \in Int BY <2>1, <2>3, RpcConstants
  <2> HIDE DEF cool
  <2> QED BY <1>2, <2>2, <2>4, OneField
<1>6. CASE after = Rpc!RateLimited(s)
  <2> DEFINE more == 1 + (IF s.struck > Decay THEN 0 ELSE s.strikes)
             strikes == Rpc!Min({MaxMultiplier, more})
  <2>1. more \in Int BY DEF EndpointStates
  <2>2. strikes \in Int
    <3>1. \E x \in {MaxMultiplier, more} : \A y \in {MaxMultiplier, more} : x <= y
      BY <2>1, RpcConstants
    <3>2. strikes \in {MaxMultiplier, more} BY <3>1, Zenon DEF Rpc!Min
    <3> QED BY <2>1, <3>2, RpcConstants
  <2> HIDE DEF strikes, more
  <2>3. strikes * RateCooldown \in Int BY <2>2, RpcConstants
  <2> DEFINE term == strikes * RateCooldown
             was == t.cooldown
             cool == Rpc!Max({was, term})
             t1 == [t EXCEPT !.strikes = strikes]
             t2 == [t1 EXCEPT !.struck = 0]
  <2>4. was \in Int BY <1>2 DEF EndpointStates
  <2>5. term \in Int BY <2>3
  <2> HIDE DEF term, was
  <2>6. cool = IF was >= term THEN was ELSE term BY <2>4, <2>5, GreaterOfTwo
  <2>7. cool \in Int BY <2>4, <2>5, <2>6
  <2> HIDE DEF cool
  <2>8. t1 \in EndpointStates /\ t1.next = t.next /\ t1.inFlight = t.inFlight
    BY <1>2, <2>2, OneField
  <2> HIDE DEF t1
  <2>9. t2 \in EndpointStates /\ t2.next = t.next /\ t2.inFlight = t.inFlight
    <3>1. 0 \in Int OBVIOUS
    <3> QED BY <2>8, <3>1, OneField
  <2> HIDE DEF t2
  <2>10. /\ [t2 EXCEPT !.cooldown = cool] \in EndpointStates
         /\ [t2 EXCEPT !.cooldown = cool].next = t.next
         /\ [t2 EXCEPT !.cooldown = cool].inFlight = t.inFlight
    BY <2>7, <2>9, OneField
  <2>11. t2.cooldown = was
    <3>1. t1.cooldown = t.cooldown BY <1>2 DEF t1, EndpointStates
    <3>2. t2.cooldown = t1.cooldown BY <2>8 DEF t2, EndpointStates
    <3> QED BY <3>1, <3>2 DEF was
  <2>12. after = [t2 EXCEPT !.cooldown = Rpc!Max({t2.cooldown, term})]
    BY <1>6, <2>8, <2>9 DEF Rpc!RateLimited, t, t1, t2, strikes, more, term
  <2>13. after = [t2 EXCEPT !.cooldown = cool] BY <2>11, <2>12 DEF cool
  <2> QED BY <1>2, <2>10, <2>13
<1> QED BY <1>3, <1>4, <1>5, <1>6

\* The end of an attempt may lead on to the next candidate, whose endpoint is then started.
LEMMA FailKeeps ==
  ASSUME RpcInv, NEW c \in Rpc!Calls, Rpc!Fail(c)
  PROVE /\ RpcInv'
        /\ \A e \in Endpoints :
             e_endpoint'[e].inFlight > e_endpoint[e].inFlight => e_idleFor[e] >= MinInterval
<1> DEFINE on == Rpc!OnOf(c)
           s == e_endpoint[on]
<1>1. PICK after \in {Rpc!TimedOut(s), Rpc!RateLimited(s)} :
        Rpc!Pass(c, [e_endpoint EXCEPT ![on] = after], e_call[c].on + 1, e_call[c].age,
                 e_call[c].earliest, e_call[c].left)
  BY DEF Rpc!Fail
<1>2. e_call[c].at = "running" BY DEF Rpc!Fail
<1>3. on \in Endpoints
  <2>1. e_call[c].on \in 1..Len(Candidates[c]) BY <1>2 DEF RpcInv
  <2> QED BY <2>1, RpcConstants DEF Rpc!OnOf
<1> HIDE DEF on
<1>4. s \in EndpointStates BY <1>3 DEF RpcInv
<1> HIDE DEF s
<1>5. after \in EndpointStates /\ after.next = s.next /\ after.inFlight = s.inFlight - 1
      /\ s.inFlight \in Int
  <2>1. after \in {Rpc!Ended(s), Rpc!Succeeded(s), Rpc!TimedOut(s), Rpc!RateLimited(s)}
    BY <1>1
  <2> QED BY <1>4, <2>1, AfterAttempt DEF EndpointStates
<1> DEFINE es == [e_endpoint EXCEPT ![on] = after]
<1>6. es \in [Endpoints -> EndpointStates] BY <1>5 DEF RpcInv
<1>7. \A e \in Endpoints : /\ es[e].next = e_endpoint[e].next
                           /\ es[e].inFlight <= e_endpoint[e].inFlight
                           /\ es[e].inFlight \in Int /\ e_endpoint[e].inFlight \in Int
  <2> SUFFICES ASSUME NEW e \in Endpoints
               PROVE /\ es[e].next = e_endpoint[e].next
                     /\ es[e].inFlight <= e_endpoint[e].inFlight
                     /\ es[e].inFlight \in Int /\ e_endpoint[e].inFlight \in Int
    OBVIOUS
  <2>1. CASE e = on
    <3>1. es[e] = after /\ e_endpoint[e] = s BY <2>1 DEF RpcInv, s
    <3> QED BY <1>5, <3>1
  <2>2. CASE e # on
    <3>1. es[e] = e_endpoint[e] /\ e_endpoint[e] \in EndpointStates BY <2>2 DEF RpcInv
    <3> QED BY <3>1 DEF EndpointStates
  <2> QED BY <2>1, <2>2
<1>8. Rpc!Pass(c, es, e_call[c].on + 1, e_call[c].age, e_call[c].earliest, e_call[c].left)
  BY <1>1
<1> HIDE DEF es
<1>9. /\ e_call[c].on + 1 \in Nat \ {0} /\ e_call[c].age \in Nat
      /\ e_call[c].earliest \in Nat /\ e_call[c].left \in Nat
  BY DEF RpcInv, CallStates
<1> DEFINE from == e_call[c].on + 1
           age == e_call[c].age
           earliest == e_call[c].earliest
           left == e_call[c].left
<1>10. Rpc!Pass(c, es, from, age, earliest, left) BY <1>8
<1>11. from \in Nat \ {0} /\ age \in Nat /\ earliest \in Nat /\ left \in Nat BY <1>9
<1> HIDE DEF from, age, earliest, left
<1>12. /\ RpcInv'
       /\ \A e \in Endpoints :
            e_endpoint'[e].inFlight > es[e].inFlight => e_idleFor[e] >= MinInterval
  BY <1>6, <1>7, <1>10, <1>11, PassKeeps
<1>13. \A e \in Endpoints : e_endpoint'[e].inFlight \in Int BY <1>12 DEF RpcInv, EndpointStates
<1> QED BY <1>7, <1>12, <1>13

LEMMA FirstPassKeeps ==
  ASSUME RpcInv, NEW c \in Rpc!Calls, Rpc!Begin(c) \/ Rpc!Wake(c)
  PROVE /\ RpcInv'
        /\ \A e \in Endpoints :
             e_endpoint'[e].inFlight > e_endpoint[e].inFlight => e_idleFor[e] >= MinInterval
<1> DEFINE es == e_endpoint
           left == e_call[c].left
<1>1. es \in [Endpoints -> EndpointStates] BY DEF RpcInv
<1>2. left \in Nat BY DEF RpcInv, CallStates
<1>3. \/ Rpc!Pass(c, es, 1, 0, Rpc!Never, MaxWait)
      \/ Rpc!Pass(c, es, 1, 0, Rpc!Never, left)
  BY DEF Rpc!Begin, Rpc!Wake
<1>4. \A e \in Endpoints : es[e].next = e_endpoint[e].next OBVIOUS
<1> HIDE DEF left
<1>5. 1 \in Nat \ {0} /\ 0 \in Nat /\ Rpc!Never \in Nat /\ MaxWait \in Nat BY RpcConstants
<1>6. CASE Rpc!Pass(c, es, 1, 0, Rpc!Never, MaxWait) BY <1>1, <1>4, <1>5, <1>6, PassKeeps
<1>7. CASE Rpc!Pass(c, es, 1, 0, Rpc!Never, left) BY <1>1, <1>2, <1>4, <1>5, <1>7, PassKeeps
<1> QED BY <1>3, <1>6, <1>7

LEMMA ReturnKeeps ==
  ASSUME RpcInv, NEW c \in Rpc!Calls, Rpc!Return(c)
  PROVE /\ RpcInv'
        /\ \A e \in Endpoints : ~(e_endpoint'[e].inFlight > e_endpoint[e].inFlight)
<1> DEFINE on == Rpc!OnOf(c)
           s == e_endpoint[on]
<1>1. PICK after \in {Rpc!Ended(s), Rpc!Succeeded(s)} :
        e_endpoint' = [e_endpoint EXCEPT ![on] = after]
  BY DEF Rpc!Return
<1>2. e_call[c].at = "running" /\ e_call' = [e_call EXCEPT ![c] = Rpc!Idle] /\ UNCHANGED e_idleFor
  BY DEF Rpc!Return
<1>3. on \in Endpoints
  <2>1. e_call[c].on \in 1..Len(Candidates[c]) BY <1>2 DEF RpcInv
  <2> QED BY <2>1, RpcConstants DEF Rpc!OnOf
<1> HIDE DEF on
<1>4. s \in EndpointStates BY <1>3 DEF RpcInv
<1> HIDE DEF s
<1>5. after \in EndpointStates /\ after.next = s.next /\ after.inFlight = s.inFlight - 1
      /\ s.inFlight \in Int
  <2>1. after \in {Rpc!Ended(s), Rpc!Succeeded(s), Rpc!TimedOut(s), Rpc!RateLimited(s)}
    BY <1>1
  <2> QED BY <1>4, <2>1, AfterAttempt DEF EndpointStates
<1>6. e_endpoint' \in [Endpoints -> EndpointStates] BY <1>1, <1>5 DEF RpcInv
<1>7. Rpc!Idle \in CallStates /\ Rpc!Idle.at = "idle" BY RpcConstants DEF Rpc!Idle, CallStates
<1>8. e_call' \in [Rpc!Calls -> CallStates] BY <1>2, <1>7 DEF RpcInv
<1>9. \A d \in Rpc!Calls : e_call'[d].at = "running" => e_call'[d].on \in 1..Len(Candidates[d])
  BY <1>2, <1>7 DEF RpcInv
<1>10. \A e \in Endpoints \ {on} : e_endpoint'[e] = e_endpoint[e] /\ e_endpoint[e].inFlight \in Int
  BY <1>1 DEF RpcInv, EndpointStates
<1>11. e_endpoint'[on] = after /\ e_endpoint[on] = s BY <1>1, <1>3 DEF RpcInv, s
<1>12. \A e \in Endpoints : Paced(e_endpoint'[e], e_idleFor'[e])
  BY <1>2, <1>5, <1>10, <1>11 DEF RpcInv, Paced
<1>13. RpcInv' BY <1>2, <1>6, <1>8, <1>9, <1>12 DEF RpcInv
<1> QED BY <1>5, <1>10, <1>11, <1>13

LEMMA LessIsLower ==
  ASSUME NEW t \in Int, NEW floor \in Int
  PROVE Rpc!Less(t, floor) \in Int /\ Rpc!Less(t, floor) >= t - 1 /\ Rpc!Less(t, floor) >= floor
<1>1. t - 1 \in Int OBVIOUS
<1>2. Rpc!Less(t, floor) = IF floor >= t - 1 THEN floor ELSE t - 1
  BY <1>1, GreaterOfTwo DEF Rpc!Less
<1> QED BY <1>2

LEMMA LesserOfTwo ==
  ASSUME NEW m \in Int, NEW n \in Int PROVE Rpc!Min({m, n}) = IF m <= n THEN m ELSE n
<1> DEFINE least == IF m <= n THEN m ELSE n
<1>1. least \in {m, n} /\ \A x \in {m, n} : least <= x OBVIOUS
<1>2. \A y \in {m, n} : (\A x \in {m, n} : y <= x) => y = least OBVIOUS
<1> HIDE DEF least
<1>3. Rpc!Min({m, n}) = least BY <1>1, <1>2, Zenon DEF Rpc!Min
<1> QED BY <1>3 DEF least

\* One field of a call at a time.
LEMMA OneCallField ==
  ASSUME NEW s \in CallStates, NEW n \in Nat
  PROVE /\ [s EXCEPT !.age = n] \in CallStates /\ [s EXCEPT !.timer = n] \in CallStates
        /\ [s EXCEPT !.left = n] \in CallStates /\ [s EXCEPT !.earliest = n] \in CallStates
        /\ [s EXCEPT !.age = n].at = s.at /\ [s EXCEPT !.age = n].on = s.on
        /\ [s EXCEPT !.timer = n].at = s.at /\ [s EXCEPT !.timer = n].on = s.on
        /\ [s EXCEPT !.left = n].at = s.at /\ [s EXCEPT !.left = n].on = s.on
        /\ [s EXCEPT !.earliest = n].at = s.at /\ [s EXCEPT !.earliest = n].on = s.on
BY DEF CallStates

\* A call gets older without moving.
LEMMA CallTicks ==
  ASSUME RpcInv, Rpc!Tick, NEW c \in Rpc!Calls
  PROVE e_call'[c] \in CallStates /\ e_call'[c].at = e_call[c].at /\ e_call'[c].on = e_call[c].on
<1> DEFINE s == e_call[c]
           older == s.age + 1
           longer == s.timer + 1
           left == Rpc!Less(s.left, 0)
           earliest == IF s.earliest = Rpc!Never THEN Rpc!Never ELSE Rpc!Less(s.earliest, 0)
           timer == Rpc!Less(s.timer, 0)
<1>1. s \in CallStates BY DEF RpcInv
<1>2. s.age \in Nat /\ s.timer \in Nat /\ s.left \in Nat /\ s.earliest \in Nat
      /\ s.at \in {"idle", "running", "waiting"}
  BY <1>1 DEF CallStates
<1>3. \A t \in Nat : Rpc!Less(t, 0) \in Nat
  <2> SUFFICES ASSUME NEW t \in Nat PROVE Rpc!Less(t, 0) \in Nat OBVIOUS
  <2>1. t \in Int /\ 0 \in Int OBVIOUS
  <2> QED BY <2>1, LessIsLower
<1>4. older \in Nat /\ longer \in Nat /\ left \in Nat /\ earliest \in Nat /\ timer \in Nat
  <2>1. Rpc!Less(s.left, 0) \in Nat /\ Rpc!Less(s.earliest, 0) \in Nat /\ Rpc!Less(s.timer, 0) \in Nat
    BY <1>2, <1>3
  <2> QED BY <1>2, <2>1, RpcConstants
<1>5. e_call'[c] =
        CASE s.at = "idle" -> s
          [] s.at = "running" ->
               [s EXCEPT !.age = @ + 1, !.timer = @ + 1, !.left = Rpc!Less(@, 0),
                         !.earliest = IF @ = Rpc!Never THEN Rpc!Never ELSE Rpc!Less(@, 0)]
          [] s.at = "waiting" -> [s EXCEPT !.timer = Rpc!Less(@, 0), !.left = Rpc!Less(@, 0)]
  BY DEF Rpc!Tick
<1>6. CASE s.at = "idle" BY <1>1, <1>5, <1>6
<1>7. CASE s.at = "running"
  <2>1. e_call'[c] = [s EXCEPT !.age = older, !.timer = longer, !.left = left, !.earliest = earliest]
    BY <1>1, <1>5, <1>7 DEF CallStates
  <2> HIDE DEF older, longer, left, earliest, s
  <2> DEFINE s1 == [s EXCEPT !.age = older]
             s2 == [s1 EXCEPT !.timer = longer]
             s3 == [s2 EXCEPT !.left = left]
  <2>2. s1 \in CallStates /\ s1.at = s.at /\ s1.on = s.on BY <1>1, <1>4, OneCallField
  <2> HIDE DEF s1
  <2>3. s2 \in CallStates /\ s2.at = s.at /\ s2.on = s.on BY <1>4, <2>2, OneCallField
  <2> HIDE DEF s2
  <2>4. s3 \in CallStates /\ s3.at = s.at /\ s3.on = s.on BY <1>4, <2>3, OneCallField
  <2> HIDE DEF s3
  <2>5. [s3 EXCEPT !.earliest = earliest] \in CallStates
        /\ [s3 EXCEPT !.earliest = earliest].at = s.at /\ [s3 EXCEPT !.earliest = earliest].on = s.on
    BY <1>4, <2>4, OneCallField
  <2>6. e_call'[c] = [s3 EXCEPT !.earliest = earliest] BY <2>1 DEF s1, s2, s3
  <2> QED BY <2>5, <2>6 DEF s
<1>8. CASE s.at = "waiting"
  <2>1. e_call'[c] = [s EXCEPT !.timer = timer, !.left = left] BY <1>1, <1>5, <1>8 DEF CallStates
  <2> HIDE DEF timer, left, s
  <2> DEFINE s1 == [s EXCEPT !.timer = timer]
  <2>2. s1 \in CallStates /\ s1.at = s.at /\ s1.on = s.on BY <1>1, <1>4, OneCallField
  <2> HIDE DEF s1
  <2>3. [s1 EXCEPT !.left = left] \in CallStates
        /\ [s1 EXCEPT !.left = left].at = s.at /\ [s1 EXCEPT !.left = left].on = s.on
    BY <1>4, <2>2, OneCallField
  <2>4. e_call'[c] = [s1 EXCEPT !.left = left] BY <2>1 DEF s1
  <2> QED BY <2>3, <2>4 DEF s
<1> QED BY <1>2, <1>6, <1>7, <1>8

LEMMA TickPaces ==
  ASSUME RpcInv, Rpc!Tick
  PROVE /\ RpcInv'
        /\ \A e \in Endpoints : ~(e_endpoint'[e].inFlight > e_endpoint[e].inFlight)
<1>1. /\ e_endpoint' = [e \in Endpoints |->
           [e_endpoint[e] EXCEPT !.cooldown = Rpc!Less(@, -Rpc!MaxAge),
                                 !.next = Rpc!Less(@, -Rpc!MaxAge),
                                 !.struck = IF @ = -1 THEN -1 ELSE Rpc!Min({@ + 1, Decay + 1})]]
      /\ e_idleFor' = [e \in Endpoints |-> Rpc!Min({e_idleFor[e] + 1, MinInterval})]
      /\ DOMAIN e_call' = Rpc!Calls
  BY DEF Rpc!Tick
<1>2. ASSUME NEW e \in Endpoints
      PROVE /\ e_endpoint'[e] \in EndpointStates
            /\ e_endpoint'[e].inFlight = e_endpoint[e].inFlight
            /\ e_endpoint'[e].next >= e_endpoint[e].next - 1
            /\ e_endpoint'[e].next \in Int /\ e_endpoint[e].next \in Int
            /\ e_endpoint[e].inFlight \in Int
  <2> DEFINE s == e_endpoint[e]
             floor == -Rpc!MaxAge
             cooldown == Rpc!Less(s.cooldown, floor)
             next == Rpc!Less(s.next, floor)
             struck == IF s.struck = -1 THEN -1 ELSE Rpc!Min({s.struck + 1, Decay + 1})
             s1 == [s EXCEPT !.cooldown = cooldown]
             s2 == [s1 EXCEPT !.next = next]
  <2>1. s \in EndpointStates BY DEF RpcInv
  <2>2. s.cooldown \in Int /\ s.next \in Int /\ s.inFlight \in Int /\ s.struck \in Int
    BY <2>1 DEF EndpointStates
  <2>3. floor \in Int BY RpcConstants
  <2>4. e_endpoint'[e] = [s EXCEPT !.cooldown = cooldown, !.next = next, !.struck = struck]
    BY <1>1, <2>1 DEF EndpointStates
  <2> HIDE DEF s, floor
  <2>5. cooldown \in Int
    <3> DEFINE was == s.cooldown
    <3>1. was \in Int BY <2>2
    <3> HIDE DEF was
    <3>2. Rpc!Less(was, floor) \in Int BY <2>3, <3>1, LessIsLower
    <3> QED BY <3>2 DEF was
  <2>6. next \in Int /\ next >= s.next - 1
    <3> DEFINE was == s.next
    <3>1. was \in Int BY <2>2
    <3> HIDE DEF was
    <3>2. Rpc!Less(was, floor) \in Int /\ Rpc!Less(was, floor) >= was - 1
      BY <2>3, <3>1, LessIsLower
    <3> QED BY <3>2 DEF was
  <2>7. struck \in Int
    <3> DEFINE m == s.struck + 1
               n == Decay + 1
    <3>1. m \in Int /\ n \in Int BY <2>2, RpcConstants
    <3> HIDE DEF m, n
    <3>2. Rpc!Min({m, n}) = IF m <= n THEN m ELSE n BY <3>1, LesserOfTwo
    <3>3. Rpc!Min({m, n}) \in Int BY <3>1, <3>2
    <3> QED BY <3>3 DEF m, n
  <2> HIDE DEF cooldown, next, struck
  <2>8. s1 \in EndpointStates /\ s1.inFlight = s.inFlight BY <2>1, <2>5, OneField
  <2> HIDE DEF s1
  <2>9. s2 \in EndpointStates /\ s2.inFlight = s.inFlight /\ s2.next = next
    BY <2>6, <2>8, OneField
  <2> HIDE DEF s2
  <2>10. /\ [s2 EXCEPT !.struck = struck] \in EndpointStates
         /\ [s2 EXCEPT !.struck = struck].inFlight = s.inFlight
         /\ [s2 EXCEPT !.struck = struck].next = next
    BY <2>7, <2>9, OneField
  <2>11. e_endpoint'[e] = [s2 EXCEPT !.struck = struck] BY <2>4 DEF s1, s2
  <2> QED BY <2>2, <2>6, <2>10, <2>11 DEF s
<1>3. e_endpoint' \in [Endpoints -> EndpointStates]
  <2>1. e_endpoint' = [e \in Endpoints |-> e_endpoint'[e]] BY <1>1
  <2> QED BY <1>2, <2>1
<1>4. e_call' \in [Rpc!Calls -> CallStates]
  <2> DEFINE after(c) ==
        CASE e_call[c].at = "idle" -> e_call[c]
          [] e_call[c].at = "running" ->
               [e_call[c] EXCEPT !.age = @ + 1, !.timer = @ + 1, !.left = Rpc!Less(@, 0),
                  !.earliest = IF @ = Rpc!Never THEN Rpc!Never ELSE Rpc!Less(@, 0)]
          [] e_call[c].at = "waiting" ->
               [e_call[c] EXCEPT !.timer = Rpc!Less(@, 0), !.left = Rpc!Less(@, 0)]
  <2>2. e_call' = [c \in Rpc!Calls |-> after(c)] BY DEF Rpc!Tick
  <2> HIDE DEF after
  <2>1. e_call' = [c \in Rpc!Calls |-> e_call'[c]] BY <2>2
  <2> QED BY <2>1, CallTicks
<1>5. \A c \in Rpc!Calls : e_call'[c].at = "running" => e_call'[c].on \in 1..Len(Candidates[c])
  <2> SUFFICES ASSUME NEW c \in Rpc!Calls, e_call'[c].at = "running"
               PROVE e_call'[c].on \in 1..Len(Candidates[c])
    OBVIOUS
  <2>1. e_call'[c].at = e_call[c].at /\ e_call'[c].on = e_call[c].on BY CallTicks
  <2> QED BY <2>1 DEF RpcInv
<1>6. \A e \in Endpoints : e_idleFor[e] \in Nat
        /\ e_idleFor'[e] = IF e_idleFor[e] + 1 <= MinInterval THEN e_idleFor[e] + 1 ELSE MinInterval
  <2> SUFFICES ASSUME NEW e \in Endpoints
               PROVE e_idleFor[e] \in Nat
                 /\ e_idleFor'[e] = IF e_idleFor[e] + 1 <= MinInterval THEN e_idleFor[e] + 1
                                    ELSE MinInterval
    OBVIOUS
  <2> DEFINE m == e_idleFor[e] + 1
  <2>1. e_idleFor[e] \in Nat BY DEF RpcInv
  <2>2. m \in Int /\ MinInterval \in Int BY <2>1, RpcConstants
  <2>3. e_idleFor'[e] = Rpc!Min({m, MinInterval}) BY <1>1
  <2> HIDE DEF m
  <2>4. e_idleFor'[e] = IF m <= MinInterval THEN m ELSE MinInterval BY <2>2, <2>3, LesserOfTwo
  <2> QED BY <2>1, <2>4 DEF m
<1>7. e_idleFor' \in [Endpoints -> Nat]
  <2>1. e_idleFor' = [e \in Endpoints |-> e_idleFor'[e]] BY <1>1
  <2>2. \A e \in Endpoints : e_idleFor'[e] \in Nat BY <1>6, RpcConstants
  <2> QED BY <2>1, <2>2
<1>8. ASSUME NEW e \in Endpoints PROVE Paced(e_endpoint'[e], e_idleFor'[e])
  <2>1. Paced(e_endpoint[e], e_idleFor[e]) BY DEF RpcInv
  <2> QED BY <1>2, <1>6, <2>1, RpcConstants DEF Paced
<1>9. RpcInv' BY <1>3, <1>4, <1>5, <1>7, <1>8 DEF RpcInv
<1> QED BY <1>2, <1>9

LEMMA RpcStep ==
  ASSUME RpcInv, [part = "rpc" /\ Rpc!Next]_rpcVars
  PROVE /\ RpcInv'
        /\ \A e \in Endpoints :
             e_endpoint'[e].inFlight > e_endpoint[e].inFlight => e_idleFor[e] >= MinInterval
<1>1. CASE UNCHANGED rpcVars
  <2>1. \A e \in Endpoints : e_endpoint[e].inFlight \in Int BY DEF RpcInv, EndpointStates
  <2> QED BY <1>1, <2>1 DEF rpcVars, RpcInv, Paced
<1>2. CASE Rpc!Tick BY <1>2, TickPaces
<1>3. ASSUME NEW c \in Rpc!Calls, Rpc!Begin(c) \/ Rpc!Step(c)
      PROVE /\ RpcInv'
            /\ \A e \in Endpoints :
                 e_endpoint'[e].inFlight > e_endpoint[e].inFlight => e_idleFor[e] >= MinInterval
  BY <1>3, FirstPassKeeps, ReturnKeeps, FailKeeps DEF Rpc!Step
<1> QED BY <1>1, <1>2, <1>3 DEF Rpc!Next

\* Whatever the number of endpoints and calls and their settings, and though a call
\* compares its endpoints with an old clock: no endpoint is started on before its interval
\* is over, whichever calls started on it.
THEOREM StartsPaced == CompSpec => StartsArePaced
<1>1. CompInit => RpcInv BY RpcStarts DEF CompInit
<1>2. RpcInv /\ [CompNext]_all =>
        /\ RpcInv'
        /\ [\A e \in Endpoints : e_endpoint'[e].inFlight > e_endpoint[e].inFlight
              => e_idleFor[e] >= MinInterval]_(Rpc!vars)
  BY OthersStutter, RpcStep
<1> QED BY <1>1, <1>2, PTL DEF CompSpec, StartsArePaced, Rpc!StartsArePaced

-----------------------------------------------------------------------------
(* RuntimeModes.                                                           *)

ModeStates ==
  [mode : Modes!Modes, why : Modes!Reasons, cool : BOOLEAN, heal : BOOLEAN,
   wins : 0..SuccessTicks - 1]
HealthStates == [quote : 0..QuoteOpen, account : 0..ReconcileOpen, why : Modes!Reasons]
ResultStates ==
  [failed : {"none", "quote", "mismatch", "unknown", "timeout", "recovery"},
   order : {"none"} \cup Modes!OrderKinds, proven : BOOLEAN, quoted : BOOLEAN]
Stages == {"boot", "idle", "recovered", "cycle", "after", "persist", "written", "alert"}
TickStates ==
  [at : Stages, start : ModeStates, had : BOOLEAN, prev : Modes!Modes,
   result : ResultStates, closes : BOOLEAN, caught : BOOLEAN]

ModeTypes ==
  /\ d_mem \in ModeStates /\ d_file \in ModeStates
  /\ d_health \in HealthStates /\ d_healthFile \in HealthStates
  /\ d_tick \in TickStates
  /\ d_pending \in {"none", "submitted", "unknown"} /\ d_calm \in BOOLEAN

\* The mode in which the cycle runs was derived from what dependencyHealth still says, so that
\* no quote is asked for once so many have failed.
DerivedWell ==
  /\ d_tick.at = "cycle" /\ d_mem.mode \in {"healthy", "degraded"} =>
       d_health.account = 0 /\ d_health.quote < QuoteOpen
  /\ d_tick.at = "after" /\ d_tick.result.failed = "quote" => d_health.quote < QuoteOpen

\* A result that resets or sets the mode outright comes with an order on record.
ResetHasOrder ==
  /\ d_tick.at = "after" =>
       (d_tick.result.order # "none" \/ d_tick.result.proven \/ Modes!Outright(d_tick.result)
          => d_pending # "none")

\* No operator's mode is in a process that has not read the files yet.
BootsHealthy == d_tick.at = "boot" => d_mem.mode = "healthy"

ModesInv == ModeTypes /\ DerivedWell /\ ResetHasOrder /\ BootsHealthy

\* What a step may not do.
ModeStep ==
  /\ d_tick.result.order # "open" /\ d_tick'.result.order = "open" =>
       d_health.account = 0 /\ d_health.quote < QuoteOpen
  /\ d_mem.mode \in Modes!OperatorModes /\ d_mem'.mode # d_mem.mode =>
       d_tick'.at = "boot" \/ d_tick'.caught \/ d_tick.had \/ d_pending # "none"

LEMMA ModeConstants ==
  /\ QuoteDegraded \in Nat \ {0} /\ QuoteOpen \in Nat \ {0} /\ ReconcileOpen \in Nat \ {0}
  /\ SuccessTicks \in Nat \ {0}
  /\ 0 \in 0..QuoteOpen /\ 0 \in 0..ReconcileOpen /\ 0 \in 0..SuccessTicks - 1
<1>1. /\ QuoteDegraded \in Nat \ {0} /\ QuoteOpen \in Nat \ {0} /\ ReconcileOpen \in Nat \ {0}
      /\ SuccessTicks \in Nat \ {0}
  BY Assumptions DEF Modes!ModesAssumption
<1> QED BY <1>1

LEMMA FreshTick ==
  ASSUME NEW at \in Stages
  PROVE /\ Modes!At(at) \in TickStates /\ Modes!At(at).at = at
        /\ Modes!At(at).result.order = "none"
BY ModeConstants DEF Modes!At, Modes!Healthy, Modes!State, Modes!Quiet, Modes!Result, TickStates, ModeStates,
   ResultStates, Modes!Modes, Modes!Reasons

\* A derivation takes over an operator's mode, and finds the process able to trade only
\* when the account reads and the quotes are.
LEMMA Derivation ==
  ASSUME NEW s \in ModeStates, NEW h \in HealthStates, NEW p, NEW held \in BOOLEAN
  PROVE /\ Modes!Apply(s, h, p, held) \in ModeStates
        /\ s.mode \in Modes!OperatorModes => Modes!Apply(s, h, p, held).mode = s.mode
        /\ Modes!Apply(s, h, p, held).mode \in {"healthy", "degraded"} =>
             h.account = 0 /\ h.quote < QuoteOpen
<1> DEFINE cooling == p # "none" /\ s.cool
           d == Modes!Derived(s.mode, h, p = "unknown", cooling)
<1> HIDE DEF cooling
<1>1. /\ d.mode \in Modes!Modes /\ d.why \in Modes!Reasons
      /\ s.mode \in Modes!OperatorModes => d.mode = s.mode
      /\ d.mode \in {"healthy", "degraded"} => h.account = 0 /\ h.quote < QuoteOpen
  <2> DEFINE out(m, w) == [mode |-> m, why |-> w]
             ops == s.mode \in Modes!OperatorModes
             open == p = "unknown" \/ h.account >= ReconcileOpen \/ h.quote >= QuoteOpen
             read == h.account >= 1
             quoted == h.quote >= QuoteDegraded
  <2>1. d = IF ops THEN out(s.mode, "other")
            ELSE IF open THEN out("circuit_open", "other")
            ELSE IF cooling THEN out("recovering", "other")
            ELSE IF read THEN out("recovering", "reconcile-degraded")
            ELSE IF quoted THEN out("degraded", "other")
            ELSE out("healthy", "none")
    BY Zenon DEF Modes!Derived

  <2>2. h.account \in Nat /\ h.quote \in Nat BY ModeConstants DEF HealthStates
  <2>3. ~open /\ ~read => h.account = 0 /\ h.quote < QuoteOpen BY <2>2, ModeConstants
  <2>4. ops => s.mode \in Modes!Modes BY DEF Modes!OperatorModes, Modes!Modes
  <2>5. ~ops => s.mode \notin Modes!OperatorModes OBVIOUS
  <2> HIDE DEF d, out, ops, open, read, quoted
  <2>6. \/ ops /\ d = out(s.mode, "other")
        \/ ~ops /\ (\/ d = out("circuit_open", "other") \/ d = out("recovering", "other")
                    \/ d = out("recovering", "reconcile-degraded"))
        \/ ~ops /\ ~open /\ ~read /\ (d = out("degraded", "other") \/ d = out("healthy", "none"))
    BY <2>1, Zenon
  <2>7. ops => s.mode \in Modes!OperatorModes BY DEF ops
  <2>8. \/ ops /\ d.mode = s.mode /\ d.why = "other"
        \/ /\ ~ops /\ d.mode \in {"circuit_open", "recovering"}
           /\ d.why \in {"other", "reconcile-degraded"}
        \/ /\ ~ops /\ ~open /\ ~read /\ d.mode \in {"degraded", "healthy"}
           /\ d.why \in {"other", "none"}
    BY <2>6 DEF out
  <2> QED BY <2>3, <2>4, <2>5, <2>7, <2>8 DEF Modes!OperatorModes, Modes!Modes, Modes!Reasons
<1>2. Modes!Apply(s, h, p, held) =
        Modes!State(d.mode, d.why, d.mode = "circuit_open" \/ (held /\ s.cool), FALSE,
                    IF d.mode = "healthy" THEN 0 ELSE s.wins)
  BY DEF Modes!Apply, cooling
<1> HIDE DEF d
<1>3. s.wins \in 0..SuccessTicks - 1 /\ 0 \in 0..SuccessTicks - 1 BY ModeConstants DEF ModeStates
<1> QED BY <1>1, <1>2, <1>3 DEF Modes!State, ModeStates

LEMMA FailureCounted ==
  ASSUME NEW h \in HealthStates, NEW why \in Modes!Reasons
  PROVE Modes!AccountFailed(h, why) \in HealthStates
<1> DEFINE n == IF h.account < ReconcileOpen THEN h.account + 1 ELSE h.account
           counted == [h EXCEPT !.account = n]
<1>1. n \in 0..ReconcileOpen BY ModeConstants DEF HealthStates
<1>2. Modes!AccountFailed(h, why) = [counted EXCEPT !.why = why]
  BY ModeConstants DEF Modes!AccountFailed, HealthStates
<1> HIDE DEF n
<1>3. counted \in HealthStates BY <1>1 DEF HealthStates
<1> HIDE DEF counted
<1> QED BY <1>2, <1>3 DEF HealthStates

LEMMA Counting ==
  ASSUME NEW r, d_health \in HealthStates, r.failed = "quote" => d_health.quote < QuoteOpen
  PROVE Modes!Counted(r) \in HealthStates
<1> DEFINE h == IF r.failed = "quote" THEN Modes!QuoteFailed(d_health)
                ELSE IF r.quoted THEN Modes!QuoteWorked(d_health) ELSE d_health
<1>1. h \in HealthStates
  <2>1. r.failed = "quote" => d_health.quote + 1 \in 0..QuoteOpen BY ModeConstants DEF HealthStates
  <2> QED BY <2>1, ModeConstants DEF Modes!QuoteFailed, Modes!QuoteWorked, HealthStates
<1>2. Modes!Counted(r) = IF r.failed = "mismatch" THEN Modes!AccountFailed(h, "other")
                         ELSE Modes!AccountWorked(h)
  BY DEF Modes!Counted
<1> HIDE DEF h
<1>3. \A why \in Modes!Reasons : Modes!AccountFailed(h, why) \in HealthStates
  BY <1>1, FailureCounted
<1>4. Modes!AccountWorked(h) \in HealthStates
  BY <1>1, ModeConstants DEF Modes!AccountWorked, HealthStates, Modes!Reasons
<1> QED BY <1>2, <1>3, <1>4 DEF Modes!Reasons

\* The healing of a circuit leaves an operator's mode as it is.
LEMMA Healing ==
  ASSUME ModeTypes, NEW next \in ModeStates, NEW ordered \in BOOLEAN
  PROVE /\ Modes!AutoHealed(next, ordered) \in ModeStates
        /\ next.mode \in Modes!OperatorModes => Modes!AutoHealed(next, ordered).mode = next.mode
<1> DEFINE plain == [next EXCEPT !.heal = FALSE, !.wins = 0]
           healing == Modes!State("recovering", d_tick.start.why, FALSE, TRUE,
                                  d_tick.start.wins + 1)
<1>1. plain \in ModeStates /\ plain.mode = next.mode
  <2> DEFINE q == [next EXCEPT !.heal = FALSE]
  <2>1. q \in ModeStates /\ q.mode = next.mode /\ plain = [q EXCEPT !.wins = 0] BY DEF ModeStates
  <2> HIDE DEF q
  <2> QED BY <2>1, ModeConstants DEF ModeStates
<1>2. Modes!Healthy \in ModeStates
  BY ModeConstants DEF Modes!Healthy, Modes!State, ModeStates, Modes!Modes, Modes!Reasons
<1>3. ~(d_tick.start.wins + 1 >= SuccessTicks) => healing \in ModeStates
  <2>1. d_tick.start \in ModeStates BY DEF ModeTypes, TickStates
  <2>2. d_tick.start.wins \in Nat /\ d_tick.start.why \in Modes!Reasons BY <2>1 DEF ModeStates
  <2> QED BY <2>2, ModeConstants DEF Modes!State, ModeStates, Modes!Modes
<1>4. /\ \/ Modes!AutoHealed(next, ordered) \in {plain, Modes!Healthy}
         \/ Modes!AutoHealed(next, ordered) = healing /\ ~(d_tick.start.wins + 1 >= SuccessTicks)
      /\ next.mode \in Modes!OperatorModes => Modes!AutoHealed(next, ordered) = plain
  BY Zenon DEF Modes!AutoHealed
<1> QED BY <1>1, <1>2, <1>3, <1>4

LEMMA ModesStart == ASSUME Modes!Init PROVE ModesInv
<1>1. /\ Modes!Healthy \in ModeStates /\ Modes!Healthy.mode = "healthy"
      /\ Modes!State("paused", "other", FALSE, FALSE, 0) \in ModeStates
      /\ Modes!State("flatten_only", "other", FALSE, FALSE, 0) \in ModeStates
  BY ModeConstants DEF Modes!Healthy, Modes!State, ModeStates, Modes!Modes, Modes!Reasons
<1>2. Modes!NoFailures \in HealthStates
  BY ModeConstants DEF Modes!NoFailures, HealthStates, Modes!Reasons
<1>3. d_tick \in TickStates /\ d_tick.at = "boot" BY FreshTick DEF Modes!Init, Stages
<1>4. ModeTypes BY <1>1, <1>2, <1>3 DEF Modes!Init, ModeTypes
<1> QED BY <1>1, <1>3, <1>4 DEF Modes!Init, ModesInv, DerivedWell, ResetHasOrder, BootsHealthy

LEMMA TickBegins ==
  ASSUME ModesInv
  PROVE /\ \A positions \in BOOLEAN : Modes!Boot(positions) => ModesInv' /\ ModeStep
        /\ \A left \in {"none", "submitted", "unknown"} : Modes!Recover(left) => ModesInv' /\ ModeStep
        /\ Modes!Derive => ModesInv' /\ ModeStep
<1> USE DEF ModesInv, ModeStep
<1>1. ASSUME NEW positions \in BOOLEAN, Modes!Boot(positions)
      PROVE ModesInv' /\ ModeStep
  <2>1. d_tick' \in TickStates /\ d_tick'.at = "idle" /\ d_tick'.result.order = "none"
    BY <1>1, FreshTick DEF Modes!Boot, Stages
  <2>2. Modes!Healthy \in ModeStates
    BY ModeConstants DEF Modes!Healthy, Modes!State, ModeStates, Modes!Modes, Modes!Reasons
  <2>3. ModeTypes' BY <1>1, <2>1, <2>2 DEF Modes!Boot, ModeTypes
  <2>4. d_mem.mode \notin Modes!OperatorModes
    BY <1>1 DEF Modes!Boot, BootsHealthy, Modes!OperatorModes
  <2> QED BY <2>1, <2>3, <2>4 DEF DerivedWell, ResetHasOrder, BootsHealthy
<1>2. ASSUME NEW left \in {"none", "submitted", "unknown"}, Modes!Recover(left) PROVE ModesInv' /\ ModeStep
  <2> DEFINE t == Modes!At("recovered")
             start == [d_mem EXCEPT !.heal = Modes!Eligible, !.cool = FALSE]
             had == d_pending # "none"
             prev == d_mem.mode
  <2>1. t \in TickStates /\ t.at = "recovered" /\ t.result.order = "none" BY FreshTick DEF Stages
  <2>2. start \in ModeStates /\ prev \in Modes!Modes
    <3>1. Modes!Eligible \in BOOLEAN BY DEF Modes!Eligible, Modes!Healable
    <3> QED BY <3>1 DEF ModeTypes, ModeStates
  <2>3. d_tick' = [t EXCEPT !.start = start, !.had = had, !.prev = prev]
    BY <1>2 DEF Modes!Recover
  <2>4. had \in BOOLEAN OBVIOUS
  <2> HIDE DEF t, start, had, prev
  <2>5. d_tick' \in TickStates /\ d_tick'.at = "recovered" /\ d_tick'.result.order = "none"
    BY <2>1, <2>2, <2>3, <2>4 DEF TickStates
  <2>6. d_mem' = d_mem /\ ModeTypes' BY <1>2, <2>5 DEF Modes!Recover, ModeTypes
  <2> QED BY <2>5, <2>6 DEF DerivedWell, ResetHasOrder, BootsHealthy
<1>3. ASSUME Modes!Derive PROVE ModesInv' /\ ModeStep
  <2> DEFINE held == d_pending # "none"
             mem == Modes!Apply(d_mem, d_health, d_pending, held)
  <2>1. d_mem \in ModeStates /\ d_health \in HealthStates BY DEF ModeTypes
  <2>2. held \in BOOLEAN OBVIOUS
  <2>3. d_mem' = mem BY <1>3 DEF Modes!Derive
  <2> HIDE DEF held
  <2>4. /\ mem \in ModeStates
        /\ d_mem.mode \in Modes!OperatorModes => mem.mode = d_mem.mode
        /\ mem.mode \in {"healthy", "degraded"} =>
             d_health.account = 0 /\ d_health.quote < QuoteOpen
    BY <2>1, <2>2, Derivation
  <2> HIDE DEF mem
  <2>5. /\ d_tick' \in TickStates /\ d_tick'.at = "cycle"
        /\ d_tick'.result = d_tick.result
    BY <1>3, <2>1 DEF Modes!Derive, ModeTypes, TickStates, ModeStates, Stages
  <2>6. ModeTypes' BY <1>3, <2>3, <2>4, <2>5 DEF Modes!Derive, ModeTypes
  <2> QED BY <1>3, <2>3, <2>4, <2>5, <2>6
          DEF Modes!Derive, DerivedWell, ResetHasOrder, BootsHealthy
<1> QED BY <1>1, <1>2, <1>3

\* The cycle reports a result, and derives no mode.
LEMMA CycleReports ==
  ASSUME ModesInv, NEW result \in ResultStates, d_tick.at = "cycle",
         d_tick' = [d_tick EXCEPT !.at = "after", !.result = result],
         UNCHANGED <<d_mem, d_file, d_health, d_healthFile, d_calm>>,
         d_pending' \in {"none", "submitted", "unknown"},
         result.order = "open" \/ result.failed = "quote" => d_mem.mode \in {"healthy", "degraded"},
         result.order # "none" \/ result.proven \/ Modes!Outright(result) => d_pending' # "none"
  PROVE ModesInv' /\ ModeStep
<1> DEFINE t == [d_tick EXCEPT !.at = "after"]
<1>1. d_tick \in TickStates BY DEF ModesInv, ModeTypes
<1>2. t \in TickStates /\ t.at = "after" BY <1>1 DEF TickStates, Stages
<1>3. d_tick' = [t EXCEPT !.result = result] BY <1>1 DEF TickStates
<1> HIDE DEF t
<1>4. d_tick' \in TickStates /\ d_tick'.at = "after" /\ d_tick'.result = result
  BY <1>2, <1>3 DEF TickStates
<1>5. ModeTypes' BY <1>4 DEF ModesInv, ModeTypes
<1>6. ResetHasOrder' BY <1>4 DEF ResetHasOrder, Modes!Outright
<1>7. DerivedWell' /\ BootsHealthy' BY <1>4 DEF ModesInv, DerivedWell, BootsHealthy
<1>8. ModeStep BY <1>4 DEF ModesInv, DerivedWell, ModeStep
<1> QED BY <1>5, <1>6, <1>7, <1>8 DEF ModesInv

LEMMA CycleSteps ==
  ASSUME ModesInv
  PROVE /\ Modes!Hold \/ Modes!QuoteFails \/ Modes!Mismatch => ModesInv' /\ ModeStep
        /\ \A late \in BOOLEAN : Modes!GateBlocks(late) => ModesInv' /\ ModeStep
        /\ \A order \in Modes!OrderKinds, outcome \in {"proven", "accepted", "unknown"} :
             Modes!Order(order, outcome) => ModesInv' /\ ModeStep
        /\ \A order \in Modes!OrderKinds : Modes!Refused(order) => ModesInv' /\ ModeStep
<1> DEFINE r(f, o, p, q) == [failed |-> f, order |-> o, proven |-> p, quoted |-> q]
<1>1. ASSUME NEW quoted \in BOOLEAN, NEW failed \in {"none", "quote", "mismatch"},
             d_tick.at = "cycle", Modes!Reports(r(failed, "none", FALSE, quoted)),
             UNCHANGED <<d_mem, d_file, d_health, d_healthFile, d_pending, d_calm>>,
             failed = "quote" => d_mem.mode \in {"healthy", "degraded"}
      PROVE ModesInv' /\ ModeStep
  <2> DEFINE result == r(failed, "none", FALSE, quoted)
  <2>1. /\ result \in ResultStates /\ result.order = "none" /\ ~result.proven /\ result.failed = failed
        /\ ~Modes!Outright(result)
    BY DEF ResultStates, Modes!Outright
  <2>2. d_tick' = [d_tick EXCEPT !.at = "after", !.result = result] BY <1>1 DEF Modes!Reports
  <2>3. d_pending' \in {"none", "submitted", "unknown"} BY <1>1 DEF ModesInv, ModeTypes
  <2> HIDE DEF result
  <2> QED BY <1>1, <2>1, <2>2, <2>3, CycleReports
<1>2. Modes!Hold \/ Modes!QuoteFails \/ Modes!Mismatch => ModesInv' /\ ModeStep
  BY <1>1 DEF Modes!Hold, Modes!QuoteFails, Modes!Mismatch, Modes!Quiet, Modes!Result, Modes!Permits
<1>3. ASSUME NEW order \in Modes!OrderKinds, Modes!Refused(order) PROVE ModesInv' /\ ModeStep
  BY <1>1, <1>3 DEF Modes!Refused, Modes!Result
<1>4. ASSUME NEW late \in BOOLEAN, Modes!GateBlocks(late) PROVE ModesInv' /\ ModeStep
  <2> DEFINE failed == IF late THEN "timeout" ELSE "recovery"
             result == r(failed, "none", FALSE, FALSE)
  <2>1. result \in ResultStates /\ result.order = "none" /\ result.failed # "quote" BY DEF ResultStates
  <2>2. d_tick' = [d_tick EXCEPT !.at = "after", !.result = result]
    BY <1>4 DEF Modes!GateBlocks, Modes!Reports, Modes!Result
  <2>3. d_pending' # "none" /\ d_pending' \in {"none", "submitted", "unknown"}
    BY <1>4 DEF Modes!GateBlocks, ModesInv, ModeTypes
  <2> HIDE DEF result
  <2> QED BY <1>4, <2>1, <2>2, <2>3, CycleReports DEF Modes!GateBlocks
<1>5. ASSUME NEW order \in Modes!OrderKinds, NEW outcome \in {"proven", "accepted", "unknown"},
             Modes!Order(order, outcome)
      PROVE ModesInv' /\ ModeStep
  <2> DEFINE failed == IF outcome = "unknown" THEN "unknown" ELSE "none"
             proven == outcome = "proven"
             result == r(failed, order, proven, TRUE)
  <2>1. result \in ResultStates /\ result.order = order /\ result.failed # "quote" BY DEF ResultStates
  <2>2. d_tick' = [d_tick EXCEPT !.at = "after", !.result = result]
    BY <1>5 DEF Modes!Order, Modes!Reports, Modes!Result
  <2>3. d_pending' # "none" /\ d_pending' \in {"none", "submitted", "unknown"} BY <1>5 DEF Modes!Order
  <2>4. order = "open" => d_mem.mode \in {"healthy", "degraded"}
    BY <1>5 DEF Modes!Order, Modes!Permits
  <2> HIDE DEF result
  <2> QED BY <1>5, <2>1, <2>2, <2>3, <2>4, CycleReports DEF Modes!Order
<1> QED BY <1>2, <1>3, <1>4, <1>5

\* After a tick that had no order and left none, the mode is the one the cycle ran in,
\* derived again and healed; an operator's outlasts both.
LEMMA AfterKeeps ==
  ASSUME ModesInv, NEW recovery \in {"open", "failed", "filled"},
         NEW sweep \in {"none", "submitted", "unknown"}, Modes!After(recovery, sweep)
  PROVE ModesInv' /\ ModeStep
<1> DEFINE r == d_tick.result
           counted == Modes!Counted(r)
           done == r.order # "none" /\ (r.proven \/ recovery # "open")
           set == Modes!SetBy(r)
           base == IF r.proven \/ recovery = "filled" THEN Modes!Healthy
                   ELSE Modes!AfterClearing(set)
           left == IF done THEN "none" ELSE d_pending
           held == d_pending # "none"
           next == IF Modes!Outright(r) THEN base ELSE Modes!Apply(base, counted, left, held)
           ordered == IF r.order = "sale" THEN left # "none" ELSE d_pending' # "none"
<1>1. /\ d_tick.at = "after"
      /\ recovery # "open" => r.order # "none"
      /\ d_health' = counted
      /\ d_mem' = Modes!AutoHealed(next, ordered)
      /\ d_tick' = [Modes!At("persist") EXCEPT !.prev = d_tick.prev, !.closes = done]
      /\ UNCHANGED <<d_file, d_healthFile, d_calm>>
      /\ d_pending' = IF sweep # "none" THEN sweep ELSE d_pending
  BY DEF Modes!After
<1>2. /\ d_mem \in ModeStates /\ d_health \in HealthStates /\ d_tick \in TickStates
      /\ r \in ResultStates
  BY DEF ModesInv, ModeTypes, TickStates
<1>3. counted \in HealthStates
  <2>1. r.failed = "quote" => d_health.quote < QuoteOpen BY <1>1 DEF ModesInv, DerivedWell
  <2> QED BY <1>2, <2>1, Counting
<1>4. set \in ModeStates /\ (~Modes!Outright(r) => set = d_mem)
  <2>1. Modes!Opened("other") \in ModeStates
    BY ModeConstants DEF Modes!Opened, Modes!State, ModeStates, Modes!Modes, Modes!Reasons
  <2>2. d_mem.cool \in BOOLEAN BY <1>2 DEF ModeStates
  <2>3. Modes!State("recovering", "other", d_mem.cool, FALSE, 0) \in ModeStates
    BY <2>2, ModeConstants DEF Modes!State, ModeStates, Modes!Modes, Modes!Reasons
  <2> QED BY <1>2, <2>1, <2>3 DEF Modes!SetBy, Modes!Outright
<1>5. /\ Modes!AfterClearing(set) \in ModeStates
      /\ ~d_tick.had => Modes!AfterClearing(set) = set
  <2> DEFINE kept == [set EXCEPT !.heal = FALSE, !.wins = 0]
  <2>1. kept \in ModeStates
    <3> DEFINE q == [set EXCEPT !.heal = FALSE]
    <3> HIDE DEF set
    <3>1. q \in ModeStates /\ kept = [q EXCEPT !.wins = 0] BY <1>4 DEF ModeStates
    <3> HIDE DEF q
    <3> QED BY <3>1, ModeConstants DEF ModeStates
  <2>2. Modes!Healthy \in ModeStates
    BY ModeConstants DEF Modes!Healthy, Modes!State, ModeStates, Modes!Modes, Modes!Reasons
  <2>3. Modes!AfterClearing(set) =
          IF d_tick.had /\ d_pending = "none"
          THEN IF set.mode = "flatten_only" THEN kept ELSE Modes!Healthy
          ELSE set
    BY DEF Modes!AfterClearing
  <2> HIDE DEF set, kept
  <2> QED BY <1>4, <2>1, <2>2, <2>3
<1>6. Modes!Healthy \in ModeStates
  BY ModeConstants DEF Modes!Healthy, Modes!State, ModeStates, Modes!Modes, Modes!Reasons
<1>7. base \in ModeStates BY <1>5, <1>6
<1>8. held \in BOOLEAN /\ ordered \in BOOLEAN OBVIOUS
<1>9. /\ Modes!Apply(base, counted, left, held) \in ModeStates
      /\ base.mode \in Modes!OperatorModes =>
           Modes!Apply(base, counted, left, held).mode = base.mode
  <2> HIDE DEF base, counted, left, held
  <2> QED BY <1>3, <1>7, <1>8, Derivation
<1>10. next \in ModeStates BY <1>7, <1>9
<1>11. /\ d_mem' \in ModeStates
       /\ next.mode \in Modes!OperatorModes => d_mem'.mode = next.mode
  <2> HIDE DEF next, ordered
  <2> QED BY <1>1, <1>8, <1>10, Healing DEF ModesInv
<1>12. d_tick' \in TickStates /\ d_tick'.at = "persist" /\ d_tick'.result.order = "none"
  <2> DEFINE t == Modes!At("persist")
             t1 == [t EXCEPT !.prev = d_tick.prev]
  <2>1. t \in TickStates /\ t.at = "persist" /\ t.result.order = "none"
    BY FreshTick DEF Stages
  <2>2. d_tick.prev \in Modes!Modes BY <1>2 DEF TickStates
  <2>3. done \in BOOLEAN OBVIOUS
  <2>4. d_tick' = [t EXCEPT !.prev = d_tick.prev, !.closes = done] BY <1>1
  <2> HIDE DEF t, done
  <2>5. t1 \in TickStates /\ t1.at = "persist" /\ t1.result.order = "none"
    BY <2>1, <2>2 DEF TickStates
  <2>6. d_tick' = [t1 EXCEPT !.closes = done] BY <2>1, <2>4 DEF TickStates
  <2> HIDE DEF t1
  <2> QED BY <2>3, <2>5, <2>6 DEF TickStates
<1>13. ASSUME d_mem.mode \in Modes!OperatorModes, ~d_tick.had, d_pending = "none"
       PROVE d_mem'.mode = d_mem.mode
  <2>1. r.order = "none" /\ ~r.proven /\ ~Modes!Outright(r)
    BY <1>1, <1>13 DEF ModesInv, ResetHasOrder
  <2>2. recovery = "open" BY <1>1, <2>1
  <2>3. base = d_mem BY <1>4, <1>5, <1>13, <2>1, <2>2
  <2>4. next.mode = d_mem.mode BY <1>9, <1>13, <2>1, <2>3
  <2> HIDE DEF next
  <2> QED BY <1>11, <1>13, <2>4
<1>14. ModeTypes'
  BY <1>1, <1>3, <1>11, <1>12 DEF ModesInv, ModeTypes
<1>15. DerivedWell' /\ ResetHasOrder' /\ BootsHealthy'
  BY <1>12 DEF DerivedWell, ResetHasOrder, BootsHealthy
<1>16. ModeStep BY <1>12, <1>13 DEF ModeStep
<1> QED BY <1>14, <1>15, <1>16 DEF ModesInv

LEMMA HealableReasons ==
  ASSUME NEW why PROVE Modes!Healable(why) = (why = "fetch failed" \/ why = "timeout")
BY SMT DEF Modes!Healable

\* A tick that throws opens the circuit over whatever mode there is.
LEMMA FailKeepsModes ==
  ASSUME ModesInv, NEW why \in {"fetch failed", "timeout", "other"}, NEW account \in BOOLEAN,
         Modes!Fail(why, account)
  PROVE ModesInv' /\ ModeStep
<1> DEFINE prev == IF d_tick.at = "idle" THEN d_mem.mode ELSE d_tick.prev
           t == Modes!At("persist")
           t1 == [t EXCEPT !.prev = prev]
           heals == why = "fetch failed" \/ why = "timeout"
           opened == Modes!Opened(why)
<1>1. /\ d_health' = IF account THEN Modes!AccountFailed(d_health, why) ELSE d_health
      /\ d_mem' = [opened EXCEPT !.heal = heals]
      /\ d_tick' = [t EXCEPT !.prev = prev, !.caught = TRUE]
      /\ UNCHANGED <<d_file, d_healthFile, d_pending, d_calm>>
  <2>1. Modes!Healable(why) = heals BY HealableReasons
  <2> HIDE DEF heals
  <2> QED BY <2>1 DEF Modes!Fail
<1>2. d_mem \in ModeStates /\ d_health \in HealthStates /\ d_tick \in TickStates
  BY DEF ModesInv, ModeTypes
<1>3. why \in Modes!Reasons BY DEF Modes!Reasons
<1>4. d_health' \in HealthStates BY <1>1, <1>2, <1>3, FailureCounted
<1>5. opened \in ModeStates
  BY <1>3, ModeConstants DEF Modes!Opened, Modes!State, ModeStates, Modes!Modes
<1>6. heals \in BOOLEAN OBVIOUS
<1>7. d_mem' \in ModeStates
  <2> HIDE DEF opened, heals
  <2> QED BY <1>1, <1>5, <1>6 DEF ModeStates
<1>8. /\ d_tick' \in TickStates /\ d_tick'.at = "persist" /\ d_tick'.caught
      /\ d_tick'.result.order = "none"
  <2>1. t \in TickStates /\ t.at = "persist" /\ t.result.order = "none"
    BY FreshTick DEF Stages
  <2>2. prev \in Modes!Modes BY <1>2 DEF TickStates, ModeStates
  <2> HIDE DEF t, prev
  <2>3. t1 \in TickStates /\ t1.at = "persist" /\ t1.result.order = "none"
    BY <2>1, <2>2 DEF TickStates
  <2>4. d_tick' = [t1 EXCEPT !.caught = TRUE] BY <1>1, <2>1 DEF TickStates
  <2> HIDE DEF t1
  <2> QED BY <2>3, <2>4 DEF TickStates
<1>9. ModeTypes' BY <1>1, <1>4, <1>7, <1>8 DEF ModesInv, ModeTypes
<1>10. DerivedWell' /\ ResetHasOrder' /\ BootsHealthy'
  BY <1>8 DEF DerivedWell, ResetHasOrder, BootsHealthy
<1> QED BY <1>8, <1>9, <1>10 DEF ModesInv, ModeStep

\* The files are written, the process dies, or time passes.
LEMMA QuietKeeps ==
  ASSUME ModesInv,
         \/ Modes!WriteState \/ Modes!WriteHealth \/ Modes!EndTick
         \/ Modes!AlertFails \/ Modes!Crash \/ Modes!CoolDown \/ Modes!BecomeCalm
         \/ UNCHANGED modeVars
  PROVE ModesInv' /\ ModeStep
<1>1. /\ d_mem \in ModeStates /\ d_file \in ModeStates /\ d_health \in HealthStates
      /\ d_healthFile \in HealthStates /\ d_tick \in TickStates
      /\ d_pending \in {"none", "submitted", "unknown"} /\ d_calm \in BOOLEAN
  BY DEF ModesInv, ModeTypes
<1>2. ASSUME NEW at \in {"written", "alert"}, d_tick' = [d_tick EXCEPT !.at = at],
             d_file' \in {d_file, d_mem}, d_healthFile' \in {d_healthFile, d_health},
             UNCHANGED <<d_mem, d_health, d_calm>>, d_pending' \in {"none", d_pending}
      PROVE ModesInv' /\ ModeStep
  <2>1. d_tick' \in TickStates /\ d_tick'.at = at /\ d_tick'.result = d_tick.result
    BY <1>1, <1>2 DEF TickStates, Stages
  <2>2. ModeTypes' BY <1>1, <1>2, <2>1 DEF ModeTypes
  <2> QED BY <1>2, <2>1, <2>2
          DEF ModesInv, DerivedWell, ResetHasOrder, BootsHealthy, ModeStep
<1>3. CASE Modes!WriteState \/ Modes!WriteHealth
  BY <1>2, <1>3 DEF Modes!WriteState, Modes!WriteHealth
<1>4. CASE Modes!EndTick
  <2>1. d_tick' \in TickStates /\ d_tick'.at = "idle" /\ d_tick'.result.order = "none"
    BY <1>4, FreshTick DEF Modes!EndTick, Stages
  <2>2. ModeTypes' BY <1>1, <1>4, <2>1 DEF Modes!EndTick, ModeTypes
  <2> QED BY <1>4, <2>1, <2>2
          DEF Modes!EndTick, ModesInv, DerivedWell, ResetHasOrder, BootsHealthy, ModeStep
<1>5. CASE Modes!AlertFails \/ Modes!Crash
  <2>1. Modes!Dies BY <1>5 DEF Modes!AlertFails, Modes!Crash
  <2>2. d_tick' \in TickStates /\ d_tick'.at = "boot" /\ d_tick'.result.order = "none"
    BY <2>1, FreshTick DEF Modes!Dies, Stages
  <2>3. Modes!Healthy \in ModeStates /\ Modes!Healthy.mode = "healthy"
    BY ModeConstants DEF Modes!Healthy, Modes!State, ModeStates, Modes!Modes, Modes!Reasons
  <2>4. Modes!NoFailures \in HealthStates BY ModeConstants DEF Modes!NoFailures, HealthStates, Modes!Reasons
  <2>5. ModeTypes' BY <1>1, <2>1, <2>2, <2>3, <2>4 DEF Modes!Dies, ModeTypes
  <2> QED BY <2>1, <2>2, <2>3, <2>5
          DEF Modes!Dies, ModesInv, DerivedWell, ResetHasOrder, BootsHealthy, ModeStep
<1>6. CASE Modes!CoolDown
  <2>1. /\ d_mem' \in ModeStates /\ d_mem'.mode = d_mem.mode
        /\ d_file' \in ModeStates
    BY <1>1, <1>6 DEF Modes!CoolDown, ModeStates
  <2>2. ModeTypes' BY <1>1, <1>6, <2>1 DEF Modes!CoolDown, ModeTypes
  <2> QED BY <1>6, <2>1, <2>2 DEF Modes!CoolDown, ModesInv, DerivedWell, ResetHasOrder,
             BootsHealthy, ModeStep, Modes!Outright
<1>7. CASE Modes!BecomeCalm \/ UNCHANGED modeVars
  BY <1>7 DEF Modes!BecomeCalm, modeVars, ModesInv, ModeTypes, DerivedWell, ResetHasOrder,
     BootsHealthy, ModeStep, Modes!Outright
<1> QED BY <1>3, <1>4, <1>5, <1>6, <1>7

LEMMA ModesKeep ==
  ASSUME ModesInv, [part = "modes" /\ Modes!Next]_modeVars
  PROVE ModesInv' /\ ModeStep
<1>1. CASE Modes!Proceed
  BY <1>1, TickBegins, CycleSteps, AfterKeeps, QuietKeeps DEF Modes!Proceed
<1>2. CASE \E why \in {"fetch failed", "timeout", "other"}, account \in BOOLEAN :
             Modes!Fail(why, account)
  BY <1>2, FailKeepsModes
<1>3. CASE \/ Modes!AlertFails \/ Modes!Crash \/ Modes!CoolDown \/ Modes!BecomeCalm
           \/ UNCHANGED modeVars
  BY <1>3, QuietKeeps
<1> QED BY <1>1, <1>2, <1>3 DEF Modes!Next

\* Whatever the thresholds: no order opens a position while the last account read failed
\* or the quotes have failed QuoteOpen times, for a mode that a restart, a completed order
\* or a healed circuit has reset is derived again before the cycle acts on it.
THEOREM OpensAreHealthy == CompSpec => OpensNeedHealth
<1>1. CompInit => ModesInv BY ModesStart DEF CompInit
<1>2. ModesInv /\ [CompNext]_all =>
        /\ ModesInv'
        /\ [(d_tick.result.order # "open" /\ d_tick'.result.order = "open") =>
              d_health.account = 0 /\ d_health.quote < QuoteOpen]_(Modes!vars)
  BY OthersStutter, ModesKeep DEF ModeStep
<1> QED BY <1>1, <1>2, PTL DEF CompSpec, OpensNeedHealth, Modes!OpensNeedHealth

\* Whatever the thresholds: paused and flatten_only outlast every tick that neither throws
\* nor had an order, up to the restart that reads the files.
THEOREM OperatorsModeStays == CompSpec => OperatorModeIsKept
<1>1. CompInit => ModesInv BY ModesStart DEF CompInit
<1>2. ModesInv /\ [CompNext]_all =>
        /\ ModesInv'
        /\ [(d_mem.mode \in Modes!OperatorModes /\ d_mem'.mode # d_mem.mode) =>
              d_tick'.at = "boot" \/ d_tick'.caught \/ d_tick.had \/ d_pending # "none"]_(Modes!vars)
  BY OthersStutter, ModesKeep DEF ModeStep
<1> QED BY <1>1, <1>2, PTL DEF CompSpec, OperatorModeIsKept, Modes!OperatorModeIsKept

-----------------------------------------------------------------------------
(* LiveCycle.                                                              *)

\* The stages after the engine decided.
Late == {"policy", "target", "quote", "account", "guards", "identity"}

\* What was noted against an open that is still under way has stopped none, and an exit
\* is one that the engine wants; the order that was pending has been resolved by then.
CycleInv(on) ==
  /\ c_target \in Cycle(on)!Targets
  /\ c_at \in {"wal", "gate", "ingest", "done"} \cup Late
  /\ c_at \in {"wal", "gate", "ingest"} => c_action = Cycle(on)!Undecided /\ c_saw = {}
  /\ c_at # "done" => c_result = Cycle(on)!Running
  /\ c_at = "ingest" \/ c_at \in Late => c_pending = "none"
  /\ c_at \in Late => c_action.do \in Cycle(on)!Opens \cup Cycle(on)!Exits \cup Cycle(on)!Maintains
  /\ c_at \in Late /\ c_action.do = "withdraw-lp" => c_target.lp
  /\ c_at \in Late \ {"policy", "target"} /\ c_action.do = "dca-out" => c_target.token # "none"
  /\ c_at \in Late /\ c_action.do \in Cycle(on)!Opens =>
       /\ c_saw \subseteq {"gates", "recent", "cooling"}
       /\ "gates" \in c_saw => c_target.token = "little"
       /\ c_target.mint \/ c_at = "policy" => {"recent", "cooling"} \cap c_saw = {}
  /\ Cycle(on)!ExitIsNotVetoed /\ Cycle(on)!OpensAreClean /\ Cycle(on)!ClosesWhenGone

LEMMA CycleStarts == ASSUME NEW on \in BOOLEAN, Cycle(on)!Init PROVE CycleInv(on)
BY DEF Cycle!Init, CycleInv, Cycle!Running, Late, Cycle!ExitIsNotVetoed, Cycle!OpensAreClean,
   Cycle!ClosesWhenGone, Cycle!Opens

\* A cycle that stops has sent nothing, and closes only what is gone.
LEMMA StopsCleanly ==
  ASSUME NEW on \in BOOLEAN, CycleInv(on), c_at # "done", NEW why, Cycle(on)!Stop(why),
         c_action.do \in Cycle(on)!Exits
           => why \in {"ineligible", "left-to-sweep", "no-balance", "no-value",
                                         "disabled", "no-address", "no-amount", "spot-reconcile"}
  PROVE CycleInv(on)'
<1>1. /\ c_at' = "done" /\ c_result' = [Cycle(on)!Running EXCEPT !.why = why,
         !.next = Cycle(on)!AfterNothing(why)]
      /\ UNCHANGED <<c_target, c_life, c_pending, c_action>>
  BY DEF Cycle!Stop, Cycle!Ends, CycleInv
<1>2. c_result'.sent = "none" /\ c_result'.why = why /\ c_result'.next = Cycle(on)!AfterNothing(why)
  BY <1>1 DEF Cycle!Running
<1>3. Cycle(on)!AfterNothing(why) = "closed" /\ c_life # "closed" => c_pending = "none"
      /\ ~Cycle(on)!Inventory
  BY DEF Cycle!AfterNothing
<1>4. Cycle(on)!ExitIsNotVetoed' BY <1>1, <1>2 DEF Cycle!ExitIsNotVetoed
<1>5. Cycle(on)!OpensAreClean' BY <1>2 DEF Cycle!OpensAreClean, Cycle!Opens
<1>6. Cycle(on)!ClosesWhenGone' BY <1>1, <1>2, <1>3 DEF Cycle!ClosesWhenGone, Cycle!Inventory
<1> QED BY <1>1, <1>4, <1>5, <1>6 DEF CycleInv, Late

\* A cycle that goes on.
LEMMA GoesOn ==
  ASSUME NEW on \in BOOLEAN, CycleInv(on), c_at \in Late, NEW to \in Late \ {"policy"},
           Cycle(on)!Goes(to),
         to # "target" /\ c_action.do = "dca-out" => c_target.token # "none",
         c_action.do \in Cycle(on)!Opens =>
           /\ c_saw' \subseteq {"gates", "recent", "cooling"}
           /\ "gates" \in c_saw' => c_target.token = "little"
           /\ c_target.mint => {"recent", "cooling"} \cap c_saw' = {}
  PROVE CycleInv(on)'
<1>1. c_at' = to /\ to # "done" /\ to # "policy"
      /\ UNCHANGED <<c_target, c_life, c_pending, c_action, c_result>>
  BY DEF Cycle!Goes, Late
<1>2. c_at # "done" /\ c_result = Cycle(on)!Running BY DEF CycleInv, Late
<1>3. Cycle(on)!ExitIsNotVetoed' /\ Cycle(on)!ClosesWhenGone'
  BY <1>1 DEF Cycle!ExitIsNotVetoed, Cycle!ClosesWhenGone
<1>4. Cycle(on)!OpensAreClean' BY <1>1, <1>2 DEF Cycle!OpensAreClean, Cycle!Running, Cycle!Opens
<1> QED BY <1>1, <1>2, <1>3, <1>4 DEF CycleInv, Late

LEMMA NextCycleKeeps == ASSUME NEW on \in BOOLEAN, CycleInv(on), Cycle(on)!NextCycle PROVE CycleInv(on)'
<1>1. c_at' = "wal" /\ c_target' \in Cycle(on)!Targets /\ c_action' = Cycle(on)!Undecided /\ c_saw' = {}
      /\ c_result' = Cycle(on)!Running
  BY DEF Cycle!NextCycle
<1>2. Cycle(on)!ExitIsNotVetoed' /\ Cycle(on)!ClosesWhenGone'
  BY <1>1 DEF Cycle!ExitIsNotVetoed, Cycle!ClosesWhenGone
<1>3. Cycle(on)!OpensAreClean' BY <1>1 DEF Cycle!OpensAreClean, Cycle!Running, Cycle!Opens
<1> QED BY <1>1, <1>2, <1>3 DEF CycleInv, Late

LEMMA RecoverPreparedKeeps ==
  ASSUME NEW on \in BOOLEAN, CycleInv(on), NEW blocked \in BOOLEAN, Cycle(on)!RecoverPrepared(blocked)
           PROVE CycleInv(on)'
<1>1. c_at = "wal" /\ c_action = Cycle(on)!Undecided /\ c_saw = {} /\ c_result = Cycle(on)!Running
  BY DEF Cycle!RecoverPrepared, CycleInv
<1>2. CASE blocked BY <1>1, <1>2, StopsCleanly DEF Cycle!RecoverPrepared, Cycle!Undecided, Cycle!Exits
<1>3. CASE ~blocked
  <2>1. c_at' = "gate" /\ c_saw' = {} /\ UNCHANGED <<c_target, c_life, c_pending, c_action, c_result>>
    BY <1>1, <1>3 DEF Cycle!RecoverPrepared, Cycle!Pass
  <2>2. Cycle(on)!ExitIsNotVetoed' /\ Cycle(on)!ClosesWhenGone'
    BY <2>1 DEF Cycle!ExitIsNotVetoed, Cycle!ClosesWhenGone
  <2>3. Cycle(on)!OpensAreClean' BY <1>1, <2>1 DEF Cycle!OpensAreClean, Cycle!Running, Cycle!Opens
  <2> QED BY <1>1, <2>1, <2>2, <2>3 DEF CycleInv, Late
<1> QED BY <1>2, <1>3

LEMMA GateKeeps ==
  ASSUME NEW on \in BOOLEAN, CycleInv(on), NEW reason \in {"unresolved", "filled",
           "failed"}, NEW evidence \in BOOLEAN,
         Cycle(on)!Gate(reason, evidence)
  PROVE CycleInv(on)'
<1>1. c_at = "gate" /\ c_action = Cycle(on)!Undecided /\ c_saw = {} /\ c_result = Cycle(on)!Running
  BY DEF Cycle!Gate, CycleInv
<1>2. c_action.do \notin Cycle(on)!Exits BY <1>1 DEF Cycle!Undecided, Cycle!Exits
<1>3. CASE c_pending = "none"
  <2>1. c_at' = "ingest" /\ c_saw' = {} /\ UNCHANGED <<c_target, c_life, c_pending, c_action, c_result>>
    BY <1>1, <1>3 DEF Cycle!Gate, Cycle!Pass
  <2>2. Cycle(on)!ExitIsNotVetoed' /\ Cycle(on)!ClosesWhenGone'
    BY <2>1 DEF Cycle!ExitIsNotVetoed, Cycle!ClosesWhenGone
  <2>3. Cycle(on)!OpensAreClean' BY <1>1, <2>1 DEF Cycle!OpensAreClean, Cycle!Running, Cycle!Opens
  <2> QED BY <1>1, <1>3, <2>1, <2>2, <2>3 DEF CycleInv, Late
<1>4. CASE c_pending # "none" /\ ((c_life = "open_pending" /\ ~evidence) \/ reason = "unresolved")
  <2>1. Cycle(on)!Stop("open-unseen") \/ Cycle(on)!Stop("pending-order") BY <1>4 DEF Cycle!Gate
  <2> QED BY <1>1, <1>2, <2>1, StopsCleanly
<1>5. CASE c_pending # "none" /\ ~((c_life = "open_pending" /\ ~evidence) \/ reason = "unresolved")
  <2> DEFINE next == Cycle(on)!AfterRecovery(reason, evidence)
             again == c_life = "open_pending" /\ reason = "failed" /\ c_target.mint
             why == IF again THEN "failed-open" ELSE c_result.why
             then == IF again THEN IF Cycle(on)!Inventory THEN next ELSE "closed" ELSE c_result.next
  <2>1. /\ c_pending' = "none" /\ c_life' = next /\ c_at' = IF again THEN "done" ELSE "ingest"
        /\ c_result' = [c_result EXCEPT !.why = why, !.next = then]
        /\ UNCHANGED <<c_target, c_action, c_saw>>
    BY <1>5 DEF Cycle!Gate
  <2> HIDE DEF next, again
  <2>2. c_result'.sent = "none" /\ c_result'.next = then BY <1>1, <2>1 DEF Cycle!Running
  <2>3. Cycle(on)!ExitIsNotVetoed' BY <1>2, <2>1 DEF Cycle!ExitIsNotVetoed
  <2>4. Cycle(on)!OpensAreClean' BY <2>2 DEF Cycle!OpensAreClean, Cycle!Opens
  <2>5. Cycle(on)!ClosesWhenGone' BY <2>1, <2>2 DEF Cycle!ClosesWhenGone, Cycle!Inventory
  <2>6. ~again => c_result' = Cycle(on)!Running BY <1>1, <2>1 DEF Cycle!Running
  <2> QED BY <1>1, <2>1, <2>3, <2>4, <2>5, <2>6 DEF CycleInv, Late
<1> QED BY <1>3, <1>4, <1>5

\* What the engines decide: an open only without an LP and, against the gates, only next to
\* a leftover of the mint.
LEMMA ExitPolicy ==
  ASSUME NEW on \in BOOLEAN, NEW s \in Cycle(on)!Snapshots, NEW valued \in BOOLEAN
  PROVE Cycle(on)!LpExit(s, valued).do \in {"withdraw-lp", "claim-fee", "rebalance-lp", "hold"}
BY DEF Cycle!LpExit, Cycle!Act, Cycle!HoldFor

LEMMA NewTokenDecides ==
  ASSUME NEW on \in BOOLEAN, NEW s \in Cycle(on)!Snapshots, NEW state, NEW lp \in BOOLEAN,
           NEW inventory \in BOOLEAN
  PROVE /\ Cycle(on)!NewToken(s, state, lp, inventory).do \in Cycle(on)!Opens \cup Cycle(on)!Exits
           \cup Cycle(on)!Maintains \cup {"hold"}
        /\ Cycle(on)!NewToken(s, state, lp, inventory).do \in Cycle(on)!Opens =>
             state # "inventory_exit_ready" /\ (lp => ~on /\ ~inventory)
        /\ Cycle(on)!NewToken(s, state, lp, inventory).do = "withdraw-lp" => lp
<1> DEFINE e == Cycle(on)!LpExit(s, TRUE)
<1>1. e.do \in {"withdraw-lp", "claim-fee", "rebalance-lp", "hold"} BY ExitPolicy
<1> HIDE DEF e
<1> QED BY <1>1 DEF Cycle!NewToken, Cycle!Act, Cycle!HoldFor, Cycle!Opens, Cycle!Exits, Cycle!Maintains,
    e

LEMMA EnginesDecide ==
  ASSUME NEW on \in BOOLEAN, c_target \in Cycle(on)!Targets, NEW s \in Cycle(on)!Snapshots,
           NEW gates \in BOOLEAN
  PROVE /\ Cycle(on)!Decided(s, gates).do \in Cycle(on)!Opens \cup Cycle(on)!Exits
           \cup Cycle(on)!Maintains \cup {"hold"}
        /\ Cycle(on)!Decided(s, gates).do \in Cycle(on)!Opens /\ ~gates => c_target.token = "little"
        /\ Cycle(on)!Decided(s, gates).do = "withdraw-lp" => c_target.lp
<1> DEFINE d == Cycle(on)!Decided(s, gates)
           trigger == Cycle(on)!Triggered(s)
           large == Cycle(on)!LargePool(s, c_life, c_target.token # "none")
           clean == Cycle(on)!NewToken(s, "inventory_exit_ready", FALSE, TRUE)
           new == Cycle(on)!NewToken(s, c_life, c_target.lp, Cycle(on)!Inventory)
           every == Cycle(on)!Opens \cup Cycle(on)!Exits \cup Cycle(on)!Maintains \cup {"hold"}
<1>1. /\ trigger.do # "hold" => d = trigger
      /\ trigger.do = "hold" =>
           /\ Cycle(on)!GatesApply /\ ~Cycle(on)!MustCleanup /\ ~gates => d = Cycle(on)!HoldFor("gates")
           /\ ~(Cycle(on)!GatesApply /\ ~Cycle(on)!MustCleanup /\ ~gates) =>
                /\ c_target.class = "large-pool" => d = large
                /\ c_target.class # "large-pool" /\ Cycle(on)!MustCleanup => d = clean
                /\ c_target.class # "large-pool" /\ ~Cycle(on)!MustCleanup => d = new
  BY DEF Cycle!Decided
<1>2. c_target.lp \in BOOLEAN /\ c_target.token \in {"none", "little", "much"} /\ s.valued \in BOOLEAN
      /\ (c_target.lp => c_target.class = "new-token")
  BY DEF Cycle!Targets, Cycle!Snapshots
<1>3. trigger.do \in {"withdraw-lp", "claim-fee", "rebalance-lp", "hold"}
      /\ (trigger.do # "hold" => c_target.lp)
  BY <1>2, ExitPolicy DEF Cycle!Triggered, Cycle!HoldFor, Cycle!Act
<1>4. large.do \in every /\ (large.do \in Cycle(on)!Opens => c_target.token = "none")
      /\ large.do # "withdraw-lp"
  BY DEF Cycle!LargePool, Cycle!Act, Cycle!HoldFor, Cycle!Opens, Cycle!Exits, Cycle!Maintains
<1>5. clean.do \in every /\ clean.do \notin Cycle(on)!Opens /\ clean.do # "withdraw-lp"
  BY NewTokenDecides
<1>6. Cycle(on)!Inventory \in BOOLEAN BY <1>2 DEF Cycle!Inventory
<1>7. new.do \in every /\ (new.do \in Cycle(on)!Opens => ~c_target.lp)
      /\ (new.do = "withdraw-lp" => c_target.lp)
  <2>1. new.do \in every /\ (new.do \in Cycle(on)!Opens => (c_target.lp => ~Cycle(on)!Inventory))
        /\ (new.do = "withdraw-lp" => c_target.lp)
    BY <1>2, <1>6, NewTokenDecides
  <2> HIDE DEF new
  <2> QED BY <2>1 DEF Cycle!Inventory
<1> HIDE DEF d, trigger, large, clean, new
<1>8. trigger.do \in every /\ trigger.do \notin Cycle(on)!Opens
  BY <1>3 DEF Cycle!Opens, Cycle!Exits, Cycle!Maintains
<1>9. Cycle(on)!HoldFor("gates").do = "hold" BY DEF Cycle!HoldFor, Cycle!Act
<1>10. "hold" \notin Cycle(on)!Opens BY DEF Cycle!Opens
<1>11. d.do \in every BY <1>1, <1>4, <1>5, <1>7, <1>8, <1>9
<1>12. d.do = "withdraw-lp" => c_target.lp BY <1>1, <1>3, <1>4, <1>5, <1>7, <1>9
<1>13. ASSUME d.do \in Cycle(on)!Opens, ~gates PROVE c_target.token = "little"
  <2>1. trigger.do = "hold" /\ ~(Cycle(on)!GatesApply /\ ~Cycle(on)!MustCleanup)
    BY <1>1, <1>8, <1>9, <1>10, <1>13
  <2>2. CASE c_target.class = "large-pool"
    BY <1>1, <1>4, <1>13, <2>1, <2>2 DEF Cycle!GatesApply, Cycle!MustCleanup
  <2>3. CASE c_target.class # "large-pool"
    <3>1. ~Cycle(on)!MustCleanup /\ d = new BY <1>1, <1>5, <1>13, <2>1, <2>3
    <3>2. c_target.class = "new-token" BY <2>3 DEF Cycle!Targets
    <3> QED BY <1>2, <1>7, <1>13, <2>1, <2>3, <3>1, <3>2 DEF Cycle!GatesApply, Cycle!MustCleanup,
        Cycle!Inventory
  <2> QED BY <2>2, <2>3
<1> QED BY <1>11, <1>13, <1>12 DEF d

\* A cycle that the ingest stops had triggered nothing, so that it stops like any other.
LEMMA UndecidedStays == ASSUME NEW on \in BOOLEAN PROVE [Cycle(on)!Undecided EXCEPT !.do = "hold"] = Cycle(on)!Undecided
BY DEF Cycle!Undecided

LEMMA IngestStops ==
  ASSUME NEW on \in BOOLEAN, CycleInv(on), NEW s, NEW gates, NEW ingest, NEW recorded,
         Cycle(on)!Decide(s, gates, ingest, recorded), Cycle(on)!IngestBlocks(s, ingest)
  PROVE Cycle(on)!Stop("ingest")
<1>1. c_at = "ingest" /\ c_action = Cycle(on)!Undecided BY DEF Cycle!Decide, CycleInv
<1>2. Cycle(on)!Triggered(s).do = "hold" BY DEF Cycle!IngestBlocks
<1>3. Cycle(on)!Ends("ingest") /\ c_action' = [c_action EXCEPT !.do = Cycle(on)!Triggered(s).do]
  BY DEF Cycle!Decide
<1>4. UNCHANGED c_action BY <1>1, <1>2, <1>3, UndecidedStays
<1> QED BY <1>3, <1>4 DEF Cycle!Stop

LEMMA DecideKeeps ==
  ASSUME NEW on \in BOOLEAN, CycleInv(on), NEW s \in Cycle(on)!Snapshots, NEW gates \in BOOLEAN,
           NEW ingest \in BOOLEAN,
         NEW recorded \in BOOLEAN, Cycle(on)!Decide(s, gates, ingest, recorded)
  PROVE CycleInv(on)'
<1>1. c_at = "ingest" /\ c_action = Cycle(on)!Undecided /\ c_saw = {} /\ c_result = Cycle(on)!Running
      /\ c_pending = "none"
  BY DEF Cycle!Decide, CycleInv
<1>2. c_action.do \notin Cycle(on)!Exits BY <1>1 DEF Cycle!Undecided, Cycle!Exits
<1> DEFINE a == Cycle(on)!Decided(s, gates)
<1>3. CASE \E why \in {"ingest", "spot-reconcile", "hold"} : Cycle(on)!Stop(why)
  BY <1>1, <1>2, <1>3, StopsCleanly
<1>4. CASE ~\E why \in {"ingest", "spot-reconcile", "hold"} : Cycle(on)!Stop(why)
  <2>1. /\ a.do # "hold" /\ c_at' = "policy"
           /\ c_action' = [do |-> a.do, confirmed |-> Cycle(on)!Eligible(s, a)]
        /\ c_saw' = IF a.do \in Cycle(on)!Opens THEN Cycle(on)!Found(~gates, "gates") ELSE {}
        /\ UNCHANGED <<c_target, c_pending, c_result>>
    BY <1>4, IngestStops DEF Cycle!Decide
  <2>2. a.do \in Cycle(on)!Opens \cup Cycle(on)!Exits \cup Cycle(on)!Maintains \cup {"hold"}
        /\ (a.do \in Cycle(on)!Opens /\ ~gates => c_target.token = "little")
        /\ (a.do = "withdraw-lp" => c_target.lp)
    BY EnginesDecide DEF CycleInv
  <2> HIDE DEF a
  <2>3. c_action'.do = a.do BY <2>1
  <2>4. c_saw' \subseteq {"gates"} /\ ("gates" \in c_saw' => a.do \in Cycle(on)!Opens /\ ~gates)
    BY <2>1 DEF Cycle!Found
  <2>5. Cycle(on)!ExitIsNotVetoed' /\ Cycle(on)!ClosesWhenGone'
    BY <2>1 DEF Cycle!ExitIsNotVetoed, Cycle!ClosesWhenGone
  <2>6. Cycle(on)!OpensAreClean' BY <1>1, <2>1 DEF Cycle!OpensAreClean, Cycle!Running, Cycle!Opens
  <2> QED BY <1>1, <2>1, <2>2, <2>3, <2>4, <2>5, <2>6 DEF CycleInv, Late
<1> QED BY <1>3, <1>4

\* What a policy notes, once it has let an open pass.
LEMMA PolicyKeeps ==
  ASSUME NEW on \in BOOLEAN, CycleInv(on), NEW restricted \in BOOLEAN, NEW recent \in BOOLEAN,
           NEW cooling \in BOOLEAN,
         Cycle(on)!Policy(restricted, recent, cooling)
  PROVE CycleInv(on)'
<1> DEFINE open == c_action.do \in Cycle(on)!Opens /\ ~restricted
           taken == c_target.mint /\ Cycle(on)!Inventory /\ (c_target.lp \/ c_target.token = "much")
           stops == \/ open /\ c_target.mint /\ (recent \/ cooling \/ taken)
                    \/ restricted /\ c_action.do \notin Cycle(on)!Exits
<1>1. c_at = "policy" /\ c_at \in Late /\ c_at # "done" BY DEF Cycle!Policy, Late
<1>2. CASE stops
  <2>1. c_action.do \notin Cycle(on)!Exits BY <1>2 DEF Cycle!Opens, Cycle!Exits
  <2>2. \E why \in {"recently-closed", "mint-taken", "runtime-mode"} : Cycle(on)!Stop(why)
    BY <1>2 DEF Cycle!Policy
  <2> QED BY <1>1, <2>1, <2>2, StopsCleanly
<1>3. CASE ~stops
  <2>1. Cycle(on)!Goes("target") BY <1>3 DEF Cycle!Policy
  <2>2. ASSUME c_action.do \in Cycle(on)!Opens
        PROVE /\ c_saw' \subseteq {"gates", "recent", "cooling"}
              /\ "gates" \in c_saw' => c_target.token = "little"
              /\ c_target.mint => {"recent", "cooling"} \cap c_saw' = {}
    <3>1. ~restricted /\ ~taken /\ (c_target.mint => ~recent /\ ~cooling)
      BY <1>3, <2>2 DEF Cycle!Opens, Cycle!Exits
    <3>2. c_saw' = c_saw \cup Cycle(on)!Found(FALSE, "restricted") \cup Cycle(on)!Found(recent, "recent")
                     \cup Cycle(on)!Found(cooling, "cooling") \cup Cycle(on)!Found(FALSE, "taken")
      BY <2>2, <3>1 DEF Cycle!Policy, Cycle!Note
    <3>3. c_saw' = c_saw \cup Cycle(on)!Found(recent, "recent") \cup Cycle(on)!Found(cooling, "cooling")
      BY <3>2 DEF Cycle!Found
    <3>4. c_saw \subseteq {"gates", "recent", "cooling"}
          /\ ("gates" \in c_saw => c_target.token = "little")
          /\ {"recent", "cooling"} \cap c_saw = {}
      BY <1>1, <2>2 DEF CycleInv
    <3> QED BY <3>1, <3>3, <3>4 DEF Cycle!Found
  <2>3. "target" \in Late \ {"policy"} BY DEF Late
  <2> QED BY <1>1, <2>1, <2>2, <2>3, GoesOn
<1> QED BY <1>2, <1>3

\* What a sale has shown, and the facts of an open that none of the later policies changes.
LEMMA SaleSoFar ==
  ASSUME NEW on \in BOOLEAN, CycleInv(on), c_at \in Late \ {"policy", "target"}, c_action.do = "dca-out"
  PROVE c_target.token # "none"
BY DEF CycleInv

LEMMA OpenSoFar ==
  ASSUME NEW on \in BOOLEAN, CycleInv(on), c_at \in Late, c_at # "policy",
           c_action.do \in Cycle(on)!Opens
  PROVE /\ c_saw \subseteq {"gates", "recent", "cooling"}
        /\ "gates" \in c_saw => c_target.token = "little"
        /\ c_target.mint => {"recent", "cooling"} \cap c_saw = {}
BY DEF CycleInv

LEMMA TargetKeeps ==
  ASSUME NEW on \in BOOLEAN, CycleInv(on), NEW deferred \in BOOLEAN, NEW value \in BOOLEAN,
           Cycle(on)!Target(deferred, value)
  PROVE CycleInv(on)'
<1>1. c_at = "target" /\ c_at \in Late /\ c_saw' = c_saw /\ "quote" \in Late \ {"policy"}
  BY DEF Cycle!Target, Late
<1>2. CASE \E why \in {"left-to-sweep", "ineligible", "no-balance", "no-value"} : Cycle(on)!Stop(why)
  BY <1>1, <1>2, StopsCleanly
<1>3. CASE ~\E why \in {"left-to-sweep", "ineligible", "no-balance", "no-value"} : Cycle(on)!Stop(why)
  <2>1. Cycle(on)!Goes("quote") /\ (c_action.do = "dca-out" => c_target.token # "none")
    BY <1>3 DEF Cycle!Target
  <2> QED BY <1>1, <2>1, OpenSoFar, GoesOn
<1> QED BY <1>2, <1>3

LEMMA QuoteKeeps == ASSUME NEW on \in BOOLEAN, CycleInv(on), NEW fails \in BOOLEAN,
  Cycle(on)!Quote(fails) PROVE CycleInv(on)'
<1>1. c_at = "quote" /\ c_at \in Late /\ "account" \in Late \ {"policy"} BY DEF Cycle!Quote, Late
<1>2. CASE fails /\ c_action.do \notin Cycle(on)!Exits \cup {"claim-fee"}
  BY <1>1, <1>2, StopsCleanly DEF Cycle!Quote
<1>3. CASE ~(fails /\ c_action.do \notin Cycle(on)!Exits \cup {"claim-fee"})
  <2>1. Cycle(on)!Goes("account") BY <1>3 DEF Cycle!Quote
  <2>2. c_action.do \in Cycle(on)!Opens => c_saw' = c_saw
    BY <1>3 DEF Cycle!Quote, Cycle!Note, Cycle!Found, Cycle!Opens, Cycle!Exits
  <2> QED BY <1>1, <2>1, <2>2, OpenSoFar, SaleSoFar, GoesOn
<1> QED BY <1>2, <1>3

LEMMA AccountKeeps ==
  ASSUME NEW on \in BOOLEAN, CycleInv(on), NEW disabled \in BOOLEAN, NEW mismatch \in BOOLEAN,
           Cycle(on)!Account(disabled, mismatch)
  PROVE CycleInv(on)'
<1> DEFINE exposed == \/ c_action.do = "dca-out" /\ c_target.token # "none"
                      \/ c_action.do = "withdraw-lp" /\ c_target.lp
<1>1. c_at = "account" /\ c_at \in Late /\ "guards" \in Late \ {"policy"} BY DEF Cycle!Account, Late
<1>2. CASE disabled BY <1>1, <1>2, StopsCleanly DEF Cycle!Account
<1>3. CASE ~disabled /\ mismatch /\ ~exposed
  <2>1. Cycle(on)!Stop("mismatch") /\ c_action.do \notin Cycle(on)!Exits
    BY <1>1, <1>3, SaleSoFar DEF Cycle!Account, CycleInv, Cycle!Exits
  <2> QED BY <1>1, <2>1, StopsCleanly
<1>4. CASE ~disabled /\ ~(mismatch /\ ~exposed)
  <2>1. Cycle(on)!Goes("guards") BY <1>4 DEF Cycle!Account
  <2>2. c_action.do \in Cycle(on)!Opens => c_saw' = c_saw
    BY <1>4 DEF Cycle!Account, Cycle!Note, Cycle!Found, Cycle!Opens
  <2> QED BY <1>1, <2>1, <2>2, OpenSoFar, SaleSoFar, GoesOn
<1> QED BY <1>2, <1>3, <1>4

LEMMA GuardsKeep ==
  ASSUME NEW on \in BOOLEAN, CycleInv(on), NEW killed \in BOOLEAN, NEW closed \in BOOLEAN,
           NEW over \in BOOLEAN,
         Cycle(on)!Guards(killed, closed, over)
  PROVE CycleInv(on)'
<1>1. c_at = "guards" /\ c_at \in Late /\ "identity" \in Late \ {"policy"} BY DEF Cycle!Guards, Late
<1>2. CASE (c_action.do \notin Cycle(on)!Exits /\ (killed \/ closed))
      \/ (c_action.do \in Cycle(on)!Opens /\ over)
  <2>1. Cycle(on)!Stop("guards") /\ c_action.do \notin Cycle(on)!Exits
    BY <1>2 DEF Cycle!Guards, Cycle!Opens, Cycle!Exits
  <2> QED BY <1>1, <2>1, StopsCleanly
<1>3. CASE ~((c_action.do \notin Cycle(on)!Exits /\ (killed \/ closed))
      \/ (c_action.do \in Cycle(on)!Opens /\ over))
  <2>1. Cycle(on)!Goes("identity") BY <1>3 DEF Cycle!Guards
  <2>2. c_action.do \in Cycle(on)!Opens => c_saw' = c_saw
    BY <1>3 DEF Cycle!Guards, Cycle!Note, Cycle!Found, Cycle!Opens, Cycle!Exits
  <2> QED BY <1>1, <2>1, <2>2, OpenSoFar, SaleSoFar, GoesOn
<1> QED BY <1>2, <1>3

LEMMA SendKeeps ==
  ASSUME NEW on \in BOOLEAN, CycleInv(on), NEW addressed \in BOOLEAN, NEW resolved \in BOOLEAN,
           Cycle(on)!Send(addressed, resolved)
  PROVE CycleInv(on)'
<1>1. c_at = "identity" /\ c_at \in Late /\ c_at # "policy" /\ c_saw' = c_saw
      /\ c_result = Cycle(on)!Running
      /\ c_pending = "none" /\ c_action.do \in Cycle(on)!Opens \cup Cycle(on)!Exits
         \cup Cycle(on)!Maintains
  BY DEF Cycle!Send, Late, CycleInv
<1>2. CASE \E why \in {"no-address", "spot-reconcile", "no-amount"} : Cycle(on)!Stop(why)
  BY <1>1, <1>2, StopsCleanly
<1>3. CASE ~\E why \in {"no-address", "spot-reconcile", "no-amount"} : Cycle(on)!Stop(why)
  <2> DEFINE next == Cycle(on)!AfterOrder(c_action.do, resolved)
  <2>1. /\ c_at' = "done" /\ c_result' = [c_result EXCEPT !.sent = c_action.do, !.next = next]
        /\ UNCHANGED <<c_target, c_life, c_pending, c_action>>
    BY <1>3 DEF Cycle!Send
  <2>2. next = "closed" => c_action.do = "dca-out" \/ c_life = "closed"
    BY DEF Cycle!AfterOrder, Cycle!Opens
  <2> HIDE DEF next
  <2>3. c_result'.sent = c_action.do /\ c_result'.next = next BY <1>1, <2>1 DEF Cycle!Running
  <2>4. c_action.do # "none" BY <1>1 DEF Cycle!Opens, Cycle!Exits, Cycle!Maintains
  <2>5. Cycle(on)!ExitIsNotVetoed' BY <2>1, <2>3, <2>4 DEF Cycle!ExitIsNotVetoed
  <2>6. Cycle(on)!OpensAreClean' BY <1>1, <2>1, <2>3, OpenSoFar DEF Cycle!OpensAreClean
  <2>7. Cycle(on)!ClosesWhenGone' BY <2>1, <2>2, <2>3, <2>4 DEF Cycle!ClosesWhenGone
  <2> QED BY <1>1, <2>1, <2>5, <2>6, <2>7 DEF CycleInv, Late
<1> QED BY <1>2, <1>3

LEMMA CycleStep == ASSUME NEW on \in BOOLEAN, CycleInv(on), [Cycle(on)!Next]_cycleVars
  PROVE CycleInv(on)'
<1>1. CASE Cycle(on)!NextCycle BY <1>1, NextCycleKeeps
<1>2. CASE \E blocked \in BOOLEAN : Cycle(on)!RecoverPrepared(blocked) BY <1>2, RecoverPreparedKeeps
<1>3. CASE \E reason \in {"unresolved", "filled", "failed"}, evidence \in BOOLEAN :
             Cycle(on)!Gate(reason, evidence)
  BY <1>3, GateKeeps
<1>4. CASE \E s \in Cycle(on)!Snapshots, gates, ingest, recorded \in BOOLEAN : Cycle(on)!Decide(s, gates,
      ingest, recorded)
  BY <1>4, DecideKeeps
<1>5. CASE \E restricted, recent, cooling \in BOOLEAN : Cycle(on)!Policy(restricted, recent, cooling)
  BY <1>5, PolicyKeeps
<1>6. CASE \E deferred, value \in BOOLEAN : Cycle(on)!Target(deferred, value) BY <1>6, TargetKeeps
<1>7. CASE \E fails \in BOOLEAN : Cycle(on)!Quote(fails) BY <1>7, QuoteKeeps
<1>8. CASE \E disabled, mismatch \in BOOLEAN : Cycle(on)!Account(disabled, mismatch)
  BY <1>8, AccountKeeps
<1>9. CASE \E killed, closed, over \in BOOLEAN : Cycle(on)!Guards(killed, closed, over)
  BY <1>9, GuardsKeep
<1>10. CASE \E addressed, resolved \in BOOLEAN : Cycle(on)!Send(addressed, resolved) BY <1>10, SendKeeps
<1>11. CASE UNCHANGED cycleVars
  BY <1>11 DEF cycleVars, CycleInv, Cycle!ExitIsNotVetoed, Cycle!OpensAreClean, Cycle!ClosesWhenGone,
     Cycle!Inventory
<1> QED BY <1>1, <1>2, <1>3, <1>4, <1>5, <1>6, <1>7, <1>8, <1>9, <1>10, <1>11 DEF Cycle!Next

\* The cycle of the strategy that the behaviour is about.
CycleOK == \A on \in BOOLEAN : part = CyclePart(on) => CycleInv(on)

LEMMA CycleAlways == CompSpec => []CycleOK
<1>1. ASSUME CompInit PROVE CycleOK
  <2> SUFFICES ASSUME NEW on \in BOOLEAN, part = CyclePart(on) PROVE CycleInv(on) BY DEF CycleOK
  <2>1. Cycle(on)!Init BY <1>1 DEF CompInit, CyclePart
  <2> QED BY <2>1, CycleStarts
<1>2. ASSUME CycleOK, [CompNext]_all PROVE CycleOK'
  <2> SUFFICES ASSUME NEW on \in BOOLEAN, part' = CyclePart(on) PROVE CycleInv(on)' BY DEF CycleOK
  <2>1. part = CyclePart(on) BY <1>2, OthersStutter
  <2>2. CycleInv(on) BY <1>2, <2>1 DEF CycleOK
  <2>3. [Cycle(on)!Next]_cycleVars BY <1>2, <2>1, OthersStutter DEF CyclePart
  <2> QED BY <2>2, <2>3, CycleStep
<1> QED BY <1>1, <1>2, PTL DEF CompSpec

\* Once the engine wants out of a position, nothing that protects against new exposure stops
\* the exit (runLiveCycle, applyRuntimeActionPolicy, evaluateLiveGuards).
THEOREM ExitsGoOn == CompSpec => []ExitIsNotVetoed
<1>1. ASSUME CycleOK PROVE ExitIsNotVetoed
  BY <1>1 DEF CycleOK, CycleInv, ExitIsNotVetoed
<1> QED BY <1>1, CycleAlways, PTL

\* An open is sent only when no order was pending and no policy spoke against it, but for the
\* gates next to a leftover of the mint (runLiveCycle).
THEOREM OpensAreClear == CompSpec => []OpensAreClean
<1>1. ASSUME CycleOK PROVE OpensAreClean
  BY <1>1 DEF CycleOK, CycleInv, OpensAreClean
<1> QED BY <1>1, CycleAlways, PTL

\* A cycle declares a lifecycle closed only when nothing is pending and nothing is held, or
\* the sale it sent has sold it (finalize, resolveNextLifecycleState).
THEOREM ClosesAreSound == CompSpec => []ClosesWhenGone
<1>1. ASSUME CycleOK PROVE ClosesWhenGone
  BY <1>1 DEF CycleOK, CycleInv, ClosesWhenGone
<1> QED BY <1>1, CycleAlways, PTL
-----------------------------------------------------------------------------
(* SpotInventory.                                                          *)

LEMMA BuysAreNumbered == 0 \notin Buys /\ Deposit \in Nat
BY CompAssumption DEF Inventory!SpotAssumption

LEMMA InventorySums ==
  ASSUME NEW f, NEW S PROVE Inventory!SumFunctionOnSet(f, S) = SumFunctionOnSet(f, S)
BY DEF Inventory!SumFunctionOnSet, Inventory!FoldFunctionOnSet, Inventory!MapThenFoldSet,
  SumFunctionOnSet, FoldFunctionOnSet, MapThenFoldSet

SpotTyped ==
  /\ i_wallet \in Nat /\ i_users \in Nat /\ i_users <= i_wallet
  /\ i_record \in [Buys -> [life : Inventory!Lives, owned : Nat]]
  /\ i_state.life \in Inventory!Lives /\ i_state.owned \in Nat
  /\ i_order.side \in {"none", "deploy", "sale"} /\ i_order.input \in Nat /\ i_order.pre \in Nat
  /\ i_fate \in Inventory!Fates
  /\ i_wal \in BOOLEAN /\ i_pending \in BOOLEAN /\ i_settled \in BOOLEAN
  /\ i_at \in {"idle", "cycle", "sending", "sent", "recovered", "booked", "stated"}
  /\ i_seen \in Nat

\* One purchase at most owns something.
Owns(b) == i_record[b].owned > 0
NoneOwns == \A b \in Buys : ~Owns(b)
OnlyOwner(b) == \A c \in Buys \ {b} : ~Owns(c)
OneOwner ==
  \A b \in Buys : Owns(b) => i_record[b].life \in {"open", "exiting", "reconcile"} /\ OnlyOwner(b)

\* If n tokens of the wallet are more than the owner's, a purchase other than b is unresolved.
Unresolved(b) == i_record[b].life = "reconcile" /\ ~Owns(b)
Explained(b, n) == n > i_users => \E c \in Buys \ {b} : Unresolved(c)

\* What the books say between two orders.
Backed ==
  /\ \A b \in Buys : Owns(b) => /\ i_users + i_record[b].owned <= i_wallet
                                /\ Explained(b, i_wallet - i_record[b].owned)
  /\ NoneOwns => Explained(0, i_wallet)
Agrees ==
  /\ i_state.owned > 0 => i_state.buy \in Buys /\ i_record[i_state.buy].owned = i_state.owned
  /\ i_state.life = "closed" => NoneOwns

\* What they say while a purchase of b is under way, and while a sale of b is.
DeployInv(b) ==
  /\ b \in Buys /\ i_users <= i_order.pre
  /\ i_wallet = i_order.pre + (IF i_fate = "landed" THEN 1 ELSE 0)
  /\ OnlyOwner(b)
  /\ Owns(b) => i_record[b].owned = i_wallet - i_order.pre
  /\ i_state.owned > 0 => i_state.buy = b /\ i_state.owned = i_record[b].owned
  /\ Explained(b, i_order.pre)
SaleInv(b) ==
  /\ b \in Buys /\ i_order.input > 0 /\ i_users + i_order.input <= i_order.pre
  /\ i_wallet = i_order.pre - (IF i_fate = "landed" THEN i_order.input ELSE 0)
  /\ OnlyOwner(b)
  /\ i_record[b].owned = i_order.input \/ (i_fate = "landed" /\ ~Owns(b))
  /\ i_fate # "landed" => i_state.life # "closed"
  /\ i_state.owned > 0 => i_state.buy = b /\ i_state.owned = i_order.input
  /\ Explained(b, i_order.pre - i_order.input)

Under == i_wal \/ i_pending
UnderInv ==
  Under => \/ i_order.side = "deploy" /\ DeployInv(i_order.buy)
           \/ i_order.side = "sale" /\ SaleInv(i_order.buy)
RestInv ==
  ~Under =>
    /\ Backed
    /\ Agrees
    /\ i_fate = "flying" =>
         /\ i_order.side = "deploy" /\ NoneOwns /\ i_wallet > 0
         /\ \E c \in Buys : Unresolved(c)
         /\ i_state.life # "closed"

\* An order that need not be recovered any more.
Resolved ==
  \/ i_order.side = "deploy" /\ i_fate = "failed"
  \/ /\ i_order.side = "deploy" /\ (Owns(i_order.buy) \/ i_record[i_order.buy].life = "reconcile")
     /\ i_fate = "flying" => i_wallet > 0
  \/ i_order.side = "sale" /\ i_fate = "landed" /\ ~Owns(i_order.buy)
  \/ i_order.side = "sale" /\ i_fate = "failed"
PlaceInv ==
  /\ i_wal => i_at \in {"idle", "sending"} /\ ~i_pending
  /\ i_fate = "unsent" => i_wal
  /\ Under => i_fate # "none"
  /\ i_at = "sending" => i_wal
  /\ i_at = "sent" => i_pending
  /\ i_at = "recovered" => i_settled
  /\ i_settled => i_pending /\ i_fate # "unsent" /\ i_at \in {"recovered", "booked", "stated"} /\ Resolved
  /\ i_at \in {"sending", "sent"} =>
       /\ i_seen = i_order.pre
       /\ i_order.side = "deploy" => ~Owns(i_order.buy)
       /\ i_order.side = "sale" => Owns(i_order.buy)
  /\ i_at = "cycle" /\ ~i_pending =>
       i_seen = i_wallet \/ (NoneOwns /\ i_state.life # "closed" /\ i_state.owned = 0)
  /\ i_at = "stated" => Agrees /\ (i_settled /\ i_fate = "flying" => i_state.life # "closed")

SpotInv == SpotTyped /\ OneOwner /\ UnderInv /\ RestInv /\ PlaceInv

USE DEF SpotInv

LEMMA SpotStarts == ASSUME Inventory!Init PROVE SpotInv
<1>1. SpotTyped
  <2>1. i_record \in [Buys -> [life : Inventory!Lives, owned : Nat]] BY DEF Inventory!Init, Inventory!Lives
  <2>2. i_state.life = "closed" /\ i_state.owned = 0 BY DEF Inventory!Init, Inventory!Closed
  <2>3. i_order.side = "none" /\ i_order.input = 0 /\ i_order.pre = 0 BY DEF Inventory!Init, Inventory!NoOrder
  <2>4. i_wallet \in Nat /\ i_users = i_wallet BY BuysAreNumbered DEF Inventory!Init
  <2>5. i_fate = "none" /\ i_at = "idle" /\ i_wal = FALSE /\ i_pending = FALSE /\ i_settled = FALSE /\ i_seen = 0
    BY DEF Inventory!Init
  <2>6. i_state.life \in Inventory!Lives /\ i_fate \in Inventory!Fates BY <2>2, <2>5 DEF Inventory!Lives, Inventory!Fates
  <2>7. i_wal \in BOOLEAN /\ i_pending \in BOOLEAN /\ i_settled \in BOOLEAN BY <2>5
  <2> QED BY <2>1, <2>2, <2>3, <2>4, <2>5, <2>6, <2>7 DEF SpotTyped
<1>2. NoneOwns BY DEF Inventory!Init, NoneOwns, Owns
<1>3. i_wallet = i_users BY DEF Inventory!Init
<1>4. ~Under /\ i_at = "idle" /\ i_fate = "none" /\ i_settled = FALSE /\ i_state.owned = 0 BY DEF Inventory!Init, Under, Inventory!Closed
<1>5. Backed BY <1>1, <1>2, <1>3 DEF Backed, Explained, NoneOwns, SpotTyped
<1>6. Agrees BY <1>2, <1>4 DEF Agrees
<1> QED BY <1>1, <1>2, <1>4, <1>5, <1>6 DEF SpotInv, OneOwner, NoneOwns, UnderInv, RestInv, PlaceInv, Under

\* Steps after which the books are as before.
BooksAlike == UNCHANGED <<i_record, i_state>>

LEMMA OwnerMovesKeeps == ASSUME SpotInv, Inventory!OwnerMoves PROVE SpotInv'
<1>1. SpotTyped' BY BuysAreNumbered DEF Inventory!OwnerMoves, SpotTyped, Inventory!books, Inventory!files
<1>2. UNCHANGED <<i_record, i_state, i_order, i_fate, i_wal, i_pending, i_at, i_seen, i_settled>> /\ ~Under /\ i_at = "idle"
      /\ i_fate # "flying" /\ i_settled = FALSE
  BY DEF Inventory!OwnerMoves, Inventory!Quiet, Inventory!books, Inventory!files, Under, PlaceInv, SpotTyped
<1>3. i_wallet' \in Nat /\ i_users' \in Nat BY <1>1 DEF SpotTyped
<1>5. PICK d \in Int : i_wallet' = i_wallet + d /\ i_users' = i_users + d
  <2>1. Deposit \in Int /\ 0 - Deposit \in Int BY BuysAreNumbered
  <2>2. CASE i_wallet' = i_wallet + Deposit /\ i_users' = i_users + Deposit BY <2>1, <2>2
  <2>3. CASE i_wallet' = i_wallet - Deposit /\ i_users' = i_users - Deposit
    <3>1. i_wallet' = i_wallet + (0 - Deposit) /\ i_users' = i_users + (0 - Deposit)
      BY <2>1, <2>3 DEF SpotTyped
    <3> QED BY <2>1, <3>1
  <2> QED BY <2>2, <2>3 DEF Inventory!OwnerMoves
<1>4. Backed'
  <2>1. Backed BY <1>2 DEF RestInv
  <2>2. i_wallet \in Nat /\ i_users \in Nat /\ \A b \in Buys : i_record[b].owned \in Nat BY DEF SpotTyped
  <2>3. \A n \in Nat : i_wallet' - n > i_users' <=> i_wallet - n > i_users BY <1>5, <2>2
  <2>4. \A b \in Buys : i_users' + i_record[b].owned <= i_wallet' <=> i_users + i_record[b].owned <= i_wallet
    BY <1>5, <2>2
  <2>5. i_wallet' > i_users' <=> i_wallet > i_users BY <1>5, <2>2
  <2> QED BY <1>2, <2>1, <2>2, <2>3, <2>4, <2>5 DEF Backed, Explained, NoneOwns, Owns, Unresolved
<1> QED BY <1>1, <1>2, <1>4 DEF SpotInv, OneOwner, OnlyOwner, Owns, UnderInv, RestInv, PlaceInv, Under,
    Agrees, NoneOwns

LEMMA LandsKeeps == ASSUME SpotInv, Inventory!Lands PROVE SpotInv'
<1>1. /\ UNCHANGED <<i_users, i_record, i_state, i_order, i_wal, i_pending, i_at, i_seen, i_settled>>
      /\ i_fate = "flying" /\ i_fate' = "landed"
      /\ \/ i_order.side = "deploy" /\ i_wallet' = i_wallet + 1
         \/ i_order.side = "sale" /\ i_order.input <= i_wallet /\ i_wallet' = i_wallet - i_order.input
  BY DEF Inventory!Lands, Inventory!books, Inventory!files
<1>2. SpotTyped'
  <2>1. Under => i_users <= i_wallet'
    BY <1>1 DEF UnderInv, DeployInv, SaleInv, SpotTyped
  <2>2. ~Under => i_users <= i_wallet' BY <1>1 DEF RestInv, SpotTyped
  <2> QED BY <1>1, <2>1, <2>2 DEF SpotTyped, Inventory!Fates
<1>3. OneOwner' BY <1>1 DEF OneOwner, OnlyOwner, Owns
<1>4. UnderInv'
  BY <1>1 DEF UnderInv, Under, DeployInv, SaleInv, OnlyOwner, Owns, Explained, Unresolved, SpotTyped
<1>5. RestInv'
  BY <1>1, BuysAreNumbered DEF RestInv, Backed, Agrees, NoneOwns, Owns, Explained, Unresolved, SpotTyped, Under
<1>6. PlaceInv'
  <2>1. i_settled => Resolved'
    BY <1>1 DEF PlaceInv, Resolved, Owns
  <2>2. i_at = "cycle" /\ ~i_pending => NoneOwns /\ i_state.life # "closed" /\ i_state.owned = 0
    BY <1>1 DEF RestInv, Under, PlaceInv, Agrees, NoneOwns, Owns, SpotTyped
  <2> QED BY <1>1, <2>1, <2>2 DEF PlaceInv, Under, Agrees, NoneOwns, Owns
<1> QED BY <1>2, <1>3, <1>4, <1>5, <1>6

LEMMA FailsKeeps == ASSUME SpotInv, Inventory!Fails PROVE SpotInv'
<1>1. /\ UNCHANGED <<i_wallet, i_users, i_record, i_state, i_order, i_wal, i_pending, i_at, i_seen, i_settled>>
      /\ i_fate = "flying" /\ i_fate' = "failed"
  BY DEF Inventory!Fails, Inventory!account, Inventory!books, Inventory!files
<1>2. SpotTyped' BY <1>1 DEF SpotTyped, Inventory!Fates
<1>3. OneOwner' BY <1>1 DEF OneOwner, OnlyOwner, Owns
<1>4. UnderInv'
  BY <1>1 DEF UnderInv, Under, DeployInv, SaleInv, OnlyOwner, Owns, Explained, Unresolved, SpotTyped
<1>5. RestInv'
  BY <1>1 DEF RestInv, Backed, Agrees, NoneOwns, Owns, Explained, Unresolved, SpotTyped, Under
<1>6. PlaceInv'
  BY <1>1 DEF PlaceInv, Resolved, Under, Agrees, NoneOwns, Owns
<1> QED BY <1>2, <1>3, <1>4, <1>5, <1>6

LEMMA OrderSentKeeps == ASSUME SpotInv, Inventory!Send PROVE SpotInv'
<1>1. /\ UNCHANGED <<i_wallet, i_users, i_record, i_state, i_order, i_wal, i_pending, i_at, i_seen, i_settled>>
      /\ i_wal /\ i_fate = "unsent" /\ i_at \in {"idle", "sending"} /\ i_fate' = "flying"
  BY DEF Inventory!Send, Inventory!account, Inventory!books, Inventory!files
<1>2. SpotTyped' BY <1>1 DEF SpotTyped, Inventory!Fates
<1>3. OneOwner' BY <1>1 DEF OneOwner, OnlyOwner, Owns
<1>4. UnderInv'
  BY <1>1 DEF UnderInv, Under, DeployInv, SaleInv, OnlyOwner, Owns, Explained, Unresolved, SpotTyped
<1>5. RestInv' BY <1>1 DEF RestInv, Under
<1>6. PlaceInv' BY <1>1 DEF PlaceInv, Under, Agrees, NoneOwns, Owns
<1> QED BY <1>2, <1>3, <1>4, <1>5, <1>6

LEMMA TakeAnswerKeeps == ASSUME SpotInv, Inventory!TakeAnswer PROVE SpotInv'
<1>1. /\ UNCHANGED <<i_wallet, i_users, i_record, i_state, i_order, i_fate, i_seen, i_settled>>
      /\ i_wal /\ i_fate # "unsent" /\ i_at \in {"idle", "sending"} /\ i_wal' = FALSE /\ i_pending' = TRUE
      /\ i_at' = IF i_at = "idle" THEN "idle" ELSE "sent"
  BY DEF Inventory!TakeAnswer, Inventory!account, Inventory!books
<1>2. SpotTyped' BY <1>1 DEF SpotTyped
<1>3. OneOwner' BY <1>1 DEF OneOwner, OnlyOwner, Owns
<1>4. UnderInv'
  BY <1>1 DEF UnderInv, Under, DeployInv, SaleInv, OnlyOwner, Owns, Explained, Unresolved
<1>5. RestInv' BY <1>1 DEF RestInv, Under
<1>6. PlaceInv' BY <1>1 DEF PlaceInv, Under, Agrees, NoneOwns, Owns, Resolved
<1> QED BY <1>2, <1>3, <1>4, <1>5, <1>6

\* An order that did not land leaves the books as they are between two orders.
LEMMA NotLandedRests ==
  ASSUME SpotInv, Under, i_fate # "landed"
  PROVE /\ Backed /\ Agrees
        /\ i_order.side = "deploy" => NoneOwns /\ Explained(i_order.buy, i_wallet) /\ i_state.owned = 0
<1>1. CASE i_order.side = "deploy" /\ DeployInv(i_order.buy)
  <2>2. i_wallet = i_order.pre /\ i_wallet \in Nat BY <1>1 DEF DeployInv, SpotTyped
  <2>1. NoneOwns
    <3>1. ~Owns(i_order.buy) BY <1>1, <2>2 DEF DeployInv, Owns
    <3> QED BY <1>1, <3>1 DEF DeployInv, NoneOwns, OnlyOwner
  <2>3. Explained(i_order.buy, i_wallet) /\ Explained(0, i_wallet)
    <3>1. 0 \notin Buys BY BuysAreNumbered
    <3> QED BY <1>1, <2>2, <3>1 DEF DeployInv, Explained
  <2>4. i_state.owned = 0 BY <1>1, <2>1 DEF DeployInv, NoneOwns, Owns, SpotTyped
  <2> QED BY <2>1, <2>3, <2>4 DEF Backed, Agrees, NoneOwns
<1>2. CASE i_order.side = "sale" /\ SaleInv(i_order.buy)
  <2>1. /\ i_wallet = i_order.pre /\ i_order.buy \in Buys /\ i_record[i_order.buy].owned = i_order.input
        /\ Owns(i_order.buy) /\ OnlyOwner(i_order.buy) /\ i_users + i_order.input <= i_wallet
        /\ Explained(i_order.buy, i_wallet - i_order.input) /\ i_state.life # "closed"
        /\ i_state.owned > 0 => i_state.buy = i_order.buy /\ i_state.owned = i_order.input
    BY <1>2 DEF SaleInv, Owns, SpotTyped
  <2> QED BY <1>2, <2>1 DEF Backed, Agrees, NoneOwns, OnlyOwner
<1> QED BY <1>1, <1>2 DEF UnderInv

LEMMA RefuseKeeps == ASSUME SpotInv, Inventory!Refuse PROVE SpotInv'
<1>1. /\ UNCHANGED <<i_wallet, i_users, i_state, i_order, i_pending, i_seen, i_settled>>
      /\ i_wal /\ i_fate = "unsent" /\ i_at \in {"idle", "sending"} /\ i_wal' = FALSE /\ i_fate' = "none"
      /\ \/ i_at' = i_at /\ i_at = "idle" /\ i_record' = i_record
         \/ /\ i_at' = "booked"
            /\ i_record' = i_record \/ (i_order.side = "deploy" /\ i_record' = Inventory!Books(i_order.buy, "left", 0))
  <2>1. /\ UNCHANGED <<i_wallet, i_users, i_state, i_order, i_pending, i_seen, i_settled>>
        /\ i_wal /\ i_fate = "unsent" /\ i_at \in {"idle", "sending"} /\ i_wal' = FALSE /\ i_fate' = "none"
    BY DEF Inventory!Refuse, Inventory!account
  <2>2. CASE i_at = "idle" BY <2>1, <2>2 DEF Inventory!Refuse
  <2>3. CASE i_at # "idle"
    <3>1. i_at' = "booked" BY <2>3 DEF Inventory!Refuse
    <3>2. i_record' = IF i_order.side = "deploy" THEN Inventory!Books(i_order.buy, "left", 0) ELSE i_record
      BY <2>3 DEF Inventory!Refuse
    <3> QED BY <2>1, <3>1, <3>2
  <2> QED BY <2>1, <2>2, <2>3
<1>2. Under /\ ~Under' /\ ~i_pending /\ i_settled = FALSE
  BY <1>1 DEF Under, PlaceInv, SpotTyped
<1>3. /\ Backed /\ Agrees
      /\ i_order.side = "deploy" => NoneOwns /\ Explained(i_order.buy, i_wallet) /\ i_state.owned = 0
  BY <1>1, <1>2, NotLandedRests
<1>4. SpotTyped' /\ OneOwner' /\ Backed' /\ Agrees'
  <2>1. CASE i_record' = i_record
    BY <1>1, <1>3, <2>1 DEF SpotTyped, Inventory!Fates, OneOwner, OnlyOwner, Owns, Backed, Agrees, NoneOwns,
       Explained, Unresolved
  <2>2. CASE i_order.side = "deploy" /\ i_record' = Inventory!Books(i_order.buy, "left", 0)
    <3>1. i_record' \in [Buys -> [life : Inventory!Lives, owned : Nat]] BY <2>2 DEF SpotTyped, Inventory!Books, Inventory!Lives
    <3>2. NoneOwns' BY <1>3, <2>2 DEF NoneOwns, Owns, Inventory!Books, SpotTyped
    <3>3. \A c \in Buys : c # i_order.buy => i_record'[c] = i_record[c] BY <2>2 DEF Inventory!Books, SpotTyped
    <3>4. Explained(i_order.buy, i_wallet)' BY <1>1, <1>3, <2>2, <3>3 DEF Explained, Unresolved, Owns
    <3>5. Explained(0, i_wallet)'
      <4>1. 0 \notin Buys BY BuysAreNumbered
      <4> QED BY <3>4, <4>1 DEF Explained
    <3>6. OneOwner' /\ Backed' BY <3>2, <3>5 DEF OneOwner, Backed, NoneOwns
    <3>7. Agrees' BY <1>1, <1>3, <2>2, <3>2 DEF Agrees
    <3>8. SpotTyped' BY <1>1, <3>1 DEF SpotTyped, Inventory!Fates
    <3> QED BY <3>6, <3>7, <3>8
  <2> QED BY <1>1, <2>1, <2>2
<1>5. UnderInv' BY <1>2 DEF UnderInv
<1>6. RestInv' BY <1>1, <1>4 DEF RestInv
<1>7. PlaceInv' BY <1>1, <1>2 DEF PlaceInv
<1> QED BY <1>4, <1>5, <1>6, <1>7

LEMMA RecoverDeployKeeps == ASSUME SpotInv, Inventory!RecoverDeploy PROVE SpotInv'
<1> DEFINE b == i_order.buy
<1>1. /\ UNCHANGED <<i_wallet, i_users, i_state, i_order, i_fate, i_wal, i_pending, i_seen>>
      /\ i_at = "idle" /\ ~i_wal /\ i_pending /\ i_order.side = "deploy" /\ Inventory!Filled
      /\ i_at' = "recovered" /\ i_settled' = TRUE
      /\ \/ i_wallet > i_order.pre /\ i_record' = Inventory!Books(b, "open", i_wallet - i_order.pre)
         \/ i_record' = Inventory!Books(b, "reconcile", i_record[b].owned)
  BY DEF Inventory!RecoverDeploy, Inventory!Recovers, Inventory!OpenEvidence, Inventory!account, Inventory!files
<1>2. Under /\ Under' /\ DeployInv(b) BY <1>1 DEF Under, UnderInv
<1>3. b \in Buys /\ i_record[b].owned \in Nat /\ i_wallet \in Nat /\ i_order.pre \in Nat
  BY <1>2 DEF DeployInv, SpotTyped
<1>4. \A c \in Buys : c # b => i_record'[c] = i_record[c] BY <1>1, <1>3 DEF Inventory!Books, SpotTyped
<1>5. PICK l \in {"open", "reconcile"}, n \in Nat :
        /\ i_record' = Inventory!Books(b, l, n)
        /\ l = "open" => n > 0
        /\ n > 0 => n = i_wallet - i_order.pre
        /\ i_record[b].owned > 0 => n = i_record[b].owned
  <2>1. CASE i_wallet > i_order.pre /\ i_record' = Inventory!Books(b, "open", i_wallet - i_order.pre)
    <3>1. i_wallet - i_order.pre \in Nat /\ i_wallet - i_order.pre > 0 BY <1>3, <2>1
    <3> QED BY <1>2, <2>1, <3>1 DEF DeployInv, Owns
  <2>2. CASE i_record' = Inventory!Books(b, "reconcile", i_record[b].owned)
    BY <1>2, <1>3, <2>2 DEF DeployInv, Owns
  <2> QED BY <1>1, <2>1, <2>2
<1>6. i_record'[b].life = l /\ i_record'[b].owned = n BY <1>3, <1>5 DEF Inventory!Books, SpotTyped
<1>7. SpotTyped'
  <2>1. i_record' \in [Buys -> [life : Inventory!Lives, owned : Nat]] BY <1>5 DEF SpotTyped, Inventory!Books, Inventory!Lives
  <2> QED BY <1>1, <2>1 DEF SpotTyped
<1>8. OnlyOwner(b)' BY <1>1, <1>2, <1>4 DEF DeployInv, OnlyOwner, Owns
<1>9. OneOwner' BY <1>1, <1>3, <1>6, <1>8 DEF OneOwner, OnlyOwner, Owns
<1>10. Explained(b, i_order.pre)'
  BY <1>1, <1>2, <1>4 DEF DeployInv, Explained, Unresolved, Owns
<1>11. DeployInv(b)'
  BY <1>1, <1>2, <1>3, <1>5, <1>6, <1>8, <1>10 DEF DeployInv, Owns, SpotTyped
<1>12. UnderInv' BY <1>1, <1>11 DEF UnderInv
<1>13. RestInv' BY <1>2 DEF RestInv
<1>14. PlaceInv'
  BY <1>1, <1>5, <1>6 DEF PlaceInv, Resolved, Under, Owns, Inventory!Filled
<1> QED BY <1>7, <1>9, <1>12, <1>13, <1>14

LEMMA RecoverSaleKeeps == ASSUME SpotInv, Inventory!RecoverSale PROVE SpotInv'
<1> DEFINE b == i_order.buy
<1>1. /\ UNCHANGED <<i_wallet, i_users, i_state, i_order, i_fate, i_wal, i_pending, i_seen>>
      /\ i_at = "idle" /\ ~i_wal /\ i_pending /\ i_order.side = "sale" /\ Inventory!ExactlySold
      /\ i_at' = "recovered" /\ i_settled' = TRUE
  BY DEF Inventory!RecoverSale, Inventory!Recovers, Inventory!account, Inventory!files
<1>2. Under /\ Under' /\ SaleInv(b) BY <1>1 DEF Under, UnderInv
<1>3. b \in Buys /\ i_record[b].owned \in Nat /\ i_state.owned \in Nat /\ i_fate = "landed"
  BY <1>1, <1>2 DEF SaleInv, SpotTyped, Inventory!ExactlySold
<1>4. \/ i_record' = Inventory!Books(b, "closed", 0) \/ i_record' = Inventory!Books(b, "reconcile", 0)
      \/ i_record' = i_record /\ ~Owns(b)
  <2>1. CASE i_state.owned = i_order.input /\ i_record[b].owned > 0
    BY <2>1 DEF Inventory!RecoverSale
  <2>2. CASE i_state.owned = i_order.input /\ ~ i_record[b].owned > 0
    BY <2>2 DEF Inventory!RecoverSale, Owns
  <2>3. CASE i_state.owned # i_order.input
    <3>1. i_state.owned = 0 BY <1>2, <1>3, <2>3 DEF SaleInv
    <3> QED BY <2>3, <3>1 DEF Inventory!RecoverSale
  <2> QED BY <2>1, <2>2, <2>3
<1>5. /\ \A c \in Buys : c # b => i_record'[c] = i_record[c]
      /\ i_record' \in [Buys -> [life : Inventory!Lives, owned : Nat]] /\ ~Owns(b)'
  <2>1. CASE i_record' = i_record /\ ~Owns(b) BY <1>1, <2>1 DEF SpotTyped, Owns
  <2>2. ASSUME NEW l \in {"closed", "reconcile"}, i_record' = Inventory!Books(b, l, 0)
        PROVE  /\ \A c \in Buys : c # b => i_record'[c] = i_record[c]
               /\ i_record' \in [Buys -> [life : Inventory!Lives, owned : Nat]] /\ i_record'[b].owned = 0
    BY <1>3, <2>2 DEF Inventory!Books, SpotTyped, Inventory!Lives
  <2> QED BY <1>1, <1>4, <2>1, <2>2 DEF Owns
<1>6. SpotTyped' BY <1>1, <1>5 DEF SpotTyped
<1>7. OnlyOwner(b)' BY <1>1, <1>2, <1>5 DEF SaleInv, OnlyOwner, Owns
<1>8. OneOwner' BY <1>1, <1>5, <1>7 DEF OneOwner, OnlyOwner, Owns
<1>9. Explained(b, i_order.pre - i_order.input)'
  BY <1>1, <1>2, <1>5 DEF SaleInv, Explained, Unresolved, Owns
<1>10. SaleInv(b)' BY <1>1, <1>2, <1>3, <1>5, <1>7, <1>9 DEF SaleInv
<1>11. UnderInv' BY <1>1, <1>10 DEF UnderInv
<1>12. RestInv' BY <1>2 DEF RestInv
<1>13. PlaceInv' BY <1>1, <1>3, <1>5 DEF PlaceInv, Resolved, Under
<1> QED BY <1>6, <1>8, <1>11, <1>12, <1>13

LEMMA RecoverFailedKeeps == ASSUME SpotInv, Inventory!RecoverFailed PROVE SpotInv'
<1>1. /\ UNCHANGED <<i_wallet, i_users, i_record, i_state, i_order, i_fate, i_wal, i_at, i_seen, i_settled>>
      /\ i_at = "idle" /\ ~i_wal /\ i_pending /\ i_fate = "failed" /\ i_pending' = FALSE
  BY DEF Inventory!RecoverFailed, Inventory!Recovers, Inventory!account, Inventory!books
<1>2. Under /\ ~Under' BY <1>1 DEF Under
<1>3. Backed /\ Agrees BY <1>1, <1>2, NotLandedRests
<1>4. SpotTyped' BY <1>1 DEF SpotTyped
<1>5. OneOwner' BY <1>1 DEF OneOwner, OnlyOwner, Owns
<1>6. UnderInv' BY <1>2 DEF UnderInv
<1>7. RestInv'
  BY <1>1, <1>3 DEF RestInv, Backed, Agrees, NoneOwns, Owns, Explained, Unresolved
<1>8. PlaceInv' BY <1>1, <1>2 DEF PlaceInv, SpotTyped
<1> QED BY <1>4, <1>5, <1>6, <1>7, <1>8

LEMMA WriteRecoveredKeeps == ASSUME SpotInv, Inventory!WriteRecovered PROVE SpotInv'
<1> DEFINE b == i_order.buy
<1>1. /\ UNCHANGED <<i_wallet, i_users, i_record, i_order, i_fate, i_wal, i_pending, i_seen, i_settled>>
      /\ i_at = "recovered" /\ i_at' = "stated" /\ i_state' = Inventory!StateOf(b)
  BY DEF Inventory!WriteRecovered, Inventory!account, Inventory!files
<1>2. Under /\ Under' /\ i_pending /\ i_settled /\ Resolved /\ ~i_wal /\ i_fate # "unsent"
  BY <1>1 DEF Under, PlaceInv
<1>3. b \in Buys /\ OnlyOwner(b) BY <1>2 DEF UnderInv, DeployInv, SaleInv
<1>4. i_record[b].life \in Inventory!Lives /\ i_record[b].owned \in Nat BY <1>3 DEF SpotTyped
<1>5. Owns(b) => i_record[b].life \in {"open", "exiting", "reconcile"} BY <1>3 DEF OneOwner
<1>6. IF i_record[b].life = "closed" THEN i_state'.life = "closed" /\ i_state'.owned = 0
      ELSE i_state'.buy = b /\ i_state'.life = i_record[b].life /\ i_state'.owned = i_record[b].owned
  BY <1>1 DEF Inventory!StateOf, Inventory!Closed
<1>7. SpotTyped' BY <1>1, <1>4, <1>6 DEF SpotTyped
<1>8. OneOwner' BY <1>1 DEF OneOwner, OnlyOwner, Owns
<1>9. UnderInv'
  <2>1. CASE i_order.side = "deploy" /\ DeployInv(b)
    <3>1. DeployInv(b)'
      BY <1>1, <1>3, <1>6, <2>1 DEF DeployInv, OnlyOwner, Owns, Explained, Unresolved
    <3> QED BY <1>1, <2>1, <3>1 DEF UnderInv
  <2>2. CASE i_order.side = "sale" /\ SaleInv(b)
    <3>1. i_state'.owned > 0 => i_state'.buy = b /\ i_state'.owned = i_order.input
      BY <1>4, <1>6, <2>2 DEF SaleInv, Owns
    <3>2. i_fate # "landed" => i_state'.life # "closed"
      BY <1>4, <1>5, <1>6, <2>2 DEF SaleInv, Owns
    <3>3. SaleInv(b)'
      BY <1>1, <1>3, <2>2, <3>1, <3>2 DEF SaleInv, OnlyOwner, Owns, Explained, Unresolved
    <3> QED BY <1>1, <2>2, <3>3 DEF UnderInv
  <2> QED BY <1>2, <2>1, <2>2 DEF UnderInv
<1>10. RestInv' BY <1>2 DEF RestInv
<1>11. Agrees'
  <2>1. i_state'.owned > 0 => i_state'.buy \in Buys /\ i_record[i_state'.buy].owned = i_state'.owned
    BY <1>3, <1>4, <1>6
  <2>2. i_state'.life = "closed" => NoneOwns
    BY <1>3, <1>5, <1>6 DEF NoneOwns, OnlyOwner
  <2> QED BY <1>1, <2>1, <2>2 DEF Agrees, NoneOwns, Owns
<1>12. i_fate = "flying" => i_state'.life # "closed"
  BY <1>2, <1>3, <1>5, <1>6 DEF Resolved
<1>13. PlaceInv' BY <1>1, <1>2, <1>11, <1>12 DEF PlaceInv, Under, Resolved, Owns
<1> QED BY <1>7, <1>8, <1>9, <1>10, <1>13

LEMMA ReadAccountKeeps ==
  ASSUME SpotInv, Inventory!ReadAccount PROVE SpotInv'
<1>1. /\ UNCHANGED <<i_wallet, i_users, i_record, i_order, i_fate, i_wal, i_pending, i_settled>>
      /\ i_at = "idle" /\ ~i_wal /\ i_at' = "cycle" /\ i_seen' = i_wallet
      /\ i_state' = i_state \/ (~i_pending /\ i_wallet = 0 /\ i_state' = Inventory!Closed)
  BY DEF Inventory!ReadAccount, Inventory!Snapshots, Inventory!account, Inventory!files
<1>2. CASE i_state' = i_state
  <2>1. SpotTyped' BY <1>1, <1>2 DEF SpotTyped
  <2>2. OneOwner' BY <1>1 DEF OneOwner, OnlyOwner, Owns
  <2>3. UnderInv'
    BY <1>1, <1>2 DEF UnderInv, Under, DeployInv, SaleInv, OnlyOwner, Owns, Explained, Unresolved
  <2>4. RestInv'
    BY <1>1, <1>2 DEF RestInv, Under, Backed, Agrees, NoneOwns, Owns, Explained, Unresolved
  <2>5. PlaceInv' BY <1>1, <1>2 DEF PlaceInv, Under
  <2> QED BY <2>1, <2>2, <2>3, <2>4, <2>5
<1>3. CASE ~i_pending /\ i_wallet = 0 /\ i_state' = Inventory!Closed
  <2>1. Backed /\ ~Under /\ ~Under' /\ i_fate # "flying"
    BY <1>1, <1>3 DEF RestInv, Under, SpotTyped
  <2>2. NoneOwns BY <1>3, <2>1 DEF NoneOwns, Backed, Owns, SpotTyped
  <2>3. i_state'.life = "closed" /\ i_state'.owned = 0 BY <1>3 DEF Inventory!Closed
  <2>4. SpotTyped' BY <1>1, <2>3 DEF SpotTyped, Inventory!Lives
  <2>5. OneOwner' BY <1>1 DEF OneOwner, OnlyOwner, Owns
  <2>6. UnderInv' BY <2>1 DEF UnderInv
  <2>7. Backed' /\ NoneOwns'
    BY <1>1, <2>1, <2>2 DEF Backed, NoneOwns, Owns, Explained, Unresolved
  <2>8. Agrees' BY <2>3, <2>7 DEF Agrees
  <2>9. RestInv' BY <1>1, <2>1, <2>7, <2>8 DEF RestInv
  <2>10. PlaceInv' BY <1>1, <2>1 DEF PlaceInv
  <2> QED BY <2>4, <2>5, <2>6, <2>9, <2>10
<1> QED BY <1>1, <1>2, <1>3

LEMMA DeployKeeps ==
  ASSUME SpotInv, NEW b \in Buys, Inventory!Deploy(b) PROVE SpotInv'
<1>1. /\ UNCHANGED <<i_wallet, i_users, i_record, i_state, i_pending, i_seen, i_settled>>
      /\ i_at = "cycle" /\ ~i_pending /\ i_state.life = "closed" /\ i_fate # "flying"
      /\ i_record[b].life = "none"
      /\ i_order' = [side |-> "deploy", buy |-> b, input |-> 0, pre |-> i_seen]
      /\ i_fate' = "unsent" /\ i_wal' = TRUE /\ i_at' = "sending"
  BY DEF Inventory!Deploy, Inventory!account, Inventory!books
<1>2. /\ i_order'.side = "deploy" /\ i_order'.buy = b /\ i_order'.input = 0 /\ i_order'.pre = i_seen
  BY <1>1
<1>3. ~Under /\ i_settled = FALSE /\ Under' BY <1>1 DEF Under, PlaceInv, SpotTyped
<1>4. Backed /\ NoneOwns BY <1>1, <1>3 DEF RestInv, Agrees
<1>5. i_seen = i_wallet /\ i_users <= i_wallet /\ i_state.owned = 0
  BY <1>1, <1>3, <1>4 DEF PlaceInv, SpotTyped, RestInv, Agrees, NoneOwns, Owns
<1>6. Explained(b, i_wallet)
  BY <1>1, <1>4 DEF Backed, Explained, Unresolved
<1>7. SpotTyped' BY <1>1, <1>2 DEF SpotTyped, Inventory!Fates
<1>8. OneOwner' BY <1>1 DEF OneOwner, OnlyOwner, Owns
<1>9. DeployInv(i_order.buy)'
  BY <1>1, <1>2, <1>4, <1>5, <1>6
     DEF DeployInv, NoneOwns, OnlyOwner, Owns, Explained, Unresolved, SpotTyped
<1>10. UnderInv' BY <1>2, <1>9 DEF UnderInv
<1>11. RestInv' BY <1>3 DEF RestInv
<1>12. PlaceInv' BY <1>1, <1>2, <1>3, <1>4 DEF PlaceInv, NoneOwns, Owns
<1> QED BY <1>7, <1>8, <1>10, <1>11, <1>12

LEMMA SellKeeps == ASSUME SpotInv, Inventory!Sell PROVE SpotInv'
<1> DEFINE b == i_state.buy
<1>1. /\ UNCHANGED <<i_wallet, i_users, i_record, i_state, i_pending, i_seen, i_settled>>
      /\ i_at = "cycle" /\ ~i_pending /\ i_state.life \in {"open", "exiting"}
      /\ i_state.owned > 0 /\ i_state.owned <= i_seen
      /\ i_order' = [side |-> "sale", buy |-> b, input |-> i_state.owned, pre |-> i_seen]
      /\ i_fate' = "unsent" /\ i_wal' = TRUE /\ i_at' = "sending"
  BY DEF Inventory!Sell, Inventory!account, Inventory!books
<1>2. i_order'.side = "sale" /\ i_order'.buy = b /\ i_order'.input = i_state.owned /\ i_order'.pre = i_seen
  BY <1>1
<1>3. ~Under /\ i_settled = FALSE /\ Under' BY <1>1 DEF Under, PlaceInv, SpotTyped
<1>4. b \in Buys /\ i_record[b].owned = i_state.owned /\ Backed BY <1>1, <1>3 DEF RestInv, Agrees
<1>5. Owns(b) BY <1>1, <1>4 DEF Owns
<1>6. i_seen = i_wallet BY <1>1, <1>4, <1>5 DEF PlaceInv, NoneOwns
<1>7. OnlyOwner(b) BY <1>4, <1>5 DEF OneOwner
<1>8. i_users + i_record[b].owned <= i_wallet /\ Explained(b, i_wallet - i_record[b].owned)
  BY <1>4, <1>5 DEF Backed
<1>9. SpotTyped' BY <1>1, <1>2 DEF SpotTyped, Inventory!Fates
<1>10. OneOwner' BY <1>1 DEF OneOwner, OnlyOwner, Owns
<1>11. SaleInv(i_order.buy)'
  BY <1>1, <1>2, <1>4, <1>6, <1>7, <1>8
     DEF SaleInv, OnlyOwner, Owns, Explained, Unresolved, SpotTyped
<1>12. UnderInv' BY <1>2, <1>11 DEF UnderInv
<1>13. RestInv' BY <1>3 DEF RestInv
<1>14. PlaceInv' BY <1>1, <1>2, <1>3, <1>5 DEF PlaceInv, Owns
<1> QED BY <1>9, <1>10, <1>12, <1>13, <1>14

\* The import changes what a record owns in no case, and its life only if it owns something.
LEMMA ImportedKeeps ==
  ASSUME SpotTyped, OneOwner
  PROVE /\ Inventory!Imported \in [Buys -> [life : Inventory!Lives, owned : Nat]]
        /\ \A c \in Buys :
             /\ Inventory!Imported[c].owned = i_record[c].owned
             /\ Inventory!Imported[c].life = i_record[c].life \/ (Owns(c) /\ Inventory!Imported[c].life = "reconcile")
<1>1. ASSUME NEW c \in Buys
      PROVE  /\ Inventory!Imported[c].owned = i_record[c].owned /\ Inventory!Imported[c] \in [life : Inventory!Lives, owned : Nat]
             /\ Inventory!Imported[c].life = i_record[c].life \/ (Owns(c) /\ Inventory!Imported[c].life = "reconcile")
  <2>1. i_record[c] \in [life : Inventory!Lives, owned : Nat] BY DEF SpotTyped
  <2>2. CASE i_record[c].life # "closed" /\ i_record[c].owned > i_seen
    <3>1. Inventory!Imported[c] = [i_record[c] EXCEPT !.life = "reconcile"] BY <2>2 DEF Inventory!Imported
    <3>2. Owns(c) BY <2>1, <2>2 DEF Owns, SpotTyped
    <3> QED BY <2>1, <3>1, <3>2 DEF Inventory!Lives
  <2>3. CASE ~(i_record[c].life # "closed" /\ i_record[c].owned > i_seen)
    <3>1. Inventory!Imported[c] = i_record[c] BY <2>3 DEF Inventory!Imported
    <3> QED BY <2>1, <3>1
  <2> QED BY <2>2, <2>3
<1>2. DOMAIN Inventory!Imported = Buys /\ Inventory!Imported = [c \in Buys |-> Inventory!Imported[c]] BY DEF Inventory!Imported
<1> QED BY <1>1, <1>2

LEMMA HoldsKeeps == ASSUME SpotInv, Inventory!Holds PROVE SpotInv'
<1>1. /\ UNCHANGED <<i_wallet, i_users, i_state, i_order, i_fate, i_wal, i_pending, i_seen, i_settled>>
      /\ i_at = "cycle" /\ i_at' = "booked" /\ i_record' = Inventory!Imported
  BY DEF Inventory!Holds, Inventory!account, Inventory!files
<1>2. /\ i_record' \in [Buys -> [life : Inventory!Lives, owned : Nat]]
      /\ \A c \in Buys :
           /\ i_record'[c].owned = i_record[c].owned
           /\ i_record'[c].life = i_record[c].life \/ (Owns(c) /\ i_record'[c].life = "reconcile")
  BY <1>1, ImportedKeeps
<1>3. /\ \A c \in Buys : Owns(c)' <=> Owns(c)
      /\ \A c \in Buys : Unresolved(c)' <=> Unresolved(c)
  BY <1>2 DEF Owns, Unresolved
<1>4. SpotTyped' BY <1>1, <1>2 DEF SpotTyped
<1>5. OneOwner' BY <1>2, <1>3 DEF OneOwner, OnlyOwner
<1>6. UnderInv'
  <2>1. CASE i_order.side = "deploy" /\ DeployInv(i_order.buy)
    BY <1>1, <1>2, <1>3, <2>1 DEF UnderInv, DeployInv, OnlyOwner, Explained
  <2>2. CASE i_order.side = "sale" /\ SaleInv(i_order.buy)
    BY <1>1, <1>2, <1>3, <2>2 DEF UnderInv, SaleInv, OnlyOwner, Explained
  <2> QED BY <1>1, <2>1, <2>2 DEF UnderInv, Under
<1>7. RestInv'
  BY <1>1, <1>2, <1>3 DEF RestInv, Under, Backed, Agrees, NoneOwns, Explained
<1>8. i_settled = FALSE BY <1>1 DEF PlaceInv, SpotTyped
<1>9. PlaceInv' BY <1>1, <1>8 DEF PlaceInv, Under
<1> QED BY <1>4, <1>5, <1>6, <1>7, <1>9

LEMMA BookResultKeeps ==
  ASSUME SpotInv, Inventory!BookResult PROVE SpotInv'
<1> DEFINE b == i_order.buy
<1>1. /\ UNCHANGED <<i_wallet, i_users, i_state, i_order, i_fate, i_wal, i_pending, i_seen>>
      /\ i_at = "sent" /\ i_at' = "booked"
  BY DEF Inventory!BookResult, Inventory!account, Inventory!files
<1>2. Under /\ Under' /\ i_pending /\ ~i_wal /\ i_fate # "unsent" /\ i_seen = i_order.pre
  BY <1>1 DEF Under, PlaceInv
<1>3. b \in Buys /\ OnlyOwner(b) BY <1>2 DEF UnderInv, DeployInv, SaleInv
<1>4. i_record[b].owned \in Nat /\ i_wallet \in Nat /\ i_order.pre \in Nat BY <1>3 DEF SpotTyped
<1>5. PICK r \in IF i_order.side = "deploy" THEN Inventory!DeployResults ELSE Inventory!SaleResults :
        /\ i_record' = [Inventory!Imported EXCEPT ![b] = [life |-> r.life, owned |-> r.owned]]
        /\ i_settled' = r.done
  BY DEF Inventory!BookResult
<1>6. CASE i_order.side = "deploy" /\ DeployInv(b)
  <2>1. ~Owns(b) /\ NoneOwns BY <1>1, <1>3, <1>6 DEF PlaceInv, NoneOwns, OnlyOwner
  <2>2. \/ r.life = "pending" /\ r.owned = 0 /\ r.done = FALSE
        \/ i_fate = "landed" /\ r.life = "reconcile" /\ r.owned = 0 /\ r.done \in BOOLEAN
        \/ i_fate = "landed" /\ r.life = "open" /\ r.owned = i_wallet - i_seen /\ r.owned # 0 /\ r.done = TRUE
        \/ i_fate = "failed" /\ r.life = "left" /\ r.owned = 0 /\ r.done = TRUE
    <3>1. \/ r = Inventory!Result("pending", 0, FALSE)
          \/ i_fate = "landed" /\ r \in {Inventory!Result("reconcile", 0, TRUE), Inventory!Result("reconcile", 0, FALSE)}
          \/ i_fate = "landed" /\ \E n \in {i_wallet - i_seen} \ {0} : r = Inventory!Result("open", n, TRUE)
          \/ i_fate = "failed" /\ r = Inventory!Result("left", 0, TRUE)
      BY <1>5, <1>6 DEF Inventory!DeployResults
    <3>2. CASE i_fate = "landed" /\ \E n \in {i_wallet - i_seen} \ {0} : r = Inventory!Result("open", n, TRUE)
      BY <3>2 DEF Inventory!Result
    <3>3. CASE i_fate = "landed" /\ r \in {Inventory!Result("reconcile", 0, TRUE), Inventory!Result("reconcile", 0, FALSE)}
      <4>1. r.life = "reconcile" /\ r.owned = 0 /\ (r.done = TRUE \/ r.done = FALSE)
        BY <3>3 DEF Inventory!Result
      <4> QED BY <3>3, <4>1
    <3>4. CASE r = Inventory!Result("pending", 0, FALSE) BY <3>4 DEF Inventory!Result
    <3>5. CASE i_fate = "failed" /\ r = Inventory!Result("left", 0, TRUE) BY <3>5 DEF Inventory!Result
    <3> QED BY <3>1, <3>2, <3>3, <3>4, <3>5
  <2>3. /\ i_wallet - i_seen \in Nat
        /\ i_fate = "landed" => i_wallet - i_seen = 1
    BY <1>2, <1>4, <1>6 DEF DeployInv
  <2>4. r.life \in Inventory!Lives /\ r.owned \in Nat /\ i_settled' \in BOOLEAN
    <3>1. r.owned \in Nat BY <1>4, <1>6, <1>2, <2>2, <2>3
    <3>2. r.done \in BOOLEAN BY <2>2
    <3> QED BY <1>5, <2>2, <3>1, <3>2 DEF Inventory!Lives
  <2>5. /\ i_record' \in [Buys -> [life : Inventory!Lives, owned : Nat]]
        /\ i_record'[b].life = r.life /\ i_record'[b].owned = r.owned
        /\ \A c \in Buys : c # b => /\ i_record'[c].owned = i_record[c].owned
                                    /\ i_record'[c].life = i_record[c].life
    BY <1>3, <1>5, <2>1, <2>4, ImportedKeeps DEF NoneOwns
  <2>6. SpotTyped' BY <1>1, <2>4, <2>5 DEF SpotTyped
  <2>7. OnlyOwner(b)' BY <1>1, <1>3, <2>5 DEF OnlyOwner, Owns
  <2>8. OneOwner'
    <3>1. Owns(b)' => r.life = "open" BY <1>1, <2>2, <2>5 DEF Owns
    <3> QED BY <1>1, <2>5, <2>7, <3>1 DEF OneOwner, OnlyOwner, Owns
  <2>9. Owns(b)' => i_record'[b].owned = i_wallet - i_order.pre
    BY <1>1, <1>2, <2>2, <2>5 DEF Owns
  <2>10. i_state.owned = 0 BY <1>6, <2>1 DEF DeployInv, Owns, SpotTyped
  <2>11. Explained(b, i_order.pre)'
    BY <1>1, <1>6, <2>5 DEF DeployInv, Explained, Unresolved, Owns
  <2>12. DeployInv(b)' BY <1>1, <1>3, <1>6, <2>7, <2>9, <2>10, <2>11 DEF DeployInv
  <2>13. UnderInv' BY <1>1, <1>6, <2>12 DEF UnderInv
  <2>14. i_settled' => Resolved' BY <1>1, <1>5, <1>6, <2>2, <2>3, <2>5 DEF Resolved, Owns
  <2>15. RestInv' BY <1>2 DEF RestInv
  <2>16. PlaceInv' BY <1>1, <1>2, <2>14 DEF PlaceInv
  <2> QED BY <2>6, <2>8, <2>13, <2>15, <2>16
<1>7. CASE i_order.side = "sale" /\ SaleInv(b)
  <2>1. Owns(b) /\ i_record[b].owned = i_order.input BY <1>1, <1>7 DEF PlaceInv, SaleInv
  <2>2. \/ r.life = "exiting" /\ r.owned = i_record[b].owned /\ r.done = FALSE
        \/ i_fate = "landed" /\ r.life = "closed" /\ r.owned = 0 /\ r.done = TRUE
        \/ i_fate = "failed" /\ r.life = i_record[b].life /\ r.owned = i_record[b].owned /\ r.done = TRUE
    BY <1>5, <1>7 DEF Inventory!SaleResults, Inventory!Result
  <2>3. i_record[b].life \in {"open", "exiting", "reconcile"} BY <1>3, <2>1 DEF OneOwner
  <2>4. /\ r.life \in Inventory!Lives /\ r.owned \in Nat /\ i_settled' \in BOOLEAN
        /\ r.owned > 0 => r.life \in {"open", "exiting", "reconcile"}
    <3>1. r.owned \in Nat /\ (r.owned > 0 => r.life # "closed") BY <1>4, <2>2, <2>3
    <3>2. r.done \in BOOLEAN BY <2>2
    <3>3. r.life \in {"open", "exiting", "reconcile", "closed"} BY <2>2, <2>3
    <3> QED BY <1>5, <3>1, <3>2, <3>3 DEF Inventory!Lives
  <2>5. /\ i_record' \in [Buys -> [life : Inventory!Lives, owned : Nat]]
        /\ i_record'[b].life = r.life /\ i_record'[b].owned = r.owned
        /\ \A c \in Buys : c # b => /\ i_record'[c].owned = i_record[c].owned
                                    /\ i_record'[c].life = i_record[c].life
    <3>1. \A c \in Buys : c # b => ~Owns(c) BY <1>3 DEF OnlyOwner
    <3> QED BY <1>3, <1>5, <2>4, <3>1, ImportedKeeps
  <2>6. SpotTyped' BY <1>1, <2>4, <2>5 DEF SpotTyped
  <2>7. OnlyOwner(b)' BY <1>1, <1>3, <2>5 DEF OnlyOwner, Owns
  <2>8. OneOwner' BY <1>1, <2>4, <2>5, <2>7 DEF OneOwner, OnlyOwner, Owns
  <2>9. i_record'[b].owned = i_order.input \/ (i_fate = "landed" /\ ~Owns(b)')
    BY <1>1, <2>1, <2>2, <2>5 DEF Owns
  <2>10. Explained(b, i_order.pre - i_order.input)'
    BY <1>1, <1>7, <2>5 DEF SaleInv, Explained, Unresolved, Owns
  <2>11. SaleInv(b)' BY <1>1, <1>3, <1>7, <2>7, <2>9, <2>10 DEF SaleInv
  <2>12. UnderInv' BY <1>1, <1>7, <2>11 DEF UnderInv
  <2>13. i_settled' => Resolved' BY <1>1, <1>5, <1>7, <2>2, <2>5 DEF Resolved, Owns
  <2>14. RestInv' BY <1>2 DEF RestInv
  <2>15. PlaceInv' BY <1>1, <1>2, <2>13 DEF PlaceInv
  <2> QED BY <2>6, <2>8, <2>12, <2>14, <2>15
<1> QED BY <1>2, <1>6, <1>7 DEF UnderInv

LEMMA WriteStateKeeps == ASSUME SpotInv, Inventory!WriteState PROVE SpotInv'
<1>1. /\ UNCHANGED <<i_wallet, i_users, i_record, i_order, i_fate, i_wal, i_pending, i_seen, i_settled>>
      /\ i_at = "booked" /\ i_at' = "stated"
  BY DEF Inventory!WriteState, Inventory!account, Inventory!files
<1>2. \A c \in Buys : i_record[c].life \in Inventory!Lives /\ i_record[c].owned \in Nat BY DEF SpotTyped
<1>3. \/ i_state' = Inventory!Closed /\ Inventory!Selectable = {} /\ Inventory!Awaited = {}
      \/ \E c \in Buys : /\ i_state' = Inventory!StateOf(c)
                         /\ i_record[c].life \in {"open", "exiting", "reconcile", "pending"}
  BY DEF Inventory!WriteState, Inventory!Selectable, Inventory!Awaited, Inventory!Lapsing
<1>4. \/ i_state'.life = "closed" /\ i_state'.owned = 0 /\ Inventory!Selectable = {}
      \/ \E c \in Buys : /\ i_state'.buy = c /\ i_state'.owned = i_record[c].owned
                         /\ i_state'.life = i_record[c].life /\ i_state'.life # "closed"
  BY <1>3 DEF Inventory!StateOf, Inventory!Closed
<1>5. i_state'.life \in Inventory!Lives /\ i_state'.owned \in Nat BY <1>2, <1>4 DEF Inventory!Lives
<1>6. \A c \in Buys : Owns(c) \/ Unresolved(c) => c \in Inventory!Selectable
  BY <1>2 DEF OneOwner, Inventory!Selectable, Owns, Unresolved
<1>7. i_state'.life = "closed" => NoneOwns /\ \A c \in Buys : ~Unresolved(c)
  BY <1>4, <1>6 DEF NoneOwns
<1>8. i_state'.owned > 0 => i_state'.buy \in Buys /\ i_record[i_state'.buy].owned = i_state'.owned
  BY <1>4
<1>9. SpotTyped' BY <1>1, <1>5 DEF SpotTyped
<1>10. OneOwner' BY <1>1 DEF OneOwner, OnlyOwner, Owns
<1>11. UnderInv'
  <2>1. CASE i_order.side = "deploy" /\ DeployInv(i_order.buy)
    <3>1. i_state'.owned > 0 => i_state'.buy = i_order.buy /\ i_state'.owned = i_record[i_order.buy].owned
      BY <1>8, <2>1 DEF DeployInv, OnlyOwner, Owns
    <3> QED BY <1>1, <2>1, <3>1 DEF UnderInv, DeployInv, OnlyOwner, Owns, Explained, Unresolved
  <2>2. CASE i_order.side = "sale" /\ SaleInv(i_order.buy)
    <3>1. i_state'.owned > 0 => i_state'.buy = i_order.buy /\ i_state'.owned = i_order.input
      BY <1>8, <2>2 DEF SaleInv, OnlyOwner, Owns
    <3>2. i_fate # "landed" => i_state'.life # "closed"
      BY <1>7, <2>2 DEF SaleInv, NoneOwns, Owns, SpotTyped
    <3> QED BY <1>1, <2>2, <3>1, <3>2
            DEF UnderInv, SaleInv, OnlyOwner, Owns, Explained, Unresolved
  <2> QED BY <1>1, <2>1, <2>2 DEF UnderInv, Under
<1>12. Agrees' BY <1>1, <1>7, <1>8 DEF Agrees, NoneOwns, Owns
<1>13. RestInv'
  <2> SUFFICES ASSUME ~Under PROVE RestInv' BY <1>1 DEF RestInv, Under
  <2>1. Backed' BY <1>1 DEF RestInv, Backed, NoneOwns, Owns, Explained, Unresolved
  <2>2. i_fate = "flying" => i_state'.life # "closed" BY <1>7 DEF RestInv
  <2> QED BY <1>1, <1>12, <2>1, <2>2 DEF RestInv, NoneOwns, Owns, Unresolved
<1>14. i_settled /\ i_fate = "flying" => i_state'.life # "closed"
  <2> SUFFICES ASSUME i_settled, i_fate = "flying" PROVE i_state'.life # "closed" OBVIOUS
  <2>1. i_order.side = "deploy" /\ (Owns(i_order.buy) \/ i_record[i_order.buy].life = "reconcile") /\ Under
    BY DEF PlaceInv, Resolved, Under
  <2>2. i_order.buy \in Buys BY <2>1 DEF UnderInv, DeployInv, SaleInv
  <2>3. Owns(i_order.buy) \/ Unresolved(i_order.buy) BY <2>1 DEF Unresolved
  <2> QED BY <1>7, <2>2, <2>3 DEF NoneOwns
<1>15. PlaceInv' BY <1>1, <1>12, <1>14 DEF PlaceInv, Under, Resolved, Owns
<1> QED BY <1>9, <1>10, <1>11, <1>13, <1>15

LEMMA ClearKeeps == ASSUME SpotInv, Inventory!Clear PROVE SpotInv'
<1> DEFINE b == i_order.buy
<1>1. /\ UNCHANGED <<i_wallet, i_users, i_record, i_state, i_order, i_fate, i_wal>>
      /\ i_at = "stated" /\ i_at' = "idle" /\ i_seen' = 0 /\ i_settled' = FALSE
      /\ i_pending' = (i_pending /\ ~i_settled)
  BY DEF Inventory!Clear, Inventory!EndTick, Inventory!account, Inventory!books
<1>2. ~i_wal /\ Agrees /\ i_fate # "unsent" BY <1>1 DEF PlaceInv
<1>3. SpotTyped' BY <1>1 DEF SpotTyped
<1>4. OneOwner' BY <1>1 DEF OneOwner, OnlyOwner, Owns
<1>5. UnderInv'
  BY <1>1 DEF UnderInv, Under, DeployInv, SaleInv, OnlyOwner, Owns, Explained, Unresolved
<1>6. RestInv'
  <2>1. CASE ~i_settled
    <3>1. i_pending' = i_pending BY <1>1, <2>1 DEF SpotTyped
    <3> QED BY <1>1, <3>1 DEF RestInv, Under, Backed, Agrees, NoneOwns, Owns, Explained, Unresolved
  <2>2. CASE i_settled
    <3>1. /\ Under /\ Resolved
          /\ i_fate = "flying" => i_state.life # "closed"
      BY <1>1, <2>2 DEF PlaceInv, Under
    <3>2. b \in Buys /\ OnlyOwner(b) /\ 0 \notin Buys
      BY <3>1, BuysAreNumbered DEF UnderInv, DeployInv, SaleInv
    <3>3. Backed
      <4>1. CASE i_fate # "landed" /\ i_fate # "flying" BY <3>1, <4>1, NotLandedRests
      <4>2. CASE i_order.side = "deploy" /\ DeployInv(b) /\ Owns(b)
        <5>1. i_record[b].owned = i_wallet - i_order.pre /\ i_wallet - i_record[b].owned = i_order.pre
              /\ i_users + i_record[b].owned <= i_wallet
          BY <4>2 DEF DeployInv, SpotTyped
        <5> QED BY <3>2, <4>2, <5>1 DEF Backed, DeployInv, NoneOwns, OnlyOwner
      <4>3. CASE i_order.side = "deploy" /\ i_record[b].life = "reconcile" /\ ~Owns(b)
        <5>1. NoneOwns /\ Unresolved(b) BY <3>2, <4>3 DEF NoneOwns, OnlyOwner, Unresolved
        <5> QED BY <3>2, <5>1 DEF Backed, NoneOwns, Explained
      <4>4. CASE i_order.side = "sale" /\ SaleInv(b) /\ i_fate = "landed" /\ ~Owns(b)
        <5>1. NoneOwns BY <3>2, <4>4 DEF NoneOwns, OnlyOwner
        <5>2. Explained(b, i_wallet) BY <4>4 DEF SaleInv
        <5> QED BY <3>2, <5>1, <5>2 DEF Backed, NoneOwns, Explained
      <4> QED BY <3>1, <4>1, <4>2, <4>3, <4>4 DEF Resolved, UnderInv
    <3>4. i_fate = "flying" =>
            /\ i_order.side = "deploy" /\ NoneOwns /\ i_wallet > 0 /\ Unresolved(b)
      <4> SUFFICES ASSUME i_fate = "flying"
                   PROVE  i_order.side = "deploy" /\ NoneOwns /\ i_wallet > 0 /\ Unresolved(b)
        OBVIOUS
      <4>1. i_order.side = "deploy" /\ i_wallet > 0 /\ (Owns(b) \/ i_record[b].life = "reconcile")
        BY <3>1 DEF Resolved
      <4>2. NoneOwns BY <3>1, NotLandedRests, <4>1
      <4> QED BY <3>2, <4>1, <4>2 DEF NoneOwns, Unresolved
    <3> QED BY <1>1, <1>2, <3>1, <3>2, <3>3, <3>4
            DEF RestInv, Backed, Agrees, NoneOwns, Owns, Explained, Unresolved
  <2> QED BY <2>1, <2>2
<1>7. PlaceInv' BY <1>1, <1>2 DEF PlaceInv, Under
<1> QED BY <1>3, <1>4, <1>5, <1>6, <1>7

LEMMA CrashKeeps == ASSUME SpotInv, Inventory!Crash PROVE SpotInv'
<1>1. /\ UNCHANGED <<i_wallet, i_users, i_record, i_state, i_order, i_fate, i_wal, i_pending>>
      /\ i_at # "idle" /\ i_at' = "idle" /\ i_seen' = 0 /\ i_settled' = FALSE
  BY DEF Inventory!Crash, Inventory!EndTick, Inventory!account, Inventory!books, Inventory!files
<1>2. SpotTyped' BY <1>1 DEF SpotTyped
<1>3. OneOwner' BY <1>1 DEF OneOwner, OnlyOwner, Owns
<1>4. UnderInv'
  BY <1>1 DEF UnderInv, Under, DeployInv, SaleInv, OnlyOwner, Owns, Explained, Unresolved
<1>5. RestInv'
  BY <1>1 DEF RestInv, Under, Backed, Agrees, NoneOwns, Owns, Explained, Unresolved
<1>6. PlaceInv' BY <1>1 DEF PlaceInv, Under
<1> QED BY <1>2, <1>3, <1>4, <1>5, <1>6

LEMMA SpotSteps == ASSUME SpotInv, [Inventory!Next]_inventoryVars PROVE SpotInv'
<1>1. CASE UNCHANGED inventoryVars
  BY <1>1 DEF inventoryVars, SpotTyped, OneOwner, UnderInv, RestInv, PlaceInv, Under, DeployInv, SaleInv,
              OnlyOwner, Owns, Explained, Unresolved, Backed, Agrees, NoneOwns, Resolved
<1>2. CASE Inventory!Next
  BY <1>2, OwnerMovesKeeps, LandsKeeps, FailsKeeps, OrderSentKeeps, TakeAnswerKeeps, RefuseKeeps,
     RecoverDeployKeeps, RecoverSaleKeeps, RecoverFailedKeeps, WriteRecoveredKeeps,
     ReadAccountKeeps, DeployKeeps, SellKeeps, HoldsKeeps, BookResultKeeps, WriteStateKeeps,
     ClearKeeps, CrashKeeps
     DEF Inventory!Next
<1> QED BY <1>1, <1>2

LEMMA OwnersTotal ==
  ASSUME SpotInv
  PROVE /\ NoneOwns => Inventory!OwnedRaw = 0
        /\ \A b \in Buys : Owns(b) => Inventory!OwnedRaw = i_record[b].owned
<1> DEFINE f == [b \in Buys |-> i_record[b].owned]
           owners == {b \in Buys : i_record[b].owned > 0}
<1>1. Inventory!OwnedRaw = SumFunctionOnSet(f, owners) BY InventorySums DEF Inventory!OwnedRaw
<1>2. CASE NoneOwns
  <2>1. owners = {} BY <1>2 DEF NoneOwns, Owns
  <2> QED BY <1>1, <1>2, <2>1, SumOfNone DEF NoneOwns
<1>3. ASSUME NEW b \in Buys, Owns(b) PROVE Inventory!OwnedRaw = i_record[b].owned /\ ~NoneOwns
  <2>1. owners = {b} BY <1>3 DEF OneOwner, OnlyOwner, Owns
  <2>2. f[b] = i_record[b].owned /\ f[b] \in Nat BY DEF SpotTyped
  <2>3. IsFiniteSet({b}) /\ {b} \ {b} = {} BY FS_Singleton
  <2> HIDE DEF f, owners
  <2>4. SumFunctionOnSet(f, {b}) = f[b] + SumFunctionOnSet(f, {b} \ {b})
    BY <2>2, <2>3, SumTakesOut
  <2>5. SumFunctionOnSet(f, {b} \ {b}) = 0 BY <2>3, SumOfNone
  <2> QED BY <1>1, <1>3, <2>1, <2>2, <2>4, <2>5 DEF NoneOwns
<1> QED BY <1>2, <1>3

LEMMA SpotIsBacked == ASSUME SpotInv PROVE Inventory!SpotBacked
<1>1. i_wallet \in Nat /\ i_users \in Nat /\ i_users <= i_wallet BY DEF SpotTyped
<1>2. ASSUME Inventory!Quiet PROVE i_users + Inventory!OwnedRaw <= i_wallet
  <2>1. Backed BY <1>2 DEF Inventory!Quiet, Under, RestInv
  <2>2. CASE NoneOwns BY <1>1, <2>2, OwnersTotal
  <2>3. CASE ~NoneOwns
    <3>1. PICK b \in Buys : Owns(b) BY <2>3 DEF NoneOwns
    <3> QED BY <2>1, <3>1, OwnersTotal DEF Backed
  <2> QED BY <2>2, <2>3
<1> QED BY <1>1, <1>2 DEF Inventory!SpotBacked

LEMMA BoughtIsOnTheBooks == ASSUME SpotInv PROVE Inventory!BoughtIsKnown
<1> SUFFICES ASSUME Inventory!Quiet, i_wallet > i_users
             PROVE  \E b \in Buys : i_record[b].life \in {"open", "exiting", "reconcile"}
  BY DEF Inventory!BoughtIsKnown
<1>1. Backed BY DEF Inventory!Quiet, Under, RestInv
<1>2. CASE NoneOwns
  <2>1. Explained(0, i_wallet) BY <1>1, <1>2 DEF Backed
  <2> QED BY <2>1 DEF Explained, Unresolved
<1>3. CASE ~NoneOwns BY <1>3 DEF NoneOwns, OneOwner
<1> QED BY <1>2, <1>3

-----------------------------------------------------------------------------
(* OwnedTokens, of which OwnedTokens_proofs says what holds.               *)

Owned == INSTANCE OwnedTokens_proofs WITH
  Faults <- {}, wallet <- t_wallet, users <- t_users, lp <- t_lp, fee <- t_fee, record <- t_record,
  wal <- t_wal, answer <- t_answer, pending <- t_pending, at <- t_at, seen <- t_seen,
  value <- t_value, due <- t_due, cooled <- t_cooled, moves <- t_moves, crashes <- t_crashes

LEMMA TokenSums == ASSUME NEW f, NEW S PROVE Tokens!SumFunctionOnSet(f, S) = Owned!SumFunctionOnSet(f, S)
BY DEF Tokens!SumFunctionOnSet, Tokens!FoldFunctionOnSet, Tokens!MapThenFoldSet,
  Owned!SumFunctionOnSet, Owned!FoldFunctionOnSet, Owned!MapThenFoldSet

LEMMA OwnedMeans == /\ Tokens!Records = Owned!Records /\ Tokens!Residuals = Owned!Residuals
                     /\ Tokens!OwnedRaw = Owned!OwnedRaw
<1>1. Tokens!Records = Owned!Records /\ Tokens!Residuals = Owned!Residuals
  BY DEF Tokens!Records, Owned!Records, Tokens!Residuals, Owned!Residuals
<1> QED BY <1>1, TokenSums DEF Tokens!OwnedRaw, Owned!OwnedRaw

LEMMA TokenSteps == ASSUME Tokens!Next PROVE Owned!Next
<1> USE OwnedMeans
<1> USE DEF Tokens!None, Owned!None, Tokens!account, Owned!account, Tokens!snapshot, Owned!snapshot,
            Tokens!timers, Owned!timers, Tokens!counts, Owned!counts, Tokens!Quiet, Owned!Quiet,
            Tokens!GoTo, Owned!GoTo, Tokens!EndTick, Owned!EndTick, Tokens!Unserved, Owned!Unserved,
            Tokens!Reply, Owned!Reply, Tokens!Applied, Owned!Applied, Tokens!ExactlySold,
            Owned!ExactlySold
<1>1. ASSUME NEW p \in Lps, Tokens!OpenLp(p) PROVE Owned!OpenLp(p)
  BY <1>1 DEF Tokens!OpenLp, Owned!OpenLp
<1>2. ASSUME NEW p \in Lps, Tokens!CycleExits(p) PROVE Owned!CycleExits(p)
  BY <1>2 DEF Tokens!CycleExits, Owned!CycleExits, Tokens!Baseline, Owned!Baseline, Tokens!Suppressed, Owned!Suppressed,
     Tokens!Order, Owned!Order
<1>3. ASSUME Tokens!Elapse PROVE Owned!Elapse
  BY <1>3 DEF Tokens!Elapse, Owned!Elapse
<1>4. ASSUME Tokens!OwnerMoves PROVE Owned!OwnerMoves
  BY <1>4 DEF Tokens!OwnerMoves, Owned!OwnerMoves
<1>5. ASSUME Tokens!LandExit PROVE Owned!LandExit
  BY <1>5 DEF Tokens!LandExit, Owned!LandExit, Tokens!PaidOut, Owned!PaidOut, Tokens!Sellable, Owned!Sellable,
     Tokens!Leaves, Owned!Leaves
<1>6. ASSUME Tokens!LandSale PROVE Owned!LandSale
  BY <1>6 DEF Tokens!LandSale, Owned!LandSale
<1>7. ASSUME Tokens!FailOnChain PROVE Owned!FailOnChain
  BY <1>7 DEF Tokens!FailOnChain, Owned!FailOnChain
<1>8. ASSUME Tokens!Refuse PROVE Owned!Refuse
  BY <1>8 DEF Tokens!Refuse, Owned!Refuse
<1>9. ASSUME Tokens!TakeAnswer PROVE Owned!TakeAnswer
  BY <1>9 DEF Tokens!TakeAnswer, Owned!TakeAnswer
<1>10. ASSUME Tokens!ResolveWithdrawal PROVE Owned!ResolveWithdrawal
  BY <1>10 DEF Tokens!ResolveWithdrawal, Owned!ResolveWithdrawal, Tokens!Succeeded, Owned!Succeeded, Tokens!Resolve,
     Owned!Resolve, Tokens!BooksOfExit, Owned!BooksOfExit, Tokens!TrustsExit, Owned!TrustsExit,
     Tokens!CleanupStatus, Owned!CleanupStatus, Tokens!Unswept, Owned!Unswept
<1>11. ASSUME Tokens!ResolveClaim PROVE Owned!ResolveClaim
  BY <1>11 DEF Tokens!ResolveClaim, Owned!ResolveClaim, Tokens!Succeeded, Owned!Succeeded, Tokens!Resolve, Owned!Resolve,
     Tokens!BooksOfExit, Owned!BooksOfExit, Tokens!TrustsExit, Owned!TrustsExit, Tokens!CleanupStatus,
     Owned!CleanupStatus, Tokens!Unswept, Owned!Unswept
<1>12. ASSUME Tokens!ResolveSale PROVE Owned!ResolveSale
  BY <1>12 DEF Tokens!ResolveSale, Owned!ResolveSale, Tokens!Resolve, Owned!Resolve, Tokens!BooksOfSale,
     Owned!BooksOfSale, Tokens!SweptClean, Owned!SweptClean
<1>13. ASSUME Tokens!ResolveFailed PROVE Owned!ResolveFailed
  BY <1>13 DEF Tokens!ResolveFailed, Owned!ResolveFailed
<1>14. ASSUME Tokens!ClearPending PROVE Owned!ClearPending
  BY <1>14 DEF Tokens!ClearPending, Owned!ClearPending
<1>15. ASSUME Tokens!ReadAccount PROVE Owned!ReadAccount
  BY <1>15 DEF Tokens!ReadAccount, Owned!ReadAccount
<1>16. ASSUME Tokens!Sweep PROVE Owned!Sweep
  BY <1>16 DEF Tokens!Sweep, Owned!Sweep, Tokens!Sweepable, Owned!Sweepable, Tokens!Order, Owned!Order
<1>17. ASSUME Tokens!CycleSells PROVE Owned!CycleSells
  BY <1>17 DEF Tokens!CycleSells, Owned!CycleSells, Tokens!Suppressed, Owned!Suppressed, Tokens!Order, Owned!Order
<1>18. ASSUME Tokens!CycleHolds PROVE Owned!CycleHolds
  BY <1>18 DEF Tokens!CycleHolds, Owned!CycleHolds
<1>19. ASSUME Tokens!BookResult PROVE Owned!BookResult
  BY <1>19 DEF Tokens!BookResult, Owned!BookResult, Tokens!StatusOf, Owned!StatusOf, Tokens!SweptClean, Owned!SweptClean
<1>20. ASSUME Tokens!Crash PROVE Owned!Crash
  BY <1>20 DEF Tokens!Crash, Owned!Crash
<1> QED BY <1>1, <1>2, <1>3, <1>4, <1>5, <1>6, <1>7, <1>8, <1>9, <1>10, <1>11, <1>12, <1>13, <1>14, <1>15, <1>16, <1>17, <1>18, <1>19, <1>20 DEF Tokens!Next, Owned!Next

LEMMA TokensMean ==
  /\ Tokens!Init => Owned!Init
  /\ [Tokens!Next]_tokenVars => [Owned!Next]_(Owned!vars)
  /\ Owned!UsersTokensStay => Tokens!UsersTokensStay
  /\ Owned!BooksAreBacked => Tokens!BooksAreBacked
<1>1. Tokens!Init => Owned!Init
  BY OwnedMeans DEF Tokens!Init, Owned!Init, Tokens!Unswept, Owned!Unswept, Tokens!None, Owned!None
<1>2. [Tokens!Next]_tokenVars => [Owned!Next]_(Owned!vars) BY TokenSteps DEF Owned!vars, tokenVars
<1>3. Owned!UsersTokensStay => Tokens!UsersTokensStay BY DEF Owned!UsersTokensStay, Tokens!UsersTokensStay
<1>4. Owned!BooksAreBacked => Tokens!BooksAreBacked
  BY OwnedMeans DEF Owned!BooksAreBacked, Tokens!BooksAreBacked, Owned!Quiet, Tokens!Quiet, Owned!None, Tokens!None
<1> QED BY <1>1, <1>2, <1>3, <1>4

\* Whatever the program buys, sells and recovers, and wherever it crashes, it sells none of the
\* owner's tokens: they stay in the wallet, what the records call the program's lies beside them,
\* and what it bought in excess of them is some position's or waits for the operator
\* (resolveOwnedSpotInventory, applyLiveCycleResultToLedger, resolveRecoveredSpotOpenEvidence).
THEOREM OwnersTokensStay == CompSpec => []OwnTokensOnly
<1>1. CompInit => SpotInv /\ Tokens!Init
  <2> SUFFICES ASSUME CompInit PROVE SpotInv /\ Tokens!Init OBVIOUS
  <2>1. Inventory!Init
    <3>1. CASE part = "inventory" BY <3>1 DEF CompInit
    <3>2. CASE part # "inventory" BY <3>2 DEF CompInit
    <3> QED BY <3>1, <3>2
  <2>2. Tokens!Init
    <3>1. CASE part = "tokens" BY <3>1 DEF CompInit
    <3>2. CASE part # "tokens" BY <3>2 DEF CompInit
    <3> QED BY <3>1, <3>2
  <2> QED BY <2>1, <2>2, SpotStarts
<1>2. SpotInv /\ [CompNext]_all => SpotInv' BY OthersStutter, SpotSteps
<1>3. [CompNext]_all => [Tokens!Next]_tokenVars BY OthersStutter
<1>4. Tokens!OwnedTokensAssumption BY CompAssumption
<1>5. Owned!Spec => []Owned!UsersTokensStay /\ []Owned!BooksAreBacked
  <2>1. Owned!OwnedTokensAssumption BY <1>4 DEF Owned!OwnedTokensAssumption, Tokens!OwnedTokensAssumption
  <2>2. {} = {} OBVIOUS
  <2> QED BY <2>1, <2>2, Owned!OwnersKeepTheirs, Owned!ResidualsAreOwned, PTL
<1>6. SpotInv /\ Owned!UsersTokensStay /\ Owned!BooksAreBacked => OwnTokensOnly
  BY SpotIsBacked, BoughtIsOnTheBooks, TokensMean DEF OwnTokensOnly
<1> QED BY <1>1, <1>2, <1>3, <1>5, <1>6, TokensMean, PTL DEF CompSpec, Owned!Spec

-----------------------------------------------------------------------------
(* SpendingLimits, for any orders, amounts and limits, and for a clock     *)
(* that may turn inside an operation.                                      *)
(*                                                                         *)
(* The inductive invariant says why a replay may reserve without a look at *)
(* the limits.  At most one order is open.  Until it is reserved the       *)
(* totals only shrink, so that it still fits as it did when it was         *)
(* approved.  Once it is reserved its reservation is there, unless the     *)
(* file is of a past day: then the totals it is added to are zero.         *)

USE LimitsAssumption

\* The file is never ahead of the clock.
PastInv == books.day <= Day(now) /\ books.hour <= now

DeskInv == \A j, k \in Orders : AtDesk(j) /\ AtDesk(k) => j = k

OrderInv(k) ==
  /\ phase[k] = "approved" => Allowed(ReadAt(now), requested[k])
  /\ phase[k] = "booked" => requested[k] <= MaxDaily /\ requested[k] <= MaxHourly
  /\ phase[k] \in {"booked", "out"} => k \in Booked(books) \/ books.day # Day(now)

LimitsInv == TypeOK /\ PastInv /\ DeskInv /\ \A k \in Orders : OrderInv(k)

-----------------------------------------------------------------------------
(* The clock and the file.                                                 *)

LEMMA DayGrows ==
  ASSUME NEW h \in Nat, NEW i \in Nat, h <= i
  PROVE Day(h) \in Nat /\ Day(h) <= Day(i)
BY DEF Day

BooksType ==
  [day : Nat, hour : Nat, daily : Nat, hourly : Nat, count : Nat, hourlyCount : Nat,
   reservations : [Orders -> Reservations]]

\* What an operation reads: an empty file after the turn of a day, the file's reservations before.
LEMMA ReadEffect ==
  ASSUME TypeOK, NEW h \in Nat
  PROVE /\ ReadAt(h) \in BooksType
        /\ ReadAt(h).day = Day(h) /\ ReadAt(h).hour = h
        /\ books.day = Day(h) => ReadAt(h).reservations = books.reservations
        /\ books.day # Day(h) => /\ Booked(ReadAt(h)) = {}
                                 /\ ReadAt(h).daily = 0 /\ ReadAt(h).hourly = 0
<1>1. Day(h) \in Nat BY DayGrows
<1>2. CASE books.day # Day(h)
  <2>1. ReadAt(h) = EmptyBooks(h) BY <1>2 DEF ReadAt
  <2> QED BY <1>1, <1>2, <2>1 DEF EmptyBooks, Books, BooksType, NoReservation, Reservation,
        Reservations, Booked
<1>3. CASE books.day = Day(h)
  BY <1>1, <1>3 DEF ReadAt, TypeOK, BooksType, Books
<1> QED BY <1>2, <1>3

\* As the hours pass the totals read from one file only shrink.
LEMMA ReadShrinks ==
  ASSUME TypeOK, PastInv, NEW h \in Nat, now <= h
  PROVE ReadAt(h).daily <= ReadAt(now).daily /\ ReadAt(h).hourly <= ReadAt(now).hourly
<1>1. now \in Nat BY DEF TypeOK
<1>2. Day(now) \in Nat /\ Day(h) \in Nat /\ Day(now) <= Day(h) BY <1>1, DayGrows
<1>3. books.day \in Nat /\ books.hour \in Nat /\ books.daily \in Nat /\ books.hourly \in Nat
  BY DEF TypeOK
<1>4. ReadAt(now).daily \in Nat /\ ReadAt(now).hourly \in Nat
  BY <1>1, ReadEffect DEF BooksType
<1>5. CASE books.day # Day(h) BY <1>4, <1>5, ReadEffect
<1>6. CASE books.day = Day(h)
  <2>1. books.day = Day(now) BY <1>2, <1>3, <1>6 DEF PastInv
  <2>2. ReadAt(h).daily = books.daily /\ ReadAt(now).daily = books.daily
    BY <1>6, <2>1 DEF ReadAt, TypeOK, Books
  <2>3. CASE books.hour = h
    <3>1. now = h BY <1>1, <1>3, <2>3 DEF PastInv
    <3> QED BY <1>3, <1>4, <3>1
  <2>4. CASE books.hour # h
    BY <1>3, <1>4, <1>6, <2>2, <2>4 DEF ReadAt, TypeOK, Books
  <2> QED BY <1>3, <2>2, <2>3, <2>4
<1> QED BY <1>5, <1>6

-----------------------------------------------------------------------------
(* The operations.                                                         *)

\* A reservation books its order and leaves the other reservations alone.
LEMMA ReserveEffect ==
  ASSUME TypeOK, NEW k \in Orders, NEW amount \in Nat, NEW stamp \in Nat
  PROVE LET after == AfterReserve(k, amount, now, stamp)
            read == ReadAt(now)
        IN /\ after \in BooksType
           /\ after = books \/ (after.day = Day(now) /\ after.hour = now)
           /\ k \in Booked(read) => after = books
           /\ k \notin Booked(read) => /\ after.daily = read.daily + amount
                                       /\ after.hourly = read.hourly + amount
                                       /\ Booked(after) = Booked(read) \cup {k}
<1> DEFINE b == ReadAt(now)
           new == Reservation("reserved", amount, stamp)
<1>1. now \in Nat BY DEF TypeOK
<1>2. b \in BooksType /\ b.day = Day(now) /\ b.hour = now BY <1>1, ReadEffect
<1>3. books \in BooksType BY DEF TypeOK, BooksType
<1>4. new \in Reservations /\ new.status # "none" BY DEF Reservation, Reservations
<1>5. CASE k \in Booked(b) BY <1>3, <1>5 DEF AfterReserve
<1>6. CASE k \notin Booked(b)
  <2> DEFINE after == Books(b.day, b.hour, b.daily + amount, b.hourly + amount, b.count + 1,
                          b.hourlyCount + 1, [b.reservations EXCEPT ![k] = new])
  <2>1. AfterReserve(k, amount, now, stamp) = after BY <1>6 DEF AfterReserve
  <2> HIDE DEF b, new
  <2>2. after \in BooksType BY <1>2, <1>4 DEF BooksType, Books
  <2>3. /\ after.day = Day(now) /\ after.hour = now
        /\ after.daily = b.daily + amount /\ after.hourly = b.hourly + amount
    BY <1>2 DEF Books
  <2>4. Booked(after) = Booked(b) \cup {k} BY <1>2, <1>4 DEF BooksType, Booked, Books
  <2> QED BY <1>6, <2>1, <2>2, <2>3, <2>4 DEF b
<1> QED BY <1>5, <1>6

\* An operation that changes one reservation of the file it has read.
LEMMA ChangeEffect ==
  ASSUME TypeOK, NEW k \in Orders, NEW entry \in Reservations, NEW after \in BooksType,
         ReadAt(now).reservations[k].status # "none",
         after.day = ReadAt(now).day, after.hour = ReadAt(now).hour,
         after.reservations = [ReadAt(now).reservations EXCEPT ![k] = entry]
  PROVE /\ books.day = Day(now) /\ after.day = Day(now) /\ after.hour = now
        /\ entry.status = "none" => Booked(after) = Booked(books) \ {k}
        /\ entry.status # "none" => Booked(after) = Booked(books)
<1> DEFINE b == ReadAt(now)
<1>1. now \in Nat BY DEF TypeOK
<1>2. b \in BooksType /\ b.day = Day(now) /\ b.hour = now BY <1>1, ReadEffect
<1>3. k \in Booked(b) BY DEF Booked
<1>4. books.day = Day(now) /\ b.reservations = books.reservations BY <1>1, <1>3, ReadEffect
<1>5. k \in Booked(books) BY <1>3, <1>4 DEF Booked
<1>6. after.reservations = [books.reservations EXCEPT ![k] = entry] BY <1>4
<1>7. books.reservations \in [Orders -> Reservations] BY DEF TypeOK
<1>8. \A j \in Orders :
        after.reservations[j] = IF j = k THEN entry ELSE books.reservations[j]
  BY <1>6, <1>7
<1> QED BY <1>2, <1>4, <1>5, <1>8 DEF Booked

LEMMA LessTyped == ASSUME NEW a \in Nat, NEW b \in Nat PROVE Less(a, b) \in Nat
BY DEF Less

\* A release books nothing new and keeps the other reservations of the day.
LEMMA ReleaseEffect ==
  ASSUME TypeOK, NEW k \in Orders
  PROVE LET after == AfterRelease(k)
        IN /\ after \in BooksType
           /\ \/ after = books
              \/ /\ books.day = Day(now) /\ after.day = Day(now) /\ after.hour = now
                 /\ Booked(after) = Booked(books) \ {k}
<1> DEFINE b == ReadAt(now)
           amount == b.reservations[k].amount
           daily == IF OfDay(b, k) THEN Less(b.daily, amount) ELSE b.daily
           count == IF OfDay(b, k) THEN Less(b.count, 1) ELSE b.count
           hourly == IF OfHour(b, k) THEN Less(b.hourly, amount) ELSE b.hourly
           hourlyCount == IF OfHour(b, k) THEN Less(b.hourlyCount, 1) ELSE b.hourlyCount
<1>1. now \in Nat /\ books \in BooksType BY DEF TypeOK, BooksType
<1>2. b \in BooksType BY <1>1, ReadEffect
<1>3. CASE b.reservations[k].status # "reserved" BY <1>1, <1>3 DEF AfterRelease
<1>4. CASE b.reservations[k].status = "reserved"
  <2>1. AfterRelease(k) = Books(b.day, b.hour, daily, hourly, count, hourlyCount,
                                [b.reservations EXCEPT ![k] = NoReservation])
    BY <1>4 DEF AfterRelease
  <2> HIDE DEF b
  <2>2. amount \in Nat BY <1>2 DEF BooksType, Reservations
  <2>3. daily \in Nat /\ hourly \in Nat /\ count \in Nat /\ hourlyCount \in Nat
    BY <1>2, <2>2, LessTyped DEF BooksType
  <2>4. NoReservation \in Reservations /\ NoReservation.status = "none"
    BY DEF NoReservation, Reservation, Reservations
  <2>5. b.reservations[k].status # "none" BY <1>4
  <2> HIDE DEF amount, daily, hourly, count, hourlyCount
  <2> DEFINE after == AfterRelease(k)
  <2>6. after \in BooksType /\ after.day = b.day /\ after.hour = b.hour
        /\ after.reservations = [b.reservations EXCEPT ![k] = NoReservation]
    BY <1>2, <2>1, <2>3, <2>4 DEF Books, BooksType
  <2> HIDE DEF after
  <2>7. /\ books.day = Day(now) /\ after.day = Day(now) /\ after.hour = now
        /\ Booked(after) = Booked(books) \ {k}
    BY <2>4, <2>5, <2>6, ChangeEffect DEF b
  <2> QED BY <2>6, <2>7 DEF after
<1> QED BY <1>3, <1>4

\* A settlement books nothing new and forgets nothing.
LEMMA SettleEffect ==
  ASSUME TypeOK, NEW k \in Orders, NEW actual \in Nat
  PROVE LET after == AfterSettle(k, actual)
        IN /\ after \in BooksType
           /\ \/ after = books
              \/ /\ books.day = Day(now) /\ after.day = Day(now) /\ after.hour = now
                 /\ Booked(after) = Booked(books)
<1> DEFINE b == ReadAt(now)
           old == b.reservations[k]
           daily == IF OfDay(b, k) THEN Less(b.daily + actual, old.amount) ELSE b.daily
           hourly == IF OfHour(b, k) THEN Less(b.hourly + actual, old.amount) ELSE b.hourly
           entry == Reservation("settled", actual, old.hour)
<1>1. now \in Nat /\ books \in BooksType BY DEF TypeOK, BooksType
<1>2. b \in BooksType BY <1>1, ReadEffect
<1>3. CASE old.status = "none" \/ (old.status = "settled" /\ old.amount = actual)
  BY <1>1, <1>3 DEF AfterSettle
<1>4. CASE ~(old.status = "none" \/ (old.status = "settled" /\ old.amount = actual))
  <2>1. AfterSettle(k, actual) =
          Books(b.day, b.hour, daily, hourly, b.count, b.hourlyCount,
                [b.reservations EXCEPT ![k] = entry])
    BY <1>4 DEF AfterSettle
  <2> HIDE DEF b
  <2>2. old \in Reservations BY <1>2 DEF BooksType
  <2> HIDE DEF old
  <2>3. daily \in Nat /\ hourly \in Nat /\ b.count \in Nat /\ b.hourlyCount \in Nat
    <3>1. b.daily \in Nat /\ b.hourly \in Nat /\ old.amount \in Nat
      BY <1>2, <2>2 DEF BooksType, Reservations
    <3>2. Less(b.daily + actual, old.amount) \in Nat /\ Less(b.hourly + actual, old.amount) \in Nat
      BY <3>1 DEF Less
    <3> QED BY <1>2, <3>1, <3>2 DEF BooksType
  <2>4. entry \in Reservations /\ entry.status # "none"
    BY <2>2 DEF Reservation, Reservations
  <2>5. b.reservations[k].status # "none" BY <1>4 DEF old
  <2> HIDE DEF daily, hourly, entry
  <2> DEFINE after == AfterSettle(k, actual)
  <2>6. after \in BooksType /\ after.day = b.day /\ after.hour = b.hour
        /\ after.reservations = [b.reservations EXCEPT ![k] = entry]
    BY <1>2, <2>1, <2>3, <2>4 DEF Books, BooksType
  <2> HIDE DEF after
  <2>7. /\ books.day = Day(now) /\ after.day = Day(now) /\ after.hour = now
        /\ Booked(after) = Booked(books)
    BY <2>4, <2>5, <2>6, ChangeEffect DEF b
  <2> QED BY <2>6, <2>7 DEF after
<1> QED BY <1>3, <1>4

-----------------------------------------------------------------------------
(* The invariant.                                                          *)

LEMMA LimitsStart == ASSUME Init PROVE LimitsInv
<1>1. now \in Nat /\ Day(now) \in Nat BY DayGrows DEF Init
<1>2. books \in BooksType
  BY <1>1 DEF Init, EmptyBooks, Books, BooksType, NoReservation, Reservation, Reservations
<1>3. TypeOK BY <1>2 DEF Init, TypeOK, Phases, BooksType
<1>4. PastInv BY <1>1 DEF Init, PastInv, EmptyBooks, Books
<1> QED BY <1>3, <1>4 DEF Init, LimitsInv, DeskInv, AtDesk, Open, OrderInv

LEMMA AskedTyped == ASSUME TypeOK, NEW k \in Orders PROVE requested[k] \in Nat
<1>1. requested[k] \in Amounts \cup {0} BY DEF TypeOK
<1>2. Amounts \subseteq Nat BY DEF LimitsAssumption
<1>3. CASE requested[k] \in Amounts BY <1>2, <1>3
<1>4. CASE requested[k] = 0 BY <1>4
<1> QED BY <1>1, <1>3, <1>4

\* Only the clock moves.
LEMMA ClockKeepsInv == ASSUME LimitsInv, ClockTicks PROVE LimitsInv'
<1>1. now \in Nat /\ now' = now + 1 /\ now' \in Nat /\ UNCHANGED <<books, phase, requested>>
  BY DEF LimitsInv, TypeOK, ClockTicks
<1>2. TypeOK' BY <1>1 DEF LimitsInv, TypeOK, ClockTicks
<1>3. Day(now) \in Nat /\ Day(now') \in Nat /\ Day(now) <= Day(now') BY <1>1, DayGrows
<1>4. books.day \in Nat /\ books.hour \in Nat BY DEF LimitsInv, TypeOK
<1>5. PastInv' BY <1>1, <1>3, <1>4 DEF LimitsInv, PastInv
<1>6. DeskInv' BY <1>1 DEF LimitsInv, DeskInv, AtDesk
<1>7. ASSUME NEW k \in Orders PROVE OrderInv(k)'
  <2>1. ASSUME phase[k] = "approved" PROVE Allowed(ReadAt(now), requested[k])'
    <3>1. Allowed(ReadAt(now), requested[k]) BY <2>1 DEF LimitsInv, OrderInv
    <3>2. ReadAt(now)' = ReadAt(now') BY <1>1 DEF ReadAt, EmptyBooks
    <3>3. /\ ReadAt(now').daily <= ReadAt(now).daily
          /\ ReadAt(now').hourly <= ReadAt(now).hourly
      BY <1>1, ReadShrinks DEF LimitsInv
    <3>4. /\ ReadAt(now).daily \in Nat /\ ReadAt(now).hourly \in Nat
          /\ ReadAt(now').daily \in Nat /\ ReadAt(now').hourly \in Nat
      BY <1>1, ReadEffect DEF LimitsInv, BooksType
    <3>5. requested[k] \in Nat BY AskedTyped DEF LimitsInv
    <3> QED BY <1>1, <3>1, <3>2, <3>3, <3>4, <3>5 DEF Allowed
  <2>2. books.day # Day(now) => books.day # Day(now')
    BY <1>3, <1>4 DEF LimitsInv, PastInv
  <2> QED BY <1>1, <2>1, <2>2 DEF LimitsInv, OrderInv, Booked
<1> QED BY <1>2, <1>5, <1>6, <1>7 DEF LimitsInv

\* A step of the one open order that leaves its phase in order keeps every other order's part.
LEMMA DeskMove ==
  ASSUME LimitsInv, NEW k \in Orders, NEW p \in Phases, AtDesk(k), Become(k, p)
  PROVE /\ phase' \in [Orders -> Phases] /\ phase'[k] = p /\ DeskInv'
        /\ \A j \in Orders \ {k} : phase'[j] = phase[j] /\ phase'[j] \notin Open
<1>1. phase' = [phase EXCEPT ![k] = p] /\ phase \in [Orders -> Phases]
  BY DEF Become, LimitsInv, TypeOK
<1>2. \A j \in Orders \ {k} : phase'[j] = phase[j] /\ phase[j] \notin Open
  BY <1>1 DEF LimitsInv, DeskInv, AtDesk
<1> QED BY <1>1, <1>2 DEF DeskInv, AtDesk

LEMMA ApproveKeepsInv == ASSUME LimitsInv, NEW k \in Orders, Approve(k) PROVE LimitsInv'
<1>1. PICK amount \in Amounts : /\ Allowed(ReadAt(now), amount)
                                /\ requested' = [requested EXCEPT ![k] = amount]
  BY DEF Approve
<1>2. phase' = [phase EXCEPT ![k] = "approved"] /\ UNCHANGED <<now, books>>
  BY DEF Approve, Become
<1>3. TypeOK' BY <1>1, <1>2 DEF LimitsInv, TypeOK, Phases
<1>4. \A j \in Orders \ {k} : phase'[j] = phase[j] /\ phase'[j] \notin Open
  BY <1>2 DEF Approve, AtDesk, LimitsInv, TypeOK
<1>5. phase'[k] = "approved" /\ requested'[k] = amount BY <1>1, <1>2 DEF LimitsInv, TypeOK
<1>6. DeskInv' BY <1>4 DEF DeskInv, AtDesk
<1>7. ReadAt(now)' = ReadAt(now) BY <1>2 DEF ReadAt, EmptyBooks
<1>8. Allowed(ReadAt(now), requested[k])' BY <1>1, <1>5, <1>7 DEF Allowed
<1>9. \A j \in Orders : OrderInv(j)' BY <1>4, <1>5, <1>8 DEF OrderInv, Open
<1> QED BY <1>2, <1>3, <1>6, <1>9 DEF LimitsInv, PastInv

\* What one reservation does to the file and the limits.
LEMMA ReserveStep ==
  ASSUME LimitsInv, NEW k \in Orders, Reserve(k)
  PROVE /\ books' \in BooksType /\ now' \in FirstHour..LastHour /\ now <= now'
        /\ books' = books \/ (books'.day = Day(now) /\ books'.hour = now)
        /\ k \in Booked(books')
        /\ requested[k] <= MaxDaily /\ requested[k] <= MaxHourly
        /\ books' # books => /\ Booked(books') = Booked(ReadAt(now)) \cup {k}
                             /\ books'.daily <= MaxDaily /\ books'.hourly <= MaxHourly
<1>1. PICK stamp \in now..(IF ClockMovesInside THEN now + 1 ELSE now) :
        stamp <= LastHour /\ books' = AfterReserve(k, requested[k], now, stamp) /\ now' = stamp
  BY DEF Reserve
<1>2. /\ now \in Nat /\ stamp \in Nat /\ now <= stamp /\ stamp \in FirstHour..LastHour
      /\ requested[k] \in Nat
  <2>1. now \in Nat /\ FirstHour <= now BY DEF LimitsInv, TypeOK
  <2>2. stamp \in Nat /\ now <= stamp BY <2>1
  <2> QED BY <1>1, <2>1, <2>2, AskedTyped DEF LimitsInv
<1>3. TypeOK BY DEF LimitsInv
<1> DEFINE b == ReadAt(now)
<1>4. b \in BooksType BY <1>2, <1>3, ReadEffect
<1>5. b.daily \in Nat /\ b.hourly \in Nat BY <1>4 DEF BooksType
<1>6. /\ books' \in BooksType
      /\ books' = books \/ (books'.day = Day(now) /\ books'.hour = now)
      /\ k \in Booked(b) => books' = books
      /\ k \notin Booked(b) => /\ books'.daily = b.daily + requested[k]
                               /\ books'.hourly = b.hourly + requested[k]
                               /\ Booked(books') = Booked(b) \cup {k}
  BY <1>1, <1>2, <1>3, ReserveEffect
<1>7. phase[k] \in {"approved", "booked"} BY DEF Reserve
<1>8. requested[k] <= MaxDaily /\ requested[k] <= MaxHourly
  BY <1>2, <1>5, <1>7 DEF LimitsInv, OrderInv, Allowed
<1>9. k \notin Booked(b) => b.daily + requested[k] <= MaxDaily /\ b.hourly + requested[k] <= MaxHourly
  <2>1. CASE phase[k] = "approved" BY <2>1 DEF LimitsInv, OrderInv, Allowed
  <2>2. CASE phase[k] = "booked"
    <3>1. SUFFICES ASSUME k \notin Booked(b)
                   PROVE b.daily + requested[k] <= MaxDaily /\ b.hourly + requested[k] <= MaxHourly
      OBVIOUS
    <3>2. books.day # Day(now)
      <4>1. SUFFICES ASSUME books.day = Day(now) PROVE FALSE OBVIOUS
      <4>2. b.reservations = books.reservations BY <1>2, <1>3, <4>1, ReadEffect
      <4>3. k \in Booked(books) BY <2>2, <4>1 DEF LimitsInv, OrderInv
      <4> QED BY <3>1, <4>2, <4>3 DEF Booked
    <3>3. b.daily = 0 /\ b.hourly = 0 BY <1>2, <1>3, <3>2, ReadEffect
    <3> QED BY <1>2, <1>8, <3>3
  <2> QED BY <1>7, <2>1, <2>2
<1>10. k \in Booked(books')
  <2>1. CASE k \in Booked(b)
    <3>1. books.day = Day(now) BY <1>2, <1>3, <2>1, ReadEffect
    <3>2. b.reservations = books.reservations BY <1>2, <1>3, <3>1, ReadEffect
    <3> QED BY <1>6, <2>1, <3>2 DEF Booked
  <2> QED BY <1>6, <2>1
<1> HIDE DEF b
<1>11. books' # books => /\ Booked(books') = Booked(b) \cup {k}
                         /\ books'.daily <= MaxDaily /\ books'.hourly <= MaxHourly
  BY <1>6, <1>9
<1> QED BY <1>1, <1>2, <1>6, <1>8, <1>10, <1>11 DEF b

LEMMA ReserveKeepsInv == ASSUME LimitsInv, NEW k \in Orders, Reserve(k) PROVE LimitsInv'
<1>1. AtDesk(k) /\ Become(k, "booked") /\ requested' = requested BY DEF Reserve, AtDesk, Open
<1>2. /\ phase' \in [Orders -> Phases] /\ phase'[k] = "booked" /\ DeskInv'
      /\ \A j \in Orders \ {k} : phase'[j] = phase[j] /\ phase'[j] \notin Open
  BY <1>1, DeskMove DEF Phases
<1>3. TypeOK' BY <1>1, <1>2, ReserveStep DEF LimitsInv, TypeOK, BooksType
<1>4. now \in Nat /\ now' \in Nat BY ReserveStep DEF LimitsInv, TypeOK
<1>5. Day(now) \in Nat /\ Day(now') \in Nat /\ Day(now) <= Day(now')
  BY <1>4, ReserveStep, DayGrows
<1>6. books.day \in Nat /\ books.hour \in Nat BY DEF LimitsInv, TypeOK
<1>7. PastInv'
  <2>1. CASE books' = books BY <1>4, <1>5, <1>6, <2>1, ReserveStep DEF LimitsInv, PastInv
  <2>2. CASE books'.day = Day(now) /\ books'.hour = now
    BY <1>4, <1>5, <2>2, ReserveStep DEF PastInv
  <2> QED BY <2>1, <2>2, ReserveStep
<1>8. OrderInv(k)' BY <1>1, <1>2, ReserveStep DEF OrderInv
<1>9. \A j \in Orders \ {k} : OrderInv(j)' BY <1>2 DEF OrderInv, Open
<1> QED BY <1>2, <1>3, <1>7, <1>8, <1>9 DEF LimitsInv

\* A file that a release or a settlement leaves behind.
Kept(S) ==
  /\ books' \in BooksType
  /\ \/ books' = books
     \/ /\ books.day = Day(now) /\ books'.day = Day(now) /\ books'.hour = now
        /\ Booked(books') = S

LEMMA KeptPast == ASSUME LimitsInv, NEW S, Kept(S), now' = now PROVE PastInv'
<1>1. now \in Nat /\ Day(now) \in Nat BY DayGrows DEF LimitsInv, TypeOK
<1> QED BY <1>1 DEF Kept, LimitsInv, PastInv

LEMMA RejectKeepsInv == ASSUME LimitsInv, NEW k \in Orders, Reject(k) PROVE LimitsInv'
<1>1. AtDesk(k) /\ Become(k, "rejected") /\ UNCHANGED <<now, requested>>
  BY DEF Reject, AtDesk, Open
<1>2. /\ phase' \in [Orders -> Phases] /\ phase'[k] = "rejected" /\ DeskInv'
      /\ \A j \in Orders \ {k} : phase'[j] = phase[j] /\ phase'[j] \notin Open
  BY <1>1, DeskMove DEF Phases
<1>3. Kept(Booked(books) \ {k}) BY ReleaseEffect DEF Kept, Reject, LimitsInv
<1>4. TypeOK' BY <1>1, <1>2, <1>3 DEF LimitsInv, TypeOK, BooksType, Kept
<1>5. PastInv' BY <1>1, <1>3, KeptPast
<1>6. \A j \in Orders : OrderInv(j)' BY <1>2 DEF OrderInv, Open
<1> QED BY <1>2, <1>4, <1>5, <1>6 DEF LimitsInv

LEMMA CloseKeepsInv == ASSUME LimitsInv, NEW k \in Orders, Close(k) PROVE LimitsInv'
<1>1. AtDesk(k) /\ Become(k, "closed") /\ UNCHANGED <<now, books, requested>>
  BY DEF Close, AtDesk, Open
<1>2. /\ phase' \in [Orders -> Phases] /\ phase'[k] = "closed" /\ DeskInv'
      /\ \A j \in Orders \ {k} : phase'[j] = phase[j] /\ phase'[j] \notin Open
  BY <1>1, DeskMove DEF Phases
<1>3. TypeOK' /\ PastInv' BY <1>1, <1>2 DEF LimitsInv, TypeOK, PastInv
<1>4. \A j \in Orders : OrderInv(j)' BY <1>2 DEF OrderInv, Open
<1> QED BY <1>2, <1>3, <1>4 DEF LimitsInv

LEMMA SubmitKeepsInv == ASSUME LimitsInv, NEW k \in Orders, Submit(k) PROVE LimitsInv'
<1>1. AtDesk(k) /\ Become(k, "out") /\ UNCHANGED <<now, books, requested>>
  BY DEF Submit, AtDesk, Open
<1>2. /\ phase' \in [Orders -> Phases] /\ phase'[k] = "out" /\ DeskInv'
      /\ \A j \in Orders \ {k} : phase'[j] = phase[j] /\ phase'[j] \notin Open
  BY <1>1, DeskMove DEF Phases
<1>3. TypeOK' /\ PastInv' BY <1>1, <1>2 DEF LimitsInv, TypeOK, PastInv
<1>4. OrderInv(k)' BY <1>1, <1>2 DEF Submit, LimitsInv, OrderInv, Booked
<1>5. \A j \in Orders \ {k} : OrderInv(j)' BY <1>2 DEF OrderInv, Open
<1> QED BY <1>2, <1>3, <1>4, <1>5 DEF LimitsInv

LEMMA FillKeepsInv == ASSUME LimitsInv, NEW k \in Orders, Fill(k) PROVE LimitsInv' /\ Kept(Booked(books))
<1>1. AtDesk(k) /\ Become(k, "filled") /\ UNCHANGED <<now, requested>>
  BY DEF Fill, AtDesk, Open
<1>2. /\ phase' \in [Orders -> Phases] /\ phase'[k] = "filled" /\ DeskInv'
      /\ \A j \in Orders \ {k} : phase'[j] = phase[j] /\ phase'[j] \notin Open
  BY <1>1, DeskMove DEF Phases
<1>3. Kept(Booked(books))
  <2>1. CASE books' = books BY <2>1 DEF Kept, LimitsInv, TypeOK, BooksType
  <2>2. ASSUME NEW actual \in Amounts, books' = AfterSettle(k, actual) PROVE Kept(Booked(books))
    BY <2>2, SettleEffect DEF Kept, LimitsInv
  <2> QED BY <2>1, <2>2 DEF Fill
<1>4. TypeOK' BY <1>1, <1>2, <1>3 DEF LimitsInv, TypeOK, BooksType, Kept
<1>5. PastInv' BY <1>1, <1>3, KeptPast
<1>6. \A j \in Orders : OrderInv(j)' BY <1>2 DEF OrderInv, Open
<1> QED BY <1>2, <1>3, <1>4, <1>5, <1>6 DEF LimitsInv

LEMMA SettleAgainKeepsInv ==
  ASSUME LimitsInv, NEW k \in Orders, SettleAgain(k) PROVE LimitsInv' /\ Kept(Booked(books))
<1>1. UNCHANGED <<now, phase, requested>> /\ \A j \in Orders : phase[j] # "approved"
  BY DEF SettleAgain
<1>2. Kept(Booked(books))
  <2>1. PICK actual \in Amounts : books' = AfterSettle(k, actual) BY DEF SettleAgain
  <2> QED BY <2>1, SettleEffect DEF Kept, LimitsInv
<1>3. TypeOK' BY <1>1, <1>2 DEF LimitsInv, TypeOK, BooksType, Kept
<1>4. PastInv' BY <1>1, <1>2, KeptPast
<1>5. DeskInv' BY <1>1 DEF LimitsInv, DeskInv, AtDesk
<1>6. \A j \in Orders : OrderInv(j)'
  BY <1>1, <1>2 DEF LimitsInv, OrderInv, Kept
<1> QED BY <1>2, <1>3, <1>4, <1>5, <1>6 DEF LimitsInv

LEMMA LimitsStep == ASSUME LimitsInv, [Next]_vars PROVE LimitsInv'
<1>1. CASE ClockTicks BY <1>1, ClockKeepsInv
<1>2. ASSUME NEW k \in Orders,
             Approve(k) \/ Reserve(k) \/ Reject(k) \/ Close(k) \/ Submit(k) \/ Fill(k)
               \/ SettleAgain(k)
      PROVE LimitsInv'
  BY <1>2, ApproveKeepsInv, ReserveKeepsInv, RejectKeepsInv, CloseKeepsInv, SubmitKeepsInv,
     FillKeepsInv, SettleAgainKeepsInv
<1>3. CASE UNCHANGED vars
  BY <1>3 DEF vars, LimitsInv, TypeOK, PastInv, DeskInv, AtDesk, OrderInv, Allowed, ReadAt, EmptyBooks,
     Booked
<1> QED BY <1>1, <1>2, <1>3 DEF Next

-----------------------------------------------------------------------------
(* The theorems.                                                           *)

\* The file and the orders keep their types through every operation and turn of the clock: in
\* particular no total ever becomes negative.
THEOREM BooksTyped == Spec => []TypeOK
<1>1. LimitsInv => TypeOK BY DEF LimitsInv
<1> QED BY <1>1, LimitsStart, LimitsStep, PTL DEF Spec

\* An order on its way is booked as long as the day lasts on which it was reserved.
THEOREM StaysBooked == Spec => []OutIsBooked
<1>1. ASSUME LimitsInv PROVE OutIsBooked
  <2> SUFFICES ASSUME NEW k \in Orders, phase[k] \in {"booked", "out"}
               PROVE k \in Booked(ReadAt(now)) \/ books.day # Day(now)
    BY DEF OutIsBooked
  <2>1. now \in Nat /\ TypeOK BY <1>1 DEF LimitsInv, TypeOK
  <2>2. CASE books.day # Day(now) BY <2>2
  <2>3. CASE books.day = Day(now)
    <3>1. ReadAt(now).reservations = books.reservations BY <2>1, <2>3, ReadEffect
    <3> QED BY <1>1, <2>3, <3>1 DEF LimitsInv, OrderInv, Booked
  <2> QED BY <2>2, <2>3
<1> QED BY <1>1, LimitsStart, LimitsStep, PTL DEF Spec

\* Whatever crashes, replays and turns of the clock come between an order's approval and its
\* reservation, no reservation lifts a total over its limit.
THEOREM LimitsHold == Spec => WithinLimits
<1> DEFINE Fits == \A k \in Orders :
             books' # books /\ k \in Booked(books') \ Booked(ReadAt(now)) =>
               books'.daily <= MaxDaily /\ books'.hourly <= MaxHourly
<1>1. ASSUME LimitsInv, [Next]_vars PROVE [Fits]_vars
  <2>1. ASSUME books' # books PROVE Fits
    <3>1. ASSUME NEW j \in Orders, Reserve(j) PROVE Fits BY <1>1, <2>1, <3>1, ReserveStep
    <3>2. ASSUME Booked(books') \subseteq Booked(ReadAt(now)) PROVE Fits BY <3>2
    <3>3. now \in Nat /\ TypeOK BY <1>1 DEF LimitsInv, TypeOK
    <3>4. ASSUME NEW S, Kept(S), S \subseteq Booked(books) PROVE Fits
      <4>1. books.day = Day(now) /\ Booked(books') = S BY <2>1, <3>4 DEF Kept
      <4>2. ReadAt(now).reservations = books.reservations BY <3>3, <4>1, ReadEffect
      <4> QED BY <3>2, <3>4, <4>1, <4>2 DEF Booked
    <3>5. ASSUME NEW j \in Orders, Reject(j) PROVE Fits
      <4>1. Kept(Booked(books) \ {j}) BY <1>1, <3>5, ReleaseEffect DEF Kept, Reject, LimitsInv
      <4> QED BY <3>4, <4>1
    <3>6. ASSUME NEW j \in Orders, Fill(j) \/ SettleAgain(j) PROVE Fits
      <4>1. Kept(Booked(books)) BY <1>1, <3>6, FillKeepsInv, SettleAgainKeepsInv
      <4> QED BY <3>4, <4>1
    <3>7. ASSUME NEW j \in Orders, Approve(j) \/ Close(j) \/ Submit(j) PROVE Fits
      BY <2>1, <3>7 DEF Approve, Close, Submit
    <3> QED BY <1>1, <2>1, <3>1, <3>5, <3>6, <3>7 DEF Next, ClockTicks, vars
  <2> QED BY <2>1
<1> QED BY <1>1, LimitsStart, LimitsStep, PTL DEF Spec, WithinLimits
-----------------------------------------------------------------------------
(* Totals and counts of a set of reservations, when one of them changes.    *)

\* `after` is the file b with the reservation of k replaced.
Rebooked(b, after, k, entry) ==
  /\ b \in BooksType /\ after \in BooksType /\ k \in Orders /\ entry \in Reservations
  /\ after.reservations = [b.reservations EXCEPT ![k] = entry]

LEMMA TotalType ==
  ASSUME NEW b \in BooksType, NEW S \in SUBSET Orders, IsFiniteSet(S)
  PROVE Total(b, S) \in Nat /\ Cardinality(S) \in Nat
<1> DEFINE f == [k \in Orders |-> b.reservations[k].amount]
<1>1. \A k \in S : f[k] \in Nat BY DEF BooksType, Reservations
<1> HIDE DEF f
<1>2. SumFunctionOnSet(f, S) \in Nat BY <1>1, SumType
<1> QED BY <1>2, FS_CardinalityType DEF Total, f

LEMMA TotalTakesOut ==
  ASSUME NEW b \in BooksType, NEW S \in SUBSET Orders, IsFiniteSet(S), NEW k \in S
  PROVE Total(b, S) = b.reservations[k].amount + Total(b, S \ {k})
<1> DEFINE f == [j \in Orders |-> b.reservations[j].amount]
<1>1. \A j \in S : f[j] \in Nat BY DEF BooksType, Reservations
<1>2. f[k] = b.reservations[k].amount OBVIOUS
<1> HIDE DEF f
<1>3. SumFunctionOnSet(f, S) = f[k] + SumFunctionOnSet(f, S \ {k}) BY <1>1, SumTakesOut
<1> QED BY <1>2, <1>3 DEF Total, f

\* A reservation outside a set does not count in it.
LEMMA TotalUntouched ==
  ASSUME NEW b, NEW after, NEW k, NEW entry, Rebooked(b, after, k, entry),
         NEW S \in SUBSET Orders, IsFiniteSet(S), k \notin S
  PROVE Total(after, S) = Total(b, S)
<1> DEFINE f == [j \in Orders |-> b.reservations[j].amount]
           g == [j \in Orders |-> after.reservations[j].amount]
<1>1. \A j \in S : f[j] = g[j] BY DEF Rebooked, BooksType
<1> HIDE DEF f, g
<1>2. SumFunctionOnSet(f, S) = SumFunctionOnSet(g, S) BY <1>1, SumAgrees
<1> QED BY <1>2 DEF Total, f, g

LEMMA TotalAdded ==
  ASSUME NEW b, NEW after, NEW k, NEW entry, Rebooked(b, after, k, entry),
         NEW S \in SUBSET Orders, IsFiniteSet(S), k \notin S
  PROVE /\ IsFiniteSet(S \cup {k}) /\ Cardinality(S \cup {k}) = Cardinality(S) + 1
        /\ Total(after, S \cup {k}) = Total(b, S) + entry.amount
<1>1. IsFiniteSet(S \cup {k}) /\ Cardinality(S \cup {k}) = Cardinality(S) + 1 BY FS_AddElement
<1>2. S \cup {k} \in SUBSET Orders /\ (S \cup {k}) \ {k} = S BY DEF Rebooked
<1>3. after.reservations[k] = entry BY DEF Rebooked, BooksType
<1>4. Total(after, S \cup {k}) = after.reservations[k].amount + Total(after, (S \cup {k}) \ {k})
  <2> DEFINE T == S \cup {k}
  <2>1. k \in T /\ T \in SUBSET Orders /\ IsFiniteSet(T) /\ after \in BooksType
    BY <1>1, <1>2 DEF Rebooked
  <2> HIDE DEF T
  <2>2. Total(after, T) = after.reservations[k].amount + Total(after, T \ {k})
    BY <2>1, TotalTakesOut
  <2> QED BY <2>2 DEF T
<1>5. Total(b, S) \in Nat /\ entry.amount \in Nat BY TotalType DEF Rebooked, Reservations
<1> QED BY <1>1, <1>2, <1>3, <1>4, <1>5, TotalUntouched

LEMMA TotalRemoved ==
  ASSUME NEW b, NEW after, NEW k, NEW entry, Rebooked(b, after, k, entry),
         NEW S \in SUBSET Orders, IsFiniteSet(S), k \in S
  PROVE /\ IsFiniteSet(S \ {k}) /\ Cardinality(S \ {k}) = Less(Cardinality(S), 1)
        /\ Total(after, S \ {k}) = Less(Total(b, S), b.reservations[k].amount)
<1> DEFINE amount == b.reservations[k].amount
<1>1. /\ IsFiniteSet(S \ {k}) /\ Cardinality(S \ {k}) = Cardinality(S) - 1
      /\ Cardinality(S) \in Nat /\ Cardinality(S \ {k}) \in Nat
  BY FS_RemoveElement, FS_CardinalityType
<1>2. Total(b, S) = amount + Total(b, S \ {k}) BY TotalTakesOut DEF Rebooked
<1>3. Total(b, S \ {k}) \in Nat /\ amount \in Nat
  BY <1>1, TotalType DEF Rebooked, Reservations, BooksType
<1>4. Total(after, S \ {k}) = Total(b, S \ {k}) BY <1>1, TotalUntouched
<1> HIDE DEF amount
<1>5. Less(Total(b, S), amount) = Total(b, S \ {k}) BY <1>2, <1>3 DEF Less
<1>6. Less(Cardinality(S), 1) = Cardinality(S) - 1 BY <1>1 DEF Less
<1> QED BY <1>1, <1>4, <1>5, <1>6 DEF amount

LEMMA TotalReplaced ==
  ASSUME NEW b, NEW after, NEW k, NEW entry, Rebooked(b, after, k, entry),
         NEW S \in SUBSET Orders, IsFiniteSet(S), k \in S
  PROVE Total(after, S) = Less(Total(b, S) + entry.amount, b.reservations[k].amount)
<1> DEFINE amount == b.reservations[k].amount
           rest == Total(b, S \ {k})
<1>1. IsFiniteSet(S \ {k}) BY FS_RemoveElement
<1>2. Total(b, S) = amount + rest BY TotalTakesOut DEF Rebooked
<1>3. Total(after, S) = after.reservations[k].amount + Total(after, S \ {k})
  BY TotalTakesOut DEF Rebooked
<1>4. after.reservations[k] = entry BY DEF Rebooked, BooksType
<1>5. Total(after, S \ {k}) = rest BY <1>1, TotalUntouched
<1>6. rest \in Nat /\ amount \in Nat /\ entry.amount \in Nat
  BY <1>1, TotalType DEF Rebooked, Reservations, BooksType
<1> HIDE DEF amount, rest
<1>7. Less(amount + rest + entry.amount, amount) = rest + entry.amount BY <1>6 DEF Less
<1>8. Total(after, S) = rest + entry.amount BY <1>3, <1>4, <1>5, <1>6
<1> QED BY <1>2, <1>7, <1>8 DEF amount

-----------------------------------------------------------------------------
(* A file that balances.                                                   *)

Recent(b) == {k \in Booked(b) : OfHour(b, k)}

DayBalanced(b) ==
  /\ IsFiniteSet(Booked(b)) /\ \A k \in Booked(b) : OfDay(b, k)
  /\ b.daily = Total(b, Booked(b)) /\ b.count = Cardinality(Booked(b))

\* A reservation is never of a later hour than its file.
HourBalanced(b) ==
  /\ \A k \in Booked(b) : b.reservations[k].hour <= b.hour
  /\ b.hourly = Total(b, Recent(b)) /\ b.hourlyCount = Cardinality(Recent(b))

LEMMA SubsetsAreFinite ==
  ASSUME NEW b \in BooksType, DayBalanced(b)
  PROVE /\ Booked(b) \in SUBSET Orders /\ Recent(b) \in SUBSET Orders
        /\ IsFiniteSet(Booked(b)) /\ IsFiniteSet(Recent(b))
<1>1. Booked(b) \in SUBSET Orders /\ Recent(b) \in SUBSET Booked(b) BY DEF Booked, Recent
<1> QED BY <1>1, FS_Subset DEF DayBalanced

LEMMA EmptyBalances ==
  ASSUME NEW h \in Nat PROVE DayBalanced(EmptyBooks(h)) /\ HourBalanced(EmptyBooks(h))
<1> DEFINE b == EmptyBooks(h)
<1>1. Booked(b) = {} /\ b.daily = 0 /\ b.hourly = 0 /\ b.count = 0 /\ b.hourlyCount = 0
  BY DEF EmptyBooks, Books, Booked, NoReservation, Reservation
<1> HIDE DEF b
<1>2. Recent(b) = {} BY <1>1 DEF Recent
<1>3. Total(b, {}) = 0 BY SumOfNone DEF Total
<1>4. DayBalanced(b) /\ HourBalanced(b)
  BY <1>1, <1>2, <1>3, FS_EmptySet DEF DayBalanced, HourBalanced
<1> QED BY <1>4 DEF b

\* A reservation of the day, and of the hour when the clock stands still, keeps the balance.
LEMMA AddedBalances ==
  ASSUME NEW b, NEW after, NEW k, NEW entry, Rebooked(b, after, k, entry),
         k \notin Booked(b), entry.status # "none",
         after.day = b.day, after.hour = b.hour, Day(entry.hour) = b.day,
         after.daily = b.daily + entry.amount, after.count = b.count + 1,
         after.hourly = b.hourly + entry.amount, after.hourlyCount = b.hourlyCount + 1,
         DayBalanced(b)
  PROVE /\ DayBalanced(after)
        /\ HourBalanced(b) /\ entry.hour = b.hour => HourBalanced(after)
<1>1. /\ Booked(b) \in SUBSET Orders /\ Recent(b) \in SUBSET Orders
      /\ IsFiniteSet(Booked(b)) /\ IsFiniteSet(Recent(b))
  BY SubsetsAreFinite DEF Rebooked
<1>2. \A j \in Orders : after.reservations[j] = IF j = k THEN entry ELSE b.reservations[j]
  BY DEF Rebooked, BooksType
<1>3. Booked(after) = Booked(b) \cup {k} BY <1>2 DEF Booked, Rebooked
<1>4. DayBalanced(after)
  <2>1. /\ IsFiniteSet(Booked(b) \cup {k}) /\ Cardinality(Booked(b) \cup {k}) = b.count + 1
        /\ Total(after, Booked(b) \cup {k}) = b.daily + entry.amount
    BY <1>1, TotalAdded DEF DayBalanced
  <2>2. \A j \in Booked(after) : OfDay(after, j) BY <1>2, <1>3 DEF DayBalanced, OfDay, Booked, Rebooked
  <2> QED BY <1>3, <2>1, <2>2 DEF DayBalanced
<1>5. ASSUME HourBalanced(b), entry.hour = b.hour PROVE HourBalanced(after)
  <2>1. Recent(after) = Recent(b) \cup {k}
    BY <1>2, <1>3, <1>5 DEF Recent, OfHour, Booked, Rebooked
  <2>2. k \notin Recent(b) BY DEF Recent
  <2>3. /\ Cardinality(Recent(b) \cup {k}) = b.hourlyCount + 1
        /\ Total(after, Recent(b) \cup {k}) = b.hourly + entry.amount
    BY <1>1, <1>5, <2>2, TotalAdded DEF HourBalanced
  <2>4. \A j \in Booked(after) : after.reservations[j].hour <= after.hour
    <3>1. b.hour \in Nat BY DEF Rebooked, BooksType
    <3> QED BY <1>2, <1>3, <1>5, <3>1 DEF HourBalanced, Booked, Rebooked
  <2> QED BY <2>1, <2>3, <2>4 DEF HourBalanced
<1> QED BY <1>4, <1>5

\* Giving a reservation back takes it out of the totals it is part of.
LEMMA RemovedBalances ==
  ASSUME NEW b, NEW after, NEW k, NEW entry, Rebooked(b, after, k, entry),
         k \in Booked(b), entry.status = "none",
         after.day = b.day, after.hour = b.hour,
         after.daily = Less(b.daily, b.reservations[k].amount),
         after.count = Less(b.count, 1),
         after.hourly = IF OfHour(b, k) THEN Less(b.hourly, b.reservations[k].amount) ELSE b.hourly,
         after.hourlyCount = IF OfHour(b, k) THEN Less(b.hourlyCount, 1) ELSE b.hourlyCount,
         DayBalanced(b)
  PROVE DayBalanced(after) /\ (HourBalanced(b) => HourBalanced(after))
<1>1. /\ Booked(b) \in SUBSET Orders /\ Recent(b) \in SUBSET Orders
      /\ IsFiniteSet(Booked(b)) /\ IsFiniteSet(Recent(b))
  BY SubsetsAreFinite DEF Rebooked
<1>2. \A j \in Orders : after.reservations[j] = IF j = k THEN entry ELSE b.reservations[j]
  BY DEF Rebooked, BooksType
<1>3. Booked(after) = Booked(b) \ {k} BY <1>2 DEF Booked, Rebooked
<1>4. DayBalanced(after)
  <2>1. /\ IsFiniteSet(Booked(b) \ {k}) /\ Cardinality(Booked(b) \ {k}) = Less(b.count, 1)
        /\ Total(after, Booked(b) \ {k}) = Less(b.daily, b.reservations[k].amount)
    BY <1>1, TotalRemoved DEF DayBalanced
  <2>2. \A j \in Booked(after) : OfDay(after, j) BY <1>2, <1>3 DEF DayBalanced, OfDay, Booked, Rebooked
  <2> QED BY <1>3, <2>1, <2>2 DEF DayBalanced
<1>5. ASSUME HourBalanced(b) PROVE HourBalanced(after)
  <2>1. Recent(after) = Recent(b) \ {k}
    BY <1>2, <1>3 DEF Recent, OfHour, Booked, Rebooked
  <2>2. \A j \in Booked(after) : after.reservations[j].hour <= after.hour
    BY <1>2, <1>3, <1>5 DEF HourBalanced, Booked, Rebooked
  <2>3. CASE OfHour(b, k)
    <3>1. k \in Recent(b) BY <2>3 DEF Recent
    <3>2. /\ Cardinality(Recent(b) \ {k}) = Less(b.hourlyCount, 1)
          /\ Total(after, Recent(b) \ {k}) = Less(b.hourly, b.reservations[k].amount)
      BY <1>1, <1>5, <3>1, TotalRemoved DEF HourBalanced
    <3> QED BY <2>1, <2>2, <2>3, <3>2 DEF HourBalanced
  <2>4. CASE ~ OfHour(b, k)
    <3>1. k \notin Recent(b) /\ Recent(b) \ {k} = Recent(b) BY <2>4 DEF Recent
    <3>2. Total(after, Recent(b)) = b.hourly BY <1>1, <1>5, <3>1, TotalUntouched DEF HourBalanced
    <3> QED BY <1>5, <2>1, <2>2, <2>4, <3>1, <3>2 DEF HourBalanced
  <2> QED BY <2>3, <2>4
<1> QED BY <1>4, <1>5

\* A settlement puts the real amount in the place of the reserved one.
LEMMA ReplacedBalances ==
  ASSUME NEW b, NEW after, NEW k, NEW entry, Rebooked(b, after, k, entry),
         k \in Booked(b), entry.status # "none", entry.hour = b.reservations[k].hour,
         after.day = b.day, after.hour = b.hour,
         after.daily = Less(b.daily + entry.amount, b.reservations[k].amount),
         after.count = b.count, after.hourlyCount = b.hourlyCount,
         after.hourly = IF OfHour(b, k) THEN Less(b.hourly + entry.amount, b.reservations[k].amount)
                                        ELSE b.hourly,
         DayBalanced(b)
  PROVE DayBalanced(after) /\ (HourBalanced(b) => HourBalanced(after))
<1>1. /\ Booked(b) \in SUBSET Orders /\ Recent(b) \in SUBSET Orders
      /\ IsFiniteSet(Booked(b)) /\ IsFiniteSet(Recent(b))
  BY SubsetsAreFinite DEF Rebooked
<1>2. \A j \in Orders : after.reservations[j] = IF j = k THEN entry ELSE b.reservations[j]
  BY DEF Rebooked, BooksType
<1>3. Booked(after) = Booked(b) BY <1>2 DEF Booked, Rebooked
<1>4. DayBalanced(after)
  <2>1. Total(after, Booked(b)) = Less(b.daily + entry.amount, b.reservations[k].amount)
    BY <1>1, TotalReplaced DEF DayBalanced
  <2>2. \A j \in Booked(after) : OfDay(after, j) BY <1>2, <1>3 DEF DayBalanced, OfDay, Booked, Rebooked
  <2> QED BY <1>1, <1>3, <2>1, <2>2 DEF DayBalanced
<1>5. ASSUME HourBalanced(b) PROVE HourBalanced(after)
  <2>1. Recent(after) = Recent(b) BY <1>2, <1>3 DEF Recent, OfHour, Booked, Rebooked
  <2>2. \A j \in Booked(after) : after.reservations[j].hour <= after.hour
    BY <1>2, <1>3, <1>5 DEF HourBalanced, Booked, Rebooked
  <2>3. CASE OfHour(b, k)
    <3>1. k \in Recent(b) BY <2>3 DEF Recent
    <3>2. Total(after, Recent(b)) = Less(b.hourly + entry.amount, b.reservations[k].amount)
      BY <1>1, <1>5, <3>1, TotalReplaced DEF HourBalanced
    <3> QED BY <1>5, <2>1, <2>2, <2>3, <3>2 DEF HourBalanced
  <2>4. CASE ~ OfHour(b, k)
    <3>1. k \notin Recent(b) BY <2>4 DEF Recent
    <3>2. Total(after, Recent(b)) = b.hourly BY <1>1, <1>5, <3>1, TotalUntouched DEF HourBalanced
    <3> QED BY <1>5, <2>1, <2>2, <2>4, <3>2 DEF HourBalanced
  <2> QED BY <2>3, <2>4
<1> QED BY <1>4, <1>5

-----------------------------------------------------------------------------
(* The balance through every step.                                         *)

\* A file of a past day is never read again.  The hour's part needs a clock that stands still
\* while a reservation is made: otherwise it is stamped with an hour that its file is not of.
Balances(b) == DayBalanced(b) /\ (ClockMovesInside \/ HourBalanced(b))
BalanceInv == LimitsInv /\ (books.day = Day(now) => Balances(books))

LEMMA ReadBalances == ASSUME BalanceInv PROVE Balances(ReadAt(now))
<1> DEFINE b == ReadAt(now)
<1>1. TypeOK /\ PastInv /\ now \in Nat BY DEF BalanceInv, LimitsInv, TypeOK
<1>2. CASE books.day # Day(now)
  <2>1. b = EmptyBooks(now) BY <1>2 DEF ReadAt
  <2> HIDE DEF b
  <2> QED BY <1>1, <2>1, EmptyBalances DEF Balances, b
<1>3. CASE books.day = Day(now) /\ books.hour = now
  <2>1. b = books BY <1>3 DEF ReadAt
  <2> HIDE DEF b
  <2> QED BY <1>3, <2>1 DEF BalanceInv, b
<1>4. CASE books.day = Day(now) /\ books.hour # now
  <2>1. b = Books(books.day, now, books.daily, 0, books.count, 0, books.reservations)
    BY <1>4 DEF ReadAt
  <2>2. /\ b.reservations = books.reservations /\ b.day = books.day /\ b.daily = books.daily
        /\ b.count = books.count /\ b.hour = now /\ b.hourly = 0 /\ b.hourlyCount = 0
    BY <2>1 DEF Books
  <2> HIDE DEF b
  <2>3. Balances(books) BY <1>4 DEF BalanceInv
  <2>4. Booked(b) = Booked(books) /\ \A S : Total(b, S) = Total(books, S)
    BY <2>2 DEF Booked, Total
  <2>5. DayBalanced(b) BY <2>2, <2>3, <2>4 DEF Balances, DayBalanced, OfDay
  <2>6. ASSUME HourBalanced(books) PROVE HourBalanced(b)
    <3>1. books.hour \in Nat /\ books.hour < now BY <1>1, <1>4 DEF PastInv, TypeOK
    <3>2. \A k \in Booked(b) : b.reservations[k].hour \in Nat /\ b.reservations[k].hour < now
      <4>1. \A k \in Orders : books.reservations[k].hour \in Nat
        BY <1>1 DEF TypeOK, Reservations
      <4> QED BY <1>1, <2>2, <2>4, <2>6, <3>1, <4>1 DEF HourBalanced, Booked
    <3>3. Recent(b) = {} BY <1>1, <2>2, <3>2 DEF Recent, OfHour
    <3>4. Total(b, {}) = 0 BY SumOfNone DEF Total
    <3> QED BY <1>1, <2>2, <3>2, <3>3, <3>4, FS_EmptySet DEF HourBalanced
  <2> QED BY <2>3, <2>5, <2>6 DEF Balances, b
<1> QED BY <1>2, <1>3, <1>4

LEMMA ReserveBalances ==
  ASSUME BalanceInv, NEW k \in Orders, NEW amount \in Nat, NEW stamp \in Nat, now <= stamp,
         ClockMovesInside \/ stamp = now,
         AfterReserve(k, amount, now, stamp).day = Day(stamp)
  PROVE Balances(AfterReserve(k, amount, now, stamp))
<1> DEFINE b == ReadAt(now)
           after == AfterReserve(k, amount, now, stamp)
           entry == Reservation("reserved", amount, stamp)
<1>1. TypeOK /\ PastInv /\ now \in Nat BY DEF BalanceInv, LimitsInv, TypeOK
<1>2. b \in BooksType /\ b.day = Day(now) /\ b.hour = now BY <1>1, ReadEffect
<1>3. CASE k \in Booked(b)
  <2>1. after = books BY <1>3 DEF AfterReserve
  <2>2. books.day = Day(now) BY <1>1, <1>3, ReadEffect
  <2> HIDE DEF after
  <2> QED BY <2>1, <2>2 DEF BalanceInv, after
<1>4. CASE k \notin Booked(b)
  <2>1. after = Books(b.day, b.hour, b.daily + amount, b.hourly + amount, b.count + 1,
                      b.hourlyCount + 1, [b.reservations EXCEPT ![k] = entry])
    BY <1>4 DEF AfterReserve
  <2>2. after \in BooksType BY <1>1, ReserveEffect
  <2>3. entry \in Reservations /\ entry.status # "none" /\ entry.amount = amount /\ entry.hour = stamp
    BY DEF Reservation, Reservations
  <2>4. Balances(b) BY ReadBalances
  <2>5. after.day = Day(stamp) OBVIOUS
  <2> HIDE DEF b, after, entry
  <2>6. /\ after.reservations = [b.reservations EXCEPT ![k] = entry]
        /\ after.day = b.day /\ after.hour = b.hour
        /\ after.daily = b.daily + entry.amount /\ after.count = b.count + 1
        /\ after.hourly = b.hourly + entry.amount /\ after.hourlyCount = b.hourlyCount + 1
    BY <2>1, <2>3 DEF Books
  <2>7. Rebooked(b, after, k, entry) BY <1>2, <2>2, <2>3, <2>6 DEF Rebooked
  <2>8. /\ DayBalanced(after)
        /\ HourBalanced(b) /\ entry.hour = b.hour => HourBalanced(after)
    BY <1>4, <2>3, <2>4, <2>5, <2>6, <2>7, AddedBalances DEF Balances
  <2> QED BY <1>2, <2>3, <2>4, <2>8 DEF Balances, after
<1> QED BY <1>3, <1>4

LEMMA ReleaseBalances ==
  ASSUME BalanceInv, NEW k \in Orders, AfterRelease(k).day = Day(now)
  PROVE Balances(AfterRelease(k))
<1> DEFINE b == ReadAt(now)
           amount == b.reservations[k].amount
           after == AfterRelease(k)
<1>1. TypeOK /\ PastInv /\ now \in Nat BY DEF BalanceInv, LimitsInv, TypeOK
<1>2. b \in BooksType BY <1>1, ReadEffect
<1>3. after.day = Day(now) OBVIOUS
<1>4. CASE b.reservations[k].status # "reserved"
  <2>1. after = books BY <1>4 DEF AfterRelease
  <2> HIDE DEF after
  <2> QED BY <1>3, <2>1 DEF BalanceInv, after
<1>5. CASE b.reservations[k].status = "reserved"
  <2>1. Balances(b) BY ReadBalances
  <2>2. k \in Booked(b) BY <1>5 DEF Booked
  <2>3. OfDay(b, k) BY <2>1, <2>2 DEF Balances, DayBalanced
  <2>4. after = Books(b.day, b.hour, Less(b.daily, amount),
                      IF OfHour(b, k) THEN Less(b.hourly, amount) ELSE b.hourly,
                      Less(b.count, 1),
                      IF OfHour(b, k) THEN Less(b.hourlyCount, 1) ELSE b.hourlyCount,
                      [b.reservations EXCEPT ![k] = NoReservation])
    BY <1>5, <2>3 DEF AfterRelease
  <2>5. after \in BooksType BY <1>1, ReleaseEffect
  <2>6. NoReservation \in Reservations /\ NoReservation.status = "none"
    BY DEF NoReservation, Reservation, Reservations
  <2> HIDE DEF b, after
  <2>7. /\ after.reservations = [b.reservations EXCEPT ![k] = NoReservation]
        /\ after.day = b.day /\ after.hour = b.hour
        /\ after.daily = Less(b.daily, amount) /\ after.count = Less(b.count, 1)
        /\ after.hourly = IF OfHour(b, k) THEN Less(b.hourly, amount) ELSE b.hourly
        /\ after.hourlyCount = IF OfHour(b, k) THEN Less(b.hourlyCount, 1) ELSE b.hourlyCount
    BY <2>4 DEF Books
  <2>8. Rebooked(b, after, k, NoReservation) BY <1>2, <2>5, <2>6, <2>7 DEF Rebooked
  <2>9. DayBalanced(after) /\ (HourBalanced(b) => HourBalanced(after))
    BY <2>1, <2>2, <2>6, <2>7, <2>8, RemovedBalances DEF Balances
  <2> QED BY <2>1, <2>9 DEF Balances, after
<1> QED BY <1>4, <1>5

LEMMA SettleBalances ==
  ASSUME BalanceInv, NEW k \in Orders, NEW actual \in Nat, AfterSettle(k, actual).day = Day(now)
  PROVE Balances(AfterSettle(k, actual))
<1> DEFINE b == ReadAt(now)
           old == b.reservations[k]
           after == AfterSettle(k, actual)
           entry == Reservation("settled", actual, old.hour)
<1>1. TypeOK /\ PastInv /\ now \in Nat BY DEF BalanceInv, LimitsInv, TypeOK
<1>2. b \in BooksType BY <1>1, ReadEffect
<1>3. after.day = Day(now) OBVIOUS
<1>4. CASE old.status = "none" \/ (old.status = "settled" /\ old.amount = actual)
  <2>1. after = books BY <1>4 DEF AfterSettle
  <2> HIDE DEF after
  <2> QED BY <1>3, <2>1 DEF BalanceInv, after
<1>5. CASE ~(old.status = "none" \/ (old.status = "settled" /\ old.amount = actual))
  <2>1. Balances(b) BY ReadBalances
  <2>2. k \in Booked(b) BY <1>5 DEF Booked
  <2>3. OfDay(b, k) BY <2>1, <2>2 DEF Balances, DayBalanced
  <2>4. after = Books(b.day, b.hour, Less(b.daily + actual, old.amount),
                      IF OfHour(b, k) THEN Less(b.hourly + actual, old.amount) ELSE b.hourly,
                      b.count, b.hourlyCount, [b.reservations EXCEPT ![k] = entry])
    BY <1>5, <2>3 DEF AfterSettle
  <2>5. after \in BooksType BY <1>1, SettleEffect
  <2> HIDE DEF b
  <2>6. old \in Reservations BY <1>2 DEF BooksType
  <2>7. /\ entry \in Reservations /\ entry.status # "none"
        /\ entry.amount = actual /\ entry.hour = old.hour
    BY <2>6 DEF Reservation, Reservations
  <2> HIDE DEF after, entry
  <2>8. /\ after.reservations = [b.reservations EXCEPT ![k] = entry]
        /\ after.day = b.day /\ after.hour = b.hour
        /\ after.daily = Less(b.daily + entry.amount, old.amount)
        /\ after.count = b.count /\ after.hourlyCount = b.hourlyCount
        /\ after.hourly = IF OfHour(b, k) THEN Less(b.hourly + entry.amount, old.amount)
                                          ELSE b.hourly
    BY <2>4, <2>7 DEF Books
  <2>9. Rebooked(b, after, k, entry) BY <1>2, <2>5, <2>7, <2>8 DEF Rebooked
  <2>10. DayBalanced(after) /\ (HourBalanced(b) => HourBalanced(after))
    BY <2>1, <2>2, <2>7, <2>8, <2>9, ReplacedBalances DEF Balances
  <2> QED BY <2>1, <2>10 DEF Balances, after
<1> QED BY <1>4, <1>5

LEMMA InitBalances == ASSUME Init PROVE BalanceInv
<1>1. now \in Nat BY DEF Init
<1> QED BY <1>1, LimitsStart, EmptyBalances DEF Init, BalanceInv, Balances

LEMMA StepKeepsBalance == ASSUME BalanceInv, [Next]_vars PROVE BalanceInv'
<1>1. LimitsInv /\ LimitsInv' BY LimitsStep DEF BalanceInv
<1>2. now \in Nat /\ now' \in Nat /\ TypeOK /\ PastInv BY <1>1 DEF LimitsInv, TypeOK
<1> SUFFICES ASSUME books'.day = Day(now') PROVE Balances(books')
  BY <1>1 DEF BalanceInv, Balances, DayBalanced, HourBalanced, Recent, Booked, Total, OfDay, OfHour
<1>3. ASSUME books' = books, now <= now' PROVE Balances(books')
  <2>1. Day(now) \in Nat /\ Day(now) <= Day(now') BY <1>2, <1>3, DayGrows
  <2>2. books.day \in Nat /\ books.day <= Day(now) BY <1>2 DEF PastInv, TypeOK
  <2>3. books.day = Day(now) BY <1>3, <2>1, <2>2
  <2> QED BY <1>3, <2>3 DEF BalanceInv
<1>4. CASE ClockTicks BY <1>2, <1>3, <1>4 DEF ClockTicks
<1>5. CASE UNCHANGED vars BY <1>2, <1>3, <1>5 DEF vars
<1>6. ASSUME NEW k \in Orders, Approve(k) \/ Close(k) \/ Submit(k) PROVE Balances(books')
  BY <1>2, <1>3, <1>6 DEF Approve, Close, Submit
<1>7. ASSUME NEW k \in Orders, Reserve(k) PROVE Balances(books')
  <2>1. PICK stamp \in now..(IF ClockMovesInside THEN now + 1 ELSE now) :
          books' = AfterReserve(k, requested[k], now, stamp) /\ now' = stamp
    BY <1>7 DEF Reserve
  <2>2. stamp \in Nat /\ now <= stamp /\ (ClockMovesInside \/ stamp = now) BY <1>2, <2>1
  <2>3. requested[k] \in Nat BY <1>2, AskedTyped
  <2> QED BY <2>1, <2>2, <2>3, ReserveBalances
<1>8. ASSUME NEW k \in Orders, Reject(k) PROVE Balances(books')
  BY <1>8, ReleaseBalances DEF Reject
<1>9. ASSUME NEW k \in Orders, NEW actual \in Amounts, books' = AfterSettle(k, actual), now' = now
      PROVE Balances(books')
  <2>1. actual \in Nat BY DEF LimitsAssumption
  <2> QED BY <1>9, <2>1, SettleBalances
<1>10. ASSUME NEW k \in Orders, Fill(k) \/ SettleAgain(k) PROVE Balances(books')
  BY <1>2, <1>3, <1>9, <1>10 DEF Fill, SettleAgain
<1> QED BY <1>4, <1>5, <1>6, <1>7, <1>8, <1>10 DEF Next

\* The day's total and count, as the next operation will read them, are exactly what the
\* reservations add up to, for any number of orders and for a clock that may turn inside an
\* operation: no replay, release, settlement or turn of the clock forgets or counts twice.
THEOREM DayAddsUp == Spec => []DayBalances
<1>1. ASSUME BalanceInv PROVE DayBalances
  BY <1>1, ReadBalances DEF DayBalances, Balances, DayBalanced
<1> QED BY <1>1, InitBalances, StepKeepsBalance, PTL DEF Spec

\* So does the hour's total, unless the hour turns between an operation's read and its timestamp.
THEOREM HourAddsUp == ASSUME ~ ClockMovesInside PROVE Spec => []HourBalances
<1>1. ASSUME BalanceInv PROVE HourBalances
  BY <1>1, ReadBalances DEF HourBalances, Balances, HourBalanced, Recent
<1> QED BY <1>1, InitBalances, StepKeepsBalance, PTL DEF Spec
=============================================================================
