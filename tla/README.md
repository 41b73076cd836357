# Lightld: TLA+ models of the live execution path

Lightld is a Solana LP bot: a daemon that decides on trades (`src/src/runtime`), a sidecar
process that turns a signed intent into transactions (`src/src/execution/solana`), and a good
deal of ingest, research, mirror and dashboard code around them. What must never go wrong is the
path of an order: money is moved once per decision, an order whose fate is open is never
forgotten, and capital at risk is counted against the limits. This directory models that path,
model-checks it with TLC, and proves its central invariants with TLAPS.

- [Inventory](#inventory): the parts of the system
- [Modules](#modules): which module models what, and how
- [Runs](#runs): what TLC checks, with which bounds
- [Findings](#findings): where the code does not do what it says
- [Fairness](#fairness)
- [Proofs](#proofs)
- [What the models leave out](#what-the-models-leave-out)
- [Plan](#plan)

Run a check with `tlc -workers 2 -config MCLiveOrders.cfg MCLiveOrders.tla`, a proof with
`tlapm LiveExecution_proofs.tla`. Paths below are relative to `src/src/` unless they start
with `src/`.

## Inventory

### Modelled, in whole or in part

**Execution sidecar** (`execution/solana/solana-execution-server.ts`, `swap-providers.ts`,
`solana-rpc-client.ts`).
*State:* `submissions.json`, one record per idempotency key (`reserved`, `broadcast_started`,
`submitted`, the signatures of both), an in-process promise queue per key, an
`executionInstanceId` per process.
*Operations:* POST /broadcast (parse and verify, lock the key, replay / answer pending / reserve,
build, mark started, send, mark accepted, wait, sell the residual, complete, release), read-only
routes /confirmation, /quote, /account-state, /lp-entry-evidence.
*Hard:* a client that gives up and asks again, a process that dies between write and send, a send
whose outcome is unknown, a batch of which half went out, a chain of swap providers each of which
may already have swapped.
*Right when:* whatever may have reached the chain can be found again from the record; one intent
is executed by one batch; `failed` means nothing was sent; a stored result is final; a key's lock
is given back.

**Swap provider chain** (`execution/solana/swap-providers.ts`, `jupiter-client.ts`).
*State:* cooldowns of providers, routes they do not have, JupiterClient's negative route cache, all in
memory and shared by concurrent calls.
*Operations:* quoteExactIn and executeExactIn: one provider after the other until one answers.
*Hard:* an error that stops the chain must be told from one after which the next provider may swap.
*Right when:* a call swaps at most once, and its answer says who did.

**Order path of the daemon** (`runtime/live-daemon.ts`, `live-cycle.ts`,
`live-cycle-preflight.ts`, `prepared-broadcast-store.ts`, `pending-submission-store.ts`,
`pending-submission-recovery.ts`, `execution/http-live-broadcaster.ts`,
`request-resilience.ts`, `error-classification.ts`).
*State:* the prepared-broadcast write-ahead file (WAL), the pending-submission file, the
spending reservations, and what a tick holds in memory.
*Operations:* the stages of a tick: pre-ingest recovery, residual sweep, cycle with its recovery
gate, first broadcast, new-open pass, second sweep, persistence.
*Interacts* with the sidecar over HTTP (one retry after a 503, a timeout, errors that count as
definitely not submitted) and with the chain through confirmation and wallet reads.
*Hard:* a crash between any two file writes, an answer that comes after the client has gone, four
places that sign orders, five that resolve one.
*Right when:* an order that may still execute is named by a durable file; at most one order is
under way; an order recorded as not submitted never executes; every order is resolved in the end.

**Spending limits** (`risk/spending-limits.ts` and its callers).
*State:* the totals and counts of the current day and hour, and the reservations.
*Operations:* reserveSpend, settleSpend, releaseSpend, each preceded by a reset of what is past;
the guards read the totals.
*Hard:* reservations outlive their hour and their day; a replayed WAL reserves again, long after
the guards looked; a settlement in a later hour.
*Right when:* the totals are what the reservations add up to, an order under way is booked, and no
booking lifts a total over its limit.

**Position ledger** (`runtime/position-ledger.ts`, `position-business-semantics.ts`,
`lifecycle-projection.ts`, the persistence of `live-daemon.ts`).
*State:* the ledger, one record per position, open intent or leftover; `position-state.json`, a copy
of one record for the strategy.
*Operations:* import of the LPs the wallet shows, binding of an open without an address, superseding
of twins, application of a cycle's result, recovery, selection of the copied record.
*Hard:* the wallet lags the chain, the answer may come without an address, four writers per tick, a
crash between the pending file and the ledger, a position the owner opened by hand.
*Right when:* a position the program opened keeps a name, a record is closed only when its position
is gone, and a position has one live record.

**Ownership of tokens** (`runtime/live-daemon.ts` with its residual sweep, `live-cycle.ts`,
`pending-submission-recovery.ts`, the liquidation in `solana-execution-server.ts`).
*State:* residual amounts and owned amounts in the ledger, the balance before an exit carried by the
order, cooldowns of the sweep.
*Hard:* the wallet holds the owner's tokens of the same mint; amounts are inferred from balances.
*Right when:* what the program sells is its own, and what it bought is on its books.

**Runtime modes** (`runtime/runtime-mode-policy.ts`, `runtime-action-policy.ts`,
`runtime-state-store.ts`, `dependency-health.ts`, the loop of `live-daemon.ts`).
*State:* `runtime-state.json`, `dependency-health.json` and the copies of the process.
*Operations:* deriveRuntimeMode before and after the cycle, auto-heal, outright assignments, catch,
restart, alerts.
*Right when:* an operator's pause stays, no position is opened on failing dependencies, a transient
circuit closes again.

**Decision cycle** (`runtime/live-cycle.ts`, `live-cycle-preflight.ts`, `strategy/`,
`risk/live-guards.ts`, `runtime/action-semantics.ts`).
*Operations:* recovery gate, decision of the engine, some fifteen policies and guards, order.
*Right when:* nothing that protects against new exposure stops an exit; an open happens only if
nothing spoke against it; a lifecycle is closed only when nothing is left.

**Ingest selection** (`runtime/ingest-context-builder.ts`, `ingest-candidate-selection.ts`,
`live-account-provider.ts`). The pool a pass is about, from two sources and in three modes.
*Right when:* it is neither the owner's LP nor, as an entry, something already held.

**Candidate pool** (`candidate-pool/`). *State:* observations by source, the derived row, leases,
retirements in SQLite; the rotation of the worker in memory. *Hard:* evidence expires one by one,
the worker dies or fails between two writes, a compaction locks it out, cursors count over lists
that change. *Right when:* what is offered has evidence, a retired pool is not offered, no pool
starves.

**RPC endpoints and rate limiter** (`execution/rpc-endpoint-registry.ts`,
`execution/solana/sliding-window-rate-limiter.ts`). *State:* cooldown, pacing and strikes of every
endpoint; a window of timestamps in a file, guarded by a lock directory that several processes
share. *Hard:* late answers, stale readings of the clock, locks of dead processes. *Right when:*
starts keep their distance, quotas hold, calls end.

**Mirror** (`observability/`). *State:* bounded buffer with priorities, breaker, durable cursor over
the journals, rows in SQLite. *Hard:* eviction during a write, replay of old states over new ones,
death between cursor and flush. *Right when:* what the cursor has passed is written or known to be
lost, rows show the last state, and the mirror catches up.

### Not modelled

| Component | Why |
|---|---|
| Valuations, DLMM client, quotes of the daemon | amounts and wire formats; their result is a step or a free choice of the models |
| Signing and signed-intent verification | cryptography and schemas; a key stands for a signed intent |
| Local execution server (`execution/local-live-execution-*.ts`) | a test double that sends nothing: the promises about the chain cannot be stated of it. Its unlocked store is a hazard without a property |
| Strategy research, history reconstruction, evolution | offline arithmetic over recorded outcomes and chain transactions; nothing of it is read by the order path |
| Ingest clients | HTTP reads and normalisation |
| Dashboard, command line, configuration | views, wiring, argument parsing |

`PROJECT.json` lists every component with its files, what is modelled of it, and what is not.

## Modules

```
SolanaExecution  <-- INSTANCE --  LiveExecution  -- INSTANCE -->  OrderContract
   ^   ^                            ^   ^   ^                     (abstract promise)
   |   |                            |   |   MCLoops  --> Mirror, RpcEndpoints, RateLimiter,
   |   |                            |   |                RuntimeModes, RouteRotation
   |   |               MCLiveExecution  |
   |   |               MCLiveOrders     |
   |   |                                |
   |   SolanaExecution_proofs <-INSTANCE- LiveExecution_proofs
   |
MCSolanaExecution
MCSolanaFaults -- INSTANCE --> SwapChain

MCComponents -- EXTENDS --> SpendingLimits
   ^   \  \-- INSTANCE --> RpcEndpoints, RuntimeModes, LiveCycle, CandidatePool,
   |    \                  OwnedTokens, SpotInventory
   |     \                    ^--- OwnedTokens_proofs
   |      EXTENDS --> MCRecords -- INSTANCE --> PositionBook, Mirror, RateLimiter,
   |                    ^                       IngestSelection
   |                    Records_proofs (all four) <-- EXTENDS --+
   |                                                            |
   Components_proofs  <-- EXTENDS --  ComponentTypes_proofs ----+
   (SpendingLimits, RpcEndpoints, RuntimeModes, LiveCycle, CandidatePool, SpotInventory)

Sums_proofs: sums and folds over finite sets, used by the proofs of the books,
tokens, components and records
```

LiveExecution composes the daemon with the sidecar and the chain. The other modules look at the same
loop of the daemon from another side each, and leave open what the others decide: RuntimeModes asks
what an order does to the mode and not whether it executes; PositionBook knows which position an
order opens and not how it is sent; OwnedTokens and SpotInventory know amounts of one mint only.

### SolanaExecution: the sidecar

`Keys` are idempotency keys, one signed intent each; `side` is the kind of the intent: `open`
(add-lp), `exit` (withdraw or claim that liquidates the residual token), `swap` (buy or sell).

| Variable | In the code |
|---|---|
| `instance` | `executionInstanceId` of the running process |
| `store` | `submissions.json`: phase, owner, evidence (signatures written before the send), result |
| `builds` | batches built for the key; each has a fresh blockhash and so new signatures |
| `chain` | what became of each transaction `<<build, leg>>` outside the sidecar |
| `queued`, `handler` | the promise chain of `withIdempotencyLock`, and the request at its head |
| `reply` | the answer as the client that still waits sees it |

An action is what the handler does between two points at which the world can see or change
something: a write of `submissions.json`, the call of sendTransaction, an answer. `Restart` may
come between any two. What a transaction does on the chain (`Network`) is independent of what the
RPC client reports; `Faults` says which kind of intent may be hit by which of

- `unknown`: sendTransaction times out, the fate of the transaction is open;
- `failover`: one write endpoint takes the transaction and times out, the next refuses it;
- `read`: a status or balance read throws after a transaction was accepted;
- `external`: Jupiter V2 executes a swap itself and its answer is lost.

### SwapChain: which provider swaps

`call` is where each call of the chain stands (`next`: the loop looks at a provider; `asked`, `built`,
`sending`: at an await inside it), `tx` the transaction each provider has sent for it; `cooldown`, `noRoute` and
`negative` are what calls share. A provider is an action with the outcomes its code distinguishes, from
the refusal of an unknown pool to the signed impact (`assertQuoteWithinExecutionLimits`). `recordFailure`
reads errors as the code does: any three digits from 400 to 599 in a text count as a status, so that an
impact of 512 basis points puts a provider on its cooldown (`LikeStatus`), and a quote too small for
Jupiter hides the route of its pair for every amount (`NoRoute`). Only quotes for a swap are held to the
signed impact. SolanaExecution has the handler around the chain and its record, for one provider.

### LiveExecution: the daemon, composed with the sidecar

`pc` is the place of the tick, `stage` which of its parts it is in; the WAL replay
(`recoverPreparedBroadcast`) is one piece of specification that four stages share, as it is one
function in the code. `wal`, `pending` and `spend` are the three files; `Crash` keeps them and
nothing else of the daemon. An intent's key stays in `signed` once used: every decision signs a
fresh one. `resolved` and `outcome` are what a tick remembers of an order it has resolved and not
yet cleared. The daemon's steps and the sidecar's interleave freely; `Call` is
`Sidecar!Request`, and the answer is read from `reply`.

What decides on a trade is left open: `CycleSigns` may sign any unused key, or `HoldTrade`. A
model whose decisions are free allows every order history that any strategy produces.

### OrderContract: what the path promises

The abstract specification in five actions: an order is open from the moment it is signed until
it is closed; it executes at most once, only while open, and only while the capital it puts at
risk is booked; booked capital is freed only if the order has had no effect. The mapping
(`Contract` in LiveExecution): an order is *open* when the WAL or the pending file names it, its
*executions* are the builds of which a transaction landed, it is *held* when it needs no capital
or a reservation exists. `KeepsContract` says that every step of the composed system is a step of
the contract or changes none of these.

### SpendingLimits: the books

`now` counts hours, a day starts at `ResetHour`. Operators named after the store's methods
(`ReadAt`, `AfterReserve`, `AfterRelease`, `AfterSettle`) return the file each leaves behind;
actions drive them through the life of an order as the daemon does: approved by the guards,
reserved (again, after each replay of the WAL), rejected and released until forgotten, submitted,
filled with or without evidence, settled again. The hour may turn between any two actions, and,
with `ClockMovesInside`, between an operation's read and the timestamp it writes.

### PositionBook: the ledger and what the wallet shows

`chain` is the truth, `shown` the latest any answer has shown of it, `view` the account state of the
running tick: it may lag, it never goes back. A tick is `ReadAccount`, the recovery of the pending
order (`RecoverOpen`, `RecoverExit`, `RecoverFailed`, `Unresolved`), `ClearRecovered`, `Import`, the
maintenance pass, the main cycle or new-open pass, `AfterCycle`, `Persist`, `Clear`; `Crash` may come
between any two. `Observed`, `Unseen`, `Normal` are the parts of `importActiveLpPositionsToLedger`,
`Booked` and `Applied` those of `applyLiveCycleResultToLedger`, `Classify` is `classifyPositionRecord`.

### OwnedTokens and SpotInventory: whose tokens are sold

OwnedTokens follows one mint through the LPs of it: an exit pays out, the sidecar sells what is above the
balance before the exit, what it cannot sell becomes the residual of the record, and the sweep, the cycle or a
recovery sell exactly the residuals. SpotInventory follows the purchases of the large-pool strategy: the
bought amount comes from a fill or from the change of the balance, a recovered deploy is proven or sent to
`reconcile_required`, and `position-state.json` copies one record. In both, `users` is how much of the wallet
is the owner's; no step of the code reads it. The owner moves tokens only between ticks and while no order is
under way, and only what is theirs. Runtime modes allow every step. In OwnedTokens the sweep after the cycle
does nothing, as the sweep before it has just set its timer.

### RuntimeModes

`mem` and `health` are the process's copies, `file` and `healthFile` the two files, written one after
the other at the end of a tick. `Derived` is `deriveRuntimeMode`, `AutoHealed`
`applyTransientCircuitAutoHeal`, `Outright` and `Opened` the assignments that skip both. Failure
counters are cut off at the thresholds that matter.

### LiveCycle

One cycle as the sequence of its checks: `RecoverPrepared`, `Gate`, `Decide`, `Policy`, `Target`,
`Quote`, `Account`, `Guards`, `Send`. `NewToken`, `LargePool` and `LpExit` are the engines' precedence
of reasons over facts (thresholds and scores are free). `saw` collects what every check that was asked
found, whether or not it stopped the action: properties compare the action with it. A cycle that the ingest
ends keeps in `action` the exit that the engine had triggered.

### IngestSelection

One pass over every combination of inputs: LPs (own, foreign), tokens, the tracked pool, cooldowns,
what the source says. `FromDatabase` and `FromMeteora` are the two paths, `Modes` the three selection
modes; ranking is left open.

### CandidatePool and RouteRotation

CandidatePool has the database: observations with their remaining life, the row derived from them in
the same transaction, retirement, lease and maintenance lock; each stage of the worker's tick is an
action, and it may fail or die in any. RouteRotation has the choice of the pools whose route is asked
for, with its three groups and two cursors; a tick is one step there, since nothing else moves.

### RpcEndpoints and RateLimiter

Times are relative, in ticks. A call passes over its candidates with the reading of the clock it took at
the start (`Pass`), attempts, succeeds or cools an endpoint down, waits or gives up. RateLimiter
splits `withLock` and `waitForSlot` at their awaits: mkdir, stat of a stale lock, rm, read, write,
rmdir.

### Mirror

`Record` appends to a journal and enqueues; `FlushOnce` is `flushOnce`, atomic because `node:sqlite` is
synchronous; `ReplayJournal` reads one journal past the cursor, `SaveCursor` writes it. `Restart` loses
the buffer and may tear the last line of a journal.

### MC modules

Sets of faults for the constants, permutations for symmetry, and worlds. A run of TLC answers questions about
several models at once: in MCSolanaFaults, MCLiveOrders, MCComponents and MCLoops a variable (`world`, `part`)
says which model a behaviour is about, and the variables of the others keep their first value. The models do
not interact there; the union is only a way of running them together, and its number of states is the sum of
theirs. MCComponents has the components that decide and act, and takes those that keep what others read from
MCRecords, which it extends. The settings of the endpoints, the modes, the pool and the two models of tokens
are constants of MCComponents, those of the swap chain constants of MCSolanaFaults, and so are all of those of
MCRecords, the settings of its three ledgers and two markets as functions; their values are in the
configuration, and a theorem about `CompSpec` or `RecordsSpec` (and `WorldSpec`) is one for all settings. In
MCLoops, `Fair1` to `Fair4` put one fairness condition of each component together, which is the same because
only one of them is enabled in a behaviour. No definition is replaced in a configuration.

## Runs

| Run | Models | Checks | Distinct states |
|---|---|---|---|
| `solana_faults` | the sidecar with the faults it is built for (3 processes), and with every fault (2); 3 builds, 2 requests at once, batches of 2 | `EvidenceCoversExposure`, `OneBuildPerIntent`, `FailedMeansNothingSent`, `LockReleased`, `SubmittedIsFinal` of the former, `WholeBatch` of both, `TypeOK`; and two calls of the swap chain, three kinds of request, six provider names and a wrong one, two failures: `SwapsOnce` | 435,334 |
| `live_orders` | two orders with a timeout, a crash and a restart of the sidecar; one order with 3 builds, 2 sidecar processes and 2 faults | `InFlightIsNamed`, `OneOrderInFlight`, `TypeOK` of the former; `KeepsPromise`, `NotSubmittedIsDefinite` of the latter | 726,976 |
| `components` | eleven modules in fifteen instances | see below | 991,791 |
| `loops` | six models under fairness | `CatchesUp`, `CallsEnd`, `LockComesFree`, `Heals`, `NoPoolStarves`, `OrderSettles` | 181,193 |
| `solana_swap_timeout`, `solana_jupiter_v2`, `live_fetch_failed`, `live_failed_open`, `second_open`, `rotation_starves`, `exit_sells_users`, `spot_forgotten` | one situation each | one property each, violated: see [Findings](#findings) | |

What the properties say:

- *Sidecar.* `EvidenceCoversExposure`: whatever may have an effect on the chain is in the durable
  record, which has not been given up. `OneBuildPerIntent`: the transactions of two builds of an intent
  never both get out, however often it is requested, rebuilt, taken over or replayed; nor two sales of
  one residual. `FailedMeansNothingSent`: after an answer `failed`, on which the daemon frees the
  capital, nothing of the order is on its way. `WholeBatch` (`CompleteMeansWholeBatch`): a submitted
  answer not marked partial names a whole accepted batch, and for an exit a landed one, under every
  fault. `SwapsOnce`: of the transactions that the providers send for one call of the chain, one at most may
  take effect, it is that of the provider in the answer, and a chain that is exhausted has swapped
  nothing. `SubmittedIsFinal`: once a result is stored, nothing is sent for the key and the result does
  not change. `LockReleased`: a request gives its lock back.
- *Order path.* `InFlightIsNamed`: an order that may still execute is named by the WAL or the pending
  file, at every moment, so also at a crash. `OneOrderInFlight`: two orders are never under way at
  once, although a tick has four places that sign one. `NotSubmittedIsDefinite`: an order the WAL
  calls not submitted cannot execute any more.
  `KeepsPromise` (`KeepsContract`): the whole implements OrderContract.
- *Books.* `DayBalances`: the day's total and count are what the reservations add up to, after
  replays, releases, settlements and resets. `OutIsBooked`: an order on its way is booked unless a day
  has passed. `WithinLimits`: no booking lifts a total over its limit, not even that of a WAL replayed
  hours after the guards looked. (`HourBalances` is stated in the module and not part of a run;
  it is proved for a clock that moves between operations only.)
- *Ledger.* `OwnedStaysNamed`: an opened position stays named by the pending order, the answer or a
  live record while the chain holds it; one crash is excepted, the one after the new-open pass has
  cleared the pending file and before the ledger is written. `ClosedIsGone`, `OnePerPosition`;
  `ForeignLeftAlone`: an LP opened by hand is taken for the program's own only while an open in its
  pool waits for its address.
- *Tokens.* `OwnTokensOnly`: the wallet never holds less than the owner's tokens, and at rest the
  residuals and owned amounts on the books are backed beside them; what was bought is on the books.
- *Modes.* `OpensNeedHealth`: no order that opens is sent while the last account read failed or quotes
  keep failing, although restarts and completed orders set the mode to healthy outright.
  `OperatorModeIsKept`: paused and flatten_only are lifted only by a restart, a tick that throws or a
  tick with an order. `Heals`: once the world is calm and no order is pending, the mode comes back,
  unless an operator forbade it or quotes have failed so often that none is asked for any more.
- *Cycle.* `ExitIsNotVetoed`: an exit that the engine wants is stopped only by a lack of something to
  sell, a named eligibility or configuration, never by a guard against exposure. The exit of an LP that its
  own position has triggered passes a blocked ingest too (`live-cycle.ts:3593`): when `IngestBlocks` ends
  the cycle nevertheless, the triggered exit stays on record as the action of the cycle, and the property
  fails. `OpensAreClean`, `ClosesWhenGone`.
- *Selection and pool.* `EntryIsOurs`: no pass is about an LP that is not the program's, and none opens a mint
  that is held, was just closed or is cooled down, whichever source it came from; `OfferedHasEvidence`: a pool
  the reader offers has a listing, a route and a safety verdict that pass now, although the reader looks at
  none of them; `RetiredStaysOut`; `NoPoolStarves`: every eligible pool is checked again and again.
- *RPC and mirror.* `StartsArePaced`, `WindowHolds` (while no process has died), `CallsEnd`,
  `LockComesFree`. `AccountedFor`: a line behind the cursor is written, queued or known to be lost;
  `RowsKeepUp`: after the replay the row shows the last state; `CatchesUp`.
- `TypeOK` and `CompTypeOK` are the type invariants.

### Why these bounds

- *One key for the sidecar.* Keys share the process, which all of them lose together, and nothing
  else: the lock, the record and the evidence are per key. `Init` gives the key each kind of intent.
- *Two legs.* Enough for a batch that is stopped after a first accepted transaction; the third leg
  is the residual sale. *Three builds:* an order rebuilt twice, or rebuilt and then sold off.
- *Two requests of a key at once:* one that the client has given up and the one that replaces it;
  *three processes:* a takeover of a takeover.
- *Two orders for the daemon* where one can be mistaken for another, with symmetry on keys, since a
  key is only compared; one order with deeper faults where the question is what happens to it.
  Symmetry is used in no run with a liveness property.
- *Faults of the daemon* (`MaxFaults`): crashes plus calls given up while an answer may still come.
- *The limits of the books* are small enough that two orders fill an hour, settlements exceed what was
  asked for, and the hours 22 to 25 contain a new day. Two orders: one that is replayed while the
  other fills the total.
- *PositionBook* three times: two opens (twins, superseding), one open with two crashes (lost and
  repeated recoveries), one open with a position by hand in its pool and a crash.
- *OwnedTokens and SpotInventory*: two LPs or purchases of one mint, one transfer of the owner, one
  crash; amounts of one unit each, so that every mistake of ownership is visible in the balance.
- *Mirror*: a buffer and a batch of two, three lines, one failing flush, one death: an eviction, a
  replay in two batches, a torn line. *RpcEndpoints*: two endpoints that two calls try in opposite
  order. *RateLimiter*: three processes, one crash: two that find the lock stale and one that died.
- *SwapChain*: a call that swaps and one that swaps or values a residual; every provider is reached with two
  failures, and a cooldown or missing route of one tick may lapse between any two steps.
- *RuntimeModes* lowers the thresholds 3, 5, 5 and 2 to 1, 2, 2 and 2 (and to 1 in `loops`): a
  counter below its threshold stays distinguishable from one at it.
- *RouteRotation*: three pools for two slots, one of them reserved, and a route that stays fresh for
  four ticks. `rotation_starves` has four pools and the freshness of the code's default, which is less
  than two ticks.
- The bounds are guards on the environment and on building (`queued[k] < MaxQueue`,
  `builds[k] < MaxBuilds`, `instance < MaxInstances`, `faults < MaxFaults`, `now < LastHour`,
  `crashes < MaxCrashes`, `moves < MaxMoves`, ...). A handler that cannot build any more may still
  fail, so the bound on builds blocks nobody.

Deadlock is checked in every run; the books, whose clock stops, and the selection, which is a single step,
rest in an explicit stuttering step (`Rests`).

## Findings

1. **A swap whose send times out is answered `failed`** (`solana_swap_timeout`;
   `execution/solana/swap-providers.ts:546`). `submitRawTransaction` raises
   `UnknownBroadcastOutcomeError` so that the reservation stays pending; the provider chain replaces
   it by an error without that kind, the handler's catch releases the record and answers failed.
   The daemon frees the capital while the network executes the swap.
2. **A swap through Jupiter V2 leaves no trace before it is sent** (`solana_jupiter_v2`;
   `swap-providers.ts:745`). The provider has Jupiter's API execute the signed transaction, so the
   record stays `reserved`. The comment at `solana-execution-server.ts:1916` takes a reservation of
   a dead process for a proof that nothing was sent; the next process swaps again. An error of the
   call lets the next provider swap within the same request.
3. **A failed fetch counts as not submitted** (`live_fetch_failed`;
   `execution/error-classification.ts:116`). The doc comment promises true only for an explicit
   rejection; a connection reset while the sidecar works is classified hard and passes.
4. **The capital of an open that failed on the chain is freed by one of four paths**
   (`live_failed_open`; `runtime/live-daemon.ts:4196`). Pre-ingest recovery releases it, as its
   comment says it must; the resolution after the cycle, the recovery gate and the poll of the
   new-open pass clear the pending file without it. The amount stays booked for the day.

5. **A second position is opened while the first is settling** (`second_open`;
   `runtime/live-daemon.ts:3787`). The comment there says that no second position can be opened before
   the first is fully settled. An open recovered as confirmed by its signature, which the wallet does
   not show yet, is set to closed by `reconcileTerminalFlatPositionState`; the check then finds no open
   position, and the main cycle of the same tick opens one for another mint.
6. **The rotation of route checks can pass over a pool for ever** (`rotation_starves`;
   `candidate-pool/worker.ts:140`). The comment says both sets rotate so that none is starved. With the
   default freshness a passed route lapses before its pool's next turn, pools alternate between the
   lists, and the cursors, which count modulo lists that alternate with them, skip the same pool
   every time. With routes fresh for longer `NoPoolStarves` holds (`loops`).
7. **An exit can sell the owner's tokens** (`exit_sells_users`; `runtime/live-daemon.ts:3811`). Before the
   cycle, dust, cooled-down and all valued tokens are removed from the wallet the cycle sees. An exit it
   decides on reads the balance of its mint as zero and sends that as `preExitTokenAmountRaw`; the
   sidecar then sells everything above zero. Three comments of the code promise the opposite.
   `OwnTokensOnly` is checked without this (`Faults` has no `hidden`).
8. **A purchase confirmed late in its own tick is forgotten** (`spot_forgotten`;
   `runtime/live-daemon.ts:4181`). The poll after the cycle confirms it, its pending file is removed, but
   only a recovery before the cycle records how much was bought: the record stays without an amount, the
   position state becomes closed, the tokens are never sold, and the next purchase is allowed.

More are recorded as hazards, without runs of their own.

- *Failover between write endpoints* (`solana-rpc-client.ts:292`). A send that times out at the first
  endpoint is repeated at the next. When that one refuses the copy, because the first one's has been
  processed already, the send counts as definitely refused, the record is released and the answer
  is `failed`. With `Faults = {<<"open", "failover">>}` TLC finds `FailedMeansNothingSent` violated in
  seven states. In SwapChain the same answer lets the next provider swap again: with
  `Faults = {"failover"}`, as with `{"external"}`, `SwapsOnce` is violated.
- *The hour turns inside `reserveSpend`* (`spending-limits.ts:204`), which reads the file, then takes its
  timestamp. With `ClockMovesInside = TRUE` TLC finds `HourBalances` violated in three steps: the
  reservation carries an hour whose total does not contain it. `OutIsBooked` and `WithinLimits` hold in
  that configuration, and so does `DayBalances`: their theorems cover it, and `HourAddsUp` has its
  absence as a hypothesis.
- *A crash between the books of a recovered residual sale and the removal of its pending file*
  (`live-daemon.ts:3051`): the replay finds no record and writes one for an amount already sold. With
  `Faults = {"replayed"}` TLC finds `BooksAreBacked` violated.
- *A residual sale that was given up lands after all* (`solana-execution-server.ts:984`): with
  `Faults = {"late"}` the residual is sold twice.
- *Two waiters find the lock of a dead process stale* (`sliding-window-rate-limiter.ts:150`): the second
  removes the lock the first has just made. `WindowHolds` is stated for behaviours without a crash.

A passing run of a property leaves out the fault that breaks it, and says so by its configuration or in the
property: `Survived` has no `unknown` or `external` for swaps and no `failover` (the harsh world of
`solana_faults` has all of them), and its swap chain has neither of its two faults; the live models use
`LpTimeouts` or no fault of the sidecar, so also no `read`, whose answer 400 the daemon counts as not
submitted (`solana-execution-server.ts:3387`, a hazard); `live_orders` has no `fetch-failed`. The theorems
name their exclusions: `Survivable`, `OnlyTimeouts`, `WithinContract`, `Sure` (see [Proofs](#proofs)).

## Fairness

`SolanaExecution.Spec` assumes weak fairness of serving each key, the event loop of a running
process, whose every await is bounded by an RPC timeout or a confirmation deadline, and of the
network taking or refusing what was sent. `LockReleased` needs both.

`LiveExecution.FairSpec` assumes that the daemon's loop ticks (it catches every exception of a tick
and sleeps a bounded time), that the sidecar serves each key, and that the network decides: a
transaction it has accepted lands or fails, as one with a blockhash that expires does. Crashes and
restarts are never fair. `OrderSettles` (sooner or later no file names the order) holds for opens
and swaps without partial answers. It does not hold for a batch answered `partial` or a record
left at `broadcast_started` without a transaction on the chain: the daemon then waits for an
operator, by intention (`pending-submission-recovery.ts:78`), and this is listed as a hazard.

The other loops (`MCLoops`): the daemon ticks, the interval of the mirror fires and a cooldown of its
breaker ends (`CatchesUp`); the clock goes on, timers fire and an attempt ends within its client's timeout
(`CallsEnd`); the clock goes on and every living process takes its steps (`LockComesFree`; a dead one is
idle); the daemon ticks, systemd restarts it, and from some time on nothing outside it fails (`Heals`); the worker
ticks (`NoPoolStarves`). Crashes, failures and changing answers are never fair and are bounded, so from some
time on they have stopped.

All other properties are safety properties and use no fairness.

## Proofs

A theorem holds for every value of the constants within the assumptions that the modules name
(`ConstantsAssumption`, `LiveAssumption`, `LimitsAssumption`, `SwapAssumption`, `OwnedTokensAssumption`,
`CompAssumption`, `RecordsAssumption`), so for any number of keys, processes, builds, orders, endpoints,
pools, positions, journals and crashes, any limits and any clock. The last column names what it assumes
beyond.

| Theorem | Statement | Assumes |
|---|---|---|
| `SolanaExecution_proofs.Typing` | `Spec => []TypeOK` | nothing: all faults |
| `.EvidencePrecedesExposure` | `Spec => []EvidenceCoversExposure` | `Survivable` |
| `.BuiltOnce` | `Spec => []OneBuildPerIntent` | `Survivable` |
| `.FailedIsUnsent` | `Spec => []FailedMeansNothingSent` | `Survivable` |
| `.WholeBatches` | `Spec => []CompleteMeansWholeBatch` | nothing: all faults |
| `.ResultIsFinal` | `Spec => SubmittedIsFinal` | nothing: all faults |
| `.AnswerNamesAll` | a complete answer names all that may have had an effect | `Survivable` |
| `.OnlyRequestsReopen` | an order that is done is reopened by a request with its key only | `OnlyTimeouts` |
| `.ExecutedOnce` | an order executes at most once, and only while in flight | `OnlyTimeouts`, `Legs = 1` |
| `LiveExecution_proofs.LiveTyping` | `Spec => []TypeOK` | nothing |
| `.SidecarAsSpecified` | `Spec => S!Init /\ [][S!Next]_(S!vars)` | nothing |
| `.NeverLost` | `Spec => []InFlightIsNamed` | `WithinContract` |
| `.OneAtATime` | `Spec => []OneOrderInFlight` | `WithinContract` |
| `.RejectionIsDefinite` | `Spec => []NotSubmittedIsDefinite` | `WithinContract` |
| `.ContractKept` | `Spec => KeepsContract`: a refinement of OrderContract | `WithinContract` |
| `SolanaFaults_proofs.OneSwapPerCall` | `WorldSpec => []SwapsOnce`, its typing included | `Sure` |
| `.WholeWhateverFails` | `WorldSpec => []WholeBatch`: in both worlds of the sidecar | nothing: all faults |
| `OwnedTokens_proofs.TokensTyped`, `.OwnersKeepTheirs`, `.ResidualsAreOwned` | `[]TokensTypeOK`, `[]UsersTokensStay`, `[]BooksAreBacked` | `Faults = {}` |
| `Components_proofs.BooksTyped`, `.StaysBooked`, `.LimitsHold`, `.DayAddsUp` | `[]TypeOK`, `[]OutIsBooked`, `WithinLimits`, `[]DayBalances` | nothing |
| `.HourAddsUp` | `Spec => []HourBalances` | `~ClockMovesInside` |
| `.OfferedIsEvidenced`, `.RetiredIsOut` | `CompSpec => []OfferedHasEvidence`, `[]RetiredStaysOut` | nothing |
| `.StartsPaced` | `CompSpec => StartsArePaced` | nothing |
| `.OpensAreHealthy`, `.OperatorsModeStays` | `CompSpec => OpensNeedHealth`, `OperatorModeIsKept` | nothing |
| `.ExitsGoOn`, `.OpensAreClear`, `.ClosesAreSound` | `CompSpec => []ExitIsNotVetoed`, `[]OpensAreClean`, `[]ClosesWhenGone` | nothing |
| `.OwnersTokensStay` | `CompSpec => []OwnTokensOnly` | nothing: MCComponents has `Faults = {}` |
| `Records_proofs.ClosedStaysGone` | `RecordsSpec => []ClosedIsGone` | nothing |
| `.OneRecordEach` | `RecordsSpec => []OnePerPosition` | nothing: the property is about ledgers without a second position opened by hand |
| `.OwnedStaysOwned`, `.ForeignStaysAlone` | `RecordsSpec => OwnedStaysNamed`, `ForeignLeftAlone` | nothing |
| `.LinesAreAccounted`, `.RowsCatchUp` | `RecordsSpec => []AccountedFor`, `[]RowsKeepUp` | nothing |
| `.WindowKept` | `RecordsSpec => []WindowHolds` | nothing: no crash is part of the property |
| `.EntriesAreOurs` | `RecordsSpec => []EntryIsOurs` | nothing |
| `.RecordsTyped` | `RecordsSpec => []RecordsTypeOK` | nothing |
| `ComponentTypes_proofs.ComponentsTyped` | `CompSpec => []CompTypeOK` | nothing |
| `.InFlightCounts` | `inFlight` is the number of calls that run, and at most `MaxConcurrency` | nothing |

The hypotheses exclude what is known to break the properties, and nothing else:

- `Survivable`: no `failover`, no `external`, and no timeout of a swap's send (findings 1, 2 and the
  first of the further hazards).
- `OnlyTimeouts`: the one fault is a timeout of a Meteora transaction's send. It leaves out `read`, a
  read that throws after a send and is answered 400.
- `WithinContract`: batches of one transaction, `OnlyTimeouts`, and calls that fail by a timeout. It
  leaves out the partial batch (`pending-submission-recovery.ts:575`) and the fetch that fails without a
  status (finding 3). Crashes, restarts, retries, takeovers and late answers are all in.
- `Sure`: no `failover`, and Jupiter V2 is not enabled where its answers may be lost.
- `Faults = {}` of OwnedTokens: the balance an exit carries is the one of the account (not finding 7), a
  sale that was given up does not land, and no crash falls between the two files of a recovery.

**Typing.** `TypeOK` is not inductive: a transaction is named by the build counter and the leg, and
the queue is decremented by an answer. `TypeInv` adds that the lock's holder is in the queue
(`LockInv`) and that a handler at work on a transaction has built it (`PlaceInv`).

**What the sidecar sends.** `EvidencePrecedesExposure`, `BuiltOnce` and `FailedIsUnsent` need each other
and a record of how far the handler is, `SafetyInv`. `StoreInv`: a request that works has a reserved or
started record, with the current signature in it once it may send. `SigsInv`: signatures were accepted
exactly when the handler is past the first transaction. `FirstInv`: before that, nothing is exposed but
the transaction just sent, which is why a refusal may release the record. `BuildInv`: what is exposed
while a batch goes out belongs to the current build, and no second residual sale has happened. The
induction has one lemma per action; `AnswerKeepsInv`, `FailKeepsInv`, `StopKeepsInv` and `GotoKeepsInv`
carry the ends they share. `ResultIsFinal` rests on `BusyInv` (a request that works never finds its record
submitted, since only the holder of the lock writes it), `WholeBatches` on `WholeInv` (how much of the
batch was accepted at each place of the handler), both under any fault.

**What the sidecar promises the daemon.** `CoverInv` says which transactions an answer or a record names;
with it `AnswerNamesAll`. The last part of the module looks at a key as one order, with the definitions of
LiveExecution (`InFlight`, `Executed`), and shows of every step of the sidecar that it leaves the order as
it is, executes it while it is in flight, or ends it. Only `Request` opens one. `ClientInv` adds that the daemon's
client sends nothing the sidecar calls a bad request.

**The order path.** The composed step is one of the daemon or one of the sidecar, so `SidecarAsSpecified`
carries the sidecar's theorems over, and LiveExecution_proofs has to look at the sidecar only through them.
`LiveInv` is `TypingInv /\ S!ClientInv /\ DaemonInv`: where the tick is, what the WAL and the pending file
say of the key it works on, which keys are unused, and for which keys nothing can happen any more. In flight
means named by one of the files; the one key that both files or neither may name is decided by `pc`. Then
`OneAtATime` follows because both files together name one order, and `RejectionIsDefinite` because the
WAL is marked only after an answer that a sidecar gives without having sent. `ContractKept` is a step
simulation (`MapTick`, `MapRemote`): a step of the daemon opens, books, frees or closes
an order or stutters, one of the sidecar and the network executes one or stutters; the mapping is `Contract`
of LiveExecution, the very one TLC uses.

**The books.** Why may a replay reserve without a look at the limits? At most one order is open (`DeskInv`).
Between its approval and its reservation the totals only shrink (`ReadShrinks`: the clock resets them,
releases cannot belong to another open order), so it still fits (`OrderInv`). Once reserved, its reservation
is there unless the file is of a past day, and then the totals it is added to are zero, and it fits alone. The
same invariant gives `OutIsBooked`. `DayAddsUp` and `HourAddsUp` (`BalanceInv`) say that a total is a sum over
reservations. What the library's sum over a finite set is cannot be shown by its induction theorem, which
takes an operator; Sums_proofs shows it by a least violation instead: of the finite subsets on which the
recursive function has no value of the required kind, one has the least cardinality (`LeastNumber` needs no
induction theorem), and taking an element off it refutes that.

**Swaps.** `ChainInv`: a call has a transaction that may take effect only of the provider it is at or has
answered with (`PhaseInv`), so every step to the next provider leaves nothing behind (`Alone`). The chain is
a fold over the configured order; that it is a sequence of known providers without a repetition follows from
`FoldExists` and `FoldStays` (`ChainIsSequence`). SolanaFaults_proofs proves the two properties of
MCSolanaFaults that are not those of one sidecar: for `WholeBatch` it instantiates SolanaExecution_proofs a second
time, under every fault and with a process less, which is why MCSolanaFaults assumes two processes.

**Tokens.** `TokenInv` says what the wallet holds beside the owner's tokens at each place of the tick:
the residuals of the ledger (`Owed`), and what an exit or a sale in flight has brought or taken and the books do
not show yet (`StageInv`, `FileInv`). Sums over records are those of Sums_proofs.

`OwnTokensOnly` says the same of the tokens of a purchase, which no LP accounts for (SpotInventory). `SpotInv`: one
purchase at most owns tokens (`OneOwner`), while an order is under way the balance read before it covers the
owner's tokens and what that purchase owned (`DeployInv`, `SaleInv`), and tokens beyond those are explained by
a purchase that was resolved as `reconcile`, which sells nothing without an operator. Without `Faults = {}`
both halves are false: findings 7 and 8 show how.

**Components.** A behaviour of MCComponents is for every component one of its own specification
(`OthersStutter`), and for those of MCRecords one of `RecordsSpec` (`RecordsWithin`). `PoolInv`: a row is as
fresh as its first source to expire and openable only on passed ones (`RowFollows`), and once a tick has
listed a retired pool its blocking observation outlives the listing (`BlockHolds`). `RpcInv`: the earliest
start an endpoint allows is an interval after the last (`Paced`), through old clocks, late successes and
cut-off ages. `ModesInv`: the mode of a cycle was derived from failures that still stand (`DerivedWell`), a
result that resets the mode outright comes with an order on record (`ResetHasOrder`). The first version of
this proof failed for a good reason: where the guards of a CASE overlap, TLA+ does not say which arm is meant,
though TLC takes the first; the precedences of the code are now nested conditions in RuntimeModes, LiveCycle
and PositionBook. `CycleInv`: an open that is still under way at some check has found nothing against it at
the earlier ones (`c_saw`), except the gates next to a leftover; an exit under way is one the engine wanted,
and no order is pending any more. Its theorems add to TLC only the independence from the run, since LiveCycle
has no parameter but `LpEnabled`.

**Types of the components.** Most bounds of `CompTypeOK` follow from the invariants above, and those of
RpcEndpoints do not. `inFlight` stays between zero and its limit because it counts the calls that run
(`InFlightCounts`): every end of a call, and no other step, takes one off. The ages of a pass are bounded
because it asks an endpoint at most once; the proof does not go through unless no list of candidates names
an endpoint twice, which `uniqueUrls` sees to (`execution/solana/rpc-endpoint-policy.ts:35`), and so this is
part of `EndpointsAssumption`. The rest are small invariants of their own (`MirrorTyped`,
`LimiterTyped`, `BookTyped`, `InputsTyped`, `CycleTyped`).

**The ledger.** `ClosedIsGone` compares a file with the chain, and everything in between may be late.
`BookInv` has four parts. `Chained`: what any answer has shown of an LP is a past of what the chain holds, so
a position shown as gone is gone. `Flies` and `Ordered`: which order the pending file, the cycle's result and
the network agree on at each place of the tick, so that an exit that counts as filled has landed. `AllFine`:
every record that has shown signs of an exit has an address that an answer once showed, and no record that a
pending open may still bind has been closed. The import of an account is a fold over the LPs it shows, in an
order the model leaves to a choice (`FoldSet`); `FoldStays` of Sums_proofs says that what each of its steps
keeps the whole keeps.

`OnePerPosition`, `OwnedStaysNamed` and `ForeignLeftAlone` need more: which records may share what. `KinInv` adds
three parts to `BookInv`. `Kin`: no two records have the same address, and without a second position opened
by hand no two have the same intent, a record with both has the address of its intent, and one without an
address is that of the pending open whose answer has not come. `OrdersAgree`: the pending order, the one sent last and the one of the
cycle's result are the same wherever two of them are there. `OpensAgree`: what became of an open is what the
chain says of its position, and before the pass after the cycle may forget a landed open the ledger has
its position (`Held`), the crash that the property names excepted. Every rewriting of the ledger, by an import, a
recovery or a result, is then one question: a ledger that is `Sound` for what is `Asked` of it (in order,
knows the exit, has not taken over the position opened by hand, names position x) stays `Sound`.
`ForeignLeftAlone` is that question with no pending open, `OwnedStaysNamed` that of x.

**The mirror.** `MirrorInv`: beside the durable cursor, the replay has enqueued what it has gone over, so a
line at or below either is mirrored, in the buffer or lost (`Passed`); an eviction moves a line from the
second set to the third, a flush from the second to the first, a death of the process empties the buffer but leaves
the cursor behind what was in it. `RowInv`: what the buffer will make of the row (`Brings`) is the last state of
the order, once the replay has read all its lines and none is lost. A replayed line never overwrites a row,
only a live one does, and a live one is the newest there is: that is why old states behind new ones do no harm.

**The limiter.** `LimiterInv`, while no process has died: the lock has one owner, which is the one process between
its places (`LockIsKept`), and the file holds, pruned, the grants of the last window (`FileIsTrue`), so
that a reader who finds room has counted all of them. The grants of a window are the tail of a sequence ordered
by age (`OldestFirst`); pruning is a cut in it, no filter, which is what made the proof possible.

**The selection.** `SelectionInv` follows the context through the paths of the two sources; the sets of
excluded mints differ, and each is shown to contain what is held, what was just closed and the owner's LPs.

**Sums and folds.** Sums_proofs has the facts about data that the others rest on: a sum over a finite set may take out
any element first (`SumTakesOut`), a fold over a finite set exists (`FoldExists`), and keeps what each of its steps
keeps (`FoldStays`). The induction theorems of the library take an operator and cannot be used; a least violating
subset takes their place.

**Only model-checked:**

- liveness (`LockReleased` and all of `loops`) and anything about `ENABLED`: no prover for it here;
- the runs that find a violation, and that the guards of the bounds block nobody.

## What the models leave out

- *Faults of the disk.* Writes are atomic (`runtime/atomic-file.ts` writes and renames) and
  succeed. With a failing store the sidecar could also answer 409 pending or twice 503; the daemon's
  answer to both (`NoVerdict`) is in the model, and no run reaches it through a healthy store.
- *Response identity mismatch, missing broadcaster or signer, paper and dry-run modes.*
- `markIdempotencyBroadcastAccepted` is merged with the answer of sendTransaction: it only moves a
  signature that is already in the record.
- *Confirmation and wallet reads* see the chain at once and do not lie; what is read late is a read
  that has not happened yet. The rules by which a wallet snapshot proves a fill are summarised by
  whether the batch landed.
- *Several transactions in a pending order, one failed and one not visible yet*
  (`pending-submission-recovery.ts:575`): the live runs use one transaction per batch. With two, TLC
  finds `InFlightIsNamed` violated, and it is listed as a hazard.
- *Amounts and the turn of the day in LiveExecution.* SpendingLimits has them; LiveExecution knows
  only whether an order is booked.
- *The poll inside the first cycle* is folded into the resolution after it (`Post`): nothing is
  written to the files of the order between the two.
- *FIFO of the lock.* Requests of a key are alike; the answer to one its client has given up reaches
  nobody.
- `SettleAgain` may settle any filled order; the code does so for the last one only. A conflicting
  reservation (same key, another amount) cannot occur, as the amount is part of the signed intent.
  `recordSpend`, `reset` and `evaluateSpendingLimits` are called by tests only.
- *Around the order path:* scores, thresholds, sizes and prices are free choices; the metadata and fills of
  an order are summarised by what recovery concludes from them; lifecycle events, which are an append-only
  log, housekeeping and the deduplication of incidents are left out. The wallet of PositionBook lags but
  never goes back, as an account read that is older than the last one would. Clocks of the processes agree.
- *Mirror:* one order row of the tables, no schema, no pruning by age; the two journals that matter to a row.
- *SwapChain:* amounts; the RPC and HTTP calls inside a provider are one await, and a quote without a
  result counts as a failure.
- *RateLimiter and RpcEndpoints:* error texts are classified already; the endpoints of a policy are given.

## Plan

What is left, in this order:

1. Two-leg recovery in LiveExecution, with the batch of which one transaction failed
   (`pending-submission-recovery.ts:575`).
2. PositionBook composed with LiveExecution: the pending file of the one is that of the other.
3. The local server against the sidecar's contract for the part it has: one answer per key.
