--------------------------- MODULE MCSolanaFaults ---------------------------
(* Three worlds in one run, of which a behaviour shows one: the "mild" one   *)
(* (the constants of the configuration) meets the faults the sidecar is     *)
(* built to survive, the "harsh" one meets every fault and has a process     *)
(* less, and in "swap" two calls share a chain of swap providers.            *)
EXTENDS MCSolanaExecution

\* Those of SwapChain; SwapFaults stands for its Faults.
CONSTANTS
  Order, Enabled, Calls, Requests, CooldownMs, NoRouteTtlMs, NegativeTtlMs, MaxFailures, SwapFaults

VARIABLES
  world, h_side, h_instance, h_store, h_builds, h_chain, h_queued, h_handler, h_reply,
  w_providers, w_call, w_tx, w_cooldown, w_noRoute, w_negative, w_failures

Harsh == INSTANCE SolanaExecution WITH
  Faults <- AllFaults, MaxInstances <- MaxInstances - 1,
  side <- h_side, instance <- h_instance, store <- h_store, builds <- h_builds,
  chain <- h_chain, queued <- h_queued, handler <- h_handler, reply <- h_reply

Swaps == INSTANCE SwapChain WITH
  Faults <- SwapFaults, providers <- w_providers, call <- w_call, tx <- w_tx,
  cooldown <- w_cooldown, noRoute <- w_noRoute, negative <- w_negative, failures <- w_failures

harshVars == <<h_side, h_instance, h_store, h_builds, h_chain, h_queued, h_handler, h_reply>>
swapVars == <<w_providers, w_call, w_tx, w_cooldown, w_noRoute, w_negative, w_failures>>
worldVars == <<world, vars, harshVars, swapVars>>

ASSUME WorldAssumption == MaxInstances > 1 /\ Swaps!SwapAssumption

\* A sidecar that the behaviour does not show waits for an open for ever.
WorldInit ==
  /\ world \in {"mild", "harsh", "swap"}
  /\ world # "mild" => side = [k \in Keys |-> "open"]
  /\ world # "harsh" => h_side = [k \in Keys |-> "open"]
  /\ Init /\ Harsh!Init /\ Swaps!Init

WorldNext ==
  \/ world = "mild" /\ Next /\ UNCHANGED <<world, harshVars, swapVars>>
  \/ world = "harsh" /\ Harsh!Next /\ UNCHANGED <<world, vars, swapVars>>
  \/ world = "swap" /\ Swaps!Next /\ UNCHANGED <<world, vars, harshVars>>

WorldSpec == WorldInit /\ [][WorldNext]_worldVars /\ Fairness

\* A "submitted" that is not partial means the whole batch, whatever the fault.
WholeBatch == CompleteMeansWholeBatch /\ Harsh!CompleteMeansWholeBatch
\* One call of the swap chain swaps at most once, and its answer says who did.
SwapsOnce == Swaps!SwapTypeOK /\ Swaps!SwapsOnce

\* For the configuration: a sale whose impact is limited, a buy, and the valuation of a residual
\* too small for Jupiter; with two failures each provider of this order is reached.
SwapRequest(kind, pair, small) ==
  [kind |-> kind, pair |-> pair, pool |-> TRUE, small |-> small,
   limited |-> kind = "execute" /\ pair = "sell", skipMeteora |-> small]
ThreeRequests ==
  {SwapRequest("execute", "sell", FALSE), SwapRequest("execute", "buy", FALSE),
   SwapRequest("quote", "sell", TRUE)}
OddOrder ==
  <<"meteora-direct", "jupiter-v1", "typo", "jupiter-v1", "jupiter-v2", "okx", "raydium">>
=============================================================================
