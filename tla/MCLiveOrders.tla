---------------------------- MODULE MCLiveOrders ----------------------------
(* Two order paths in one run, of which a behaviour shows one: "many" orders
   (the constants of the configuration) over one fault, and "one" order whose
   transactions may be built three times, over two faults, which is compared
   with OrderContract.  The sidecar is restarted at most once.             *)
EXTENDS MCLiveExecution

VARIABLES
  world, o_side, o_instance, o_store, o_builds, o_chain, o_queued, o_handler, o_reply,
  o_wal, o_pending, o_spend, o_signed, o_risk, o_pc, o_stage, o_tries, o_resolved,
  o_outcome, o_result, o_faults

One == INSTANCE LiveExecution WITH
  Keys <- {"k"}, MaxBuilds <- 3, MaxInstances <- 2, MaxFaults <- 2,
  side <- o_side, instance <- o_instance, store <- o_store, builds <- o_builds,
  chain <- o_chain, queued <- o_queued, handler <- o_handler, reply <- o_reply,
  wal <- o_wal, pending <- o_pending, spend <- o_spend, signed <- o_signed,
  risk <- o_risk, pc <- o_pc, stage <- o_stage, tries <- o_tries,
  resolved <- o_resolved, outcome <- o_outcome, result <- o_result, faults <- o_faults

oneVars == <<o_side, o_instance, o_store, o_builds, o_chain, o_queued, o_handler, o_reply,
  o_wal, o_pending, o_spend, o_signed, o_risk, o_pc, o_stage, o_tries, o_resolved,
  o_outcome, o_result, o_faults>>
orderWorlds == <<world, vars, oneVars>>

\* The path that the behaviour does not show waits for an open for ever.
WorldInit ==
  /\ world \in {"many", "one"}
  /\ world = "one" => side = [k \in Keys |-> "open"]
  /\ world = "many" => o_side = [k \in {"k"} |-> "open"]
  /\ Init /\ One!Init

WorldNext ==
  \/ world = "many" /\ Next /\ UNCHANGED <<world, oneVars>>
  \/ world = "one" /\ One!Next /\ UNCHANGED <<world, vars>>

WorldSpec == WorldInit /\ [][WorldNext]_orderWorlds

\* The files, the sidecar and the chain keep the promise of OrderContract.
KeepsPromise == One!KeepsContract
=============================================================================
