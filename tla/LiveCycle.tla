------------------------------ MODULE LiveCycle ------------------------------
(***************************************************************************)
(* One decision cycle of the daemon, runLiveCycle up to the order          *)
(* (src/src/runtime/live-cycle.ts): recovery, the choice of the position   *)
(* and of the action, and every policy that may stop it.  What the cycle   *)
(* reads is read where the code reads it; what the policies found is kept  *)
(* in saw, whether or not it stopped the action.  The sending of the order *)
(* is LiveExecution's.                                                     *)
(***************************************************************************)
EXTENDS Integers, Sequences, FiniteSets

CONSTANTS
  LpEnabled   \* lpConfig.enabled of the new-token strategy

CycleAssumption == LpEnabled \in BOOLEAN

VARIABLES
  at,       \* the stage of the cycle
  target,   \* the pool class and what the wallet, the files and the ledger say of the target
  life,     \* currentLifecycleState
  pending,  \* the order of pending-submission.json
  action,   \* the action the engine decided on, and whether the exit policy confirms it
  saw,      \* what spoke against an open
  result    \* how the cycle ended

vars == <<at, target, life, pending, action, saw, result>>

Lifecycles == {"closed", "open_pending", "open", "lp_exit_pending", "inventory_exit_ready",
               "inventory_exit_pending", "reconcile_required", "failed_terminal"}
NonActionable == {"open_pending", "lp_exit_pending", "inventory_exit_pending",
                  "reconcile_required", "failed_terminal"}
\* token: none, an amount below the value worth a sweep, or more than that.
\* owned: the ledger (or the position state) knows the raw amount to sell.
Targets ==
  {t \in [class : {"new-token", "large-pool"}, mint : BOOLEAN, lp : BOOLEAN,
          token : {"none", "little", "much"}, owned : BOOLEAN] :
     /\ t.lp => t.class = "new-token"
     /\ ~t.mint => ~t.lp /\ t.token = "none"
     /\ t.token = "none" => ~t.owned}

Opens == {"deploy", "add-lp"}
Exits == {"dca-out", "withdraw-lp"}
Maintains == {"claim-fee", "rebalance-lp"}
\* classifyAction
Class(a) == IF a \in Opens THEN "open_risk" ELSE IF a \in Exits THEN "reduce_risk"
            ELSE IF a \in Maintains THEN "maintain_position" ELSE "no_op"
Act(do, why) == [do |-> do, why |-> why]
HoldFor(why) == Act("hold", why)
Undecided == [do |-> "hold", confirmed |-> TRUE]
Running == [sent |-> "none", why |-> "none", next |-> "none"]

-----------------------------------------------------------------------------
(* The engines.                                                            *)

\* "matured" is a gain that has lasted; sign is the first of the further signs that
\* shows, worn standing for impermanent loss and depleted bins.
Snapshots == [risk : BOOLEAN, old : BOOLEAN, pnl : {"none", "flat", "loss", "gain", "matured"},
              sign : {"none", "worn", "fee", "range"}, valued : BOOLEAN, session : BOOLEAN]
Gains == {"gain", "matured"}

\* buildLpExitPolicyDecision
LpExit(s, valued) ==
  IF s.risk THEN Act("withdraw-lp", "risk")
  ELSE IF s.old THEN Act("withdraw-lp", "max-hold")
  ELSE IF valued /\ s.pnl = "loss" THEN Act("withdraw-lp", "stop-loss")
  ELSE IF valued /\ s.pnl = "matured" THEN Act("withdraw-lp", "take-profit")
  ELSE IF s.sign = "worn" THEN Act("withdraw-lp", "worn")
  ELSE IF s.sign = "fee" THEN Act("claim-fee", "fee")
  ELSE IF s.sign = "range" THEN Act("rebalance-lp", "out-of-range")
  ELSE HoldFor("maintain")

\* hasStrategyOwnedInventory
Inventory == target.token # "none" \/ target.lp

\* buildNewTokenDecision, for a position or not, with or without inventory.
NewToken(s, state, lp, inventory) ==
  IF state = "inventory_exit_ready" THEN Act("dca-out", "inventory-exit-ready")
  ELSE IF state \in NonActionable THEN HoldFor("lifecycle")
  ELSE IF lp /\ LpExit(s, TRUE).do = "withdraw-lp" THEN LpExit(s, TRUE)
  ELSE IF lp /\ ~s.session THEN Act("withdraw-lp", "out-of-session")
  ELSE IF lp /\ (LpEnabled \/ LpExit(s, TRUE).do # "hold") THEN LpExit(s, TRUE)
  ELSE IF ~lp /\ inventory /\ s.old THEN Act("dca-out", "max-hold")
  ELSE IF inventory /\ ~s.session THEN Act("dca-out", "out-of-session")
  ELSE IF ~s.session THEN HoldFor("out-of-session")
  ELSE IF LpEnabled THEN Act("add-lp", "open")
  ELSE IF inventory /\ s.pnl = "flat" THEN HoldFor("maintain")
  ELSE IF inventory THEN Act("dca-out", "profit-or-loss")
  ELSE Act("deploy", "open")

\* buildLargePoolDecision
LargePool(s, state, inventory) ==
  IF state = "inventory_exit_ready" THEN Act("dca-out", "inventory-exit-ready")
  ELSE IF state \in NonActionable THEN HoldFor("lifecycle")
  ELSE IF inventory /\ (state = "closed" \/ ~s.session \/ s.old \/ s.pnl \in Gains \cup {"loss"})
       THEN Act("dca-out", "spot-exit")
  ELSE IF inventory \/ state = "open" \/ ~s.session THEN HoldFor("maintain")
  ELSE Act("deploy", "open")

-----------------------------------------------------------------------------
(* The end of a cycle.                                                     *)

\* resolveNextLifecycleState
AfterOrder(do, resolved) ==
  CASE do = "withdraw-lp" -> IF resolved THEN "inventory_exit_ready" ELSE "lp_exit_pending"
    [] do = "dca-out"     -> IF resolved THEN "closed" ELSE "inventory_exit_pending"
    [] do \in Opens       -> IF resolved THEN "open" ELSE "open_pending"
    [] OTHER              -> life

\* Mutant: the pending order is not asked.
AfterNothingUnsure(why) ==
  IF ~Inventory THEN "closed" ELSE IF why = "spot-reconcile" THEN "reconcile_required" ELSE life

\* finalize, of a cycle that sends nothing.
AfterNothing(why) ==
  LET plain == IF why = "spot-reconcile" THEN "reconcile_required" ELSE life
  IN  IF why = "mint-taken" /\ target.mint /\ pending # "none" THEN "open"
      ELSE IF pending = "none" /\ ~Inventory THEN "closed"
      ELSE plain

\* Mutant: the next lifecycle is not resolved.
EndsUnresolved(why) ==
  at' = "done" /\ result' = [result EXCEPT !.why = why] /\ UNCHANGED <<target, life, pending>>

Ends(why) ==
  /\ at' = "done"
  /\ result' = [result EXCEPT !.why = why, !.next = AfterNothing(why)]
  /\ UNCHANGED <<target, life, pending>>
Stop(why) == Ends(why) /\ UNCHANGED action

\* The cycle goes on; what spoke against the action is remembered.
Pass(to, against) ==
  /\ at' = to /\ saw' = saw \cup against
  /\ UNCHANGED <<target, life, pending, action, result>>

Found(fact, name) == IF fact THEN {name} ELSE {}

-----------------------------------------------------------------------------
(* Recovery.                                                               *)

\* An inventory exit goes on while the wallet shows the token (forcedExitToken).
FirstLife(start, t) ==
  IF start \in {"inventory_exit_ready", "inventory_exit_pending"} /\ t.token # "none"
  THEN "inventory_exit_ready" ELSE start

Init ==
  /\ at = "wal" /\ target \in Targets /\ \E start \in Lifecycles : life = FirstLife(start, target)
  /\ pending \in {"none", "open", "exit"}
  /\ action = Undecided /\ saw = {} /\ result = Running

\* A prepared broadcast that cannot be recovered now holds everything.
RecoverPrepared(blocked) ==
  /\ at = "wal"
  /\ IF blocked THEN Stop("prepared-broadcast") /\ UNCHANGED saw
     ELSE Pass("gate", {})

\* resolveLifecycleAfterRecovery
AfterRecovery(reason, evidence) ==
  CASE reason = "filled" /\ life = "closed" /\ (pending = "open" \/ evidence) -> "open"
    [] reason = "filled" /\ life = "open_pending"           -> "open"
    [] reason = "filled" /\ life = "lp_exit_pending"        ->
         IF evidence THEN "inventory_exit_ready" ELSE "closed"
    [] reason = "filled" /\ life = "inventory_exit_pending" -> "closed"
    [] reason = "failed" /\ life = "open_pending"           -> "closed"
    [] reason = "failed" /\ life \in {"lp_exit_pending", "inventory_exit_pending"} -> "open"
    [] OTHER -> life

\* runPendingRecoveryGate, after the wait for the wallet to show an open.
Gate(reason, evidence) ==
  /\ at = "gate"
  /\ IF pending = "none" THEN Pass("ingest", {})
     ELSE IF life = "open_pending" /\ ~evidence THEN Stop("open-unseen") /\ UNCHANGED saw
     ELSE IF reason = "unresolved" THEN Stop("pending-order") /\ UNCHANGED saw
     ELSE
       LET next == AfterRecovery(reason, evidence)
           again == life = "open_pending" /\ reason = "failed" /\ target.mint
       IN  /\ pending' = "none" /\ life' = next
           /\ at' = IF again THEN "done" ELSE "ingest"
           /\ result' = [result EXCEPT
                !.why = IF again THEN "failed-open" ELSE @,
                !.next = IF again THEN IF Inventory THEN next ELSE "closed" ELSE @]
           /\ UNCHANGED <<target, action, saw>>

-----------------------------------------------------------------------------
(* The decision.                                                           *)

\* What the wallet holds of the mint is worth selling: resolveMintPositionAggregate
\* turns the cycle into a clean-up.
MustCleanup == target.class = "new-token" /\ target.token = "much"

\* selectTriggeredLpExit: an exit of an LP position goes before everything else.
Triggered(s) ==
  IF target.class = "new-token" /\ target.lp THEN LpExit(s, s.valued) ELSE HoldFor("none")

\* Mutant: a triggered exit does not go before the ingest.
IngestBlocksAll(s, ingest) == ingest

\* A pass whose context the ingest blocked goes on with a triggered exit only.
IngestBlocks(s, ingest) == ingest /\ Triggered(s).do = "hold"

\* The hard gates and the economic edge of an entry, which runEngineCycle looks
\* at only when there is no inventory.
GatesApply == IF target.class = "large-pool" THEN target.token = "none" ELSE ~Inventory

Decided(s, gates) ==
  IF Triggered(s).do # "hold" THEN Triggered(s)
  ELSE IF GatesApply /\ ~MustCleanup /\ ~gates THEN HoldFor("gates")
  ELSE IF target.class = "large-pool" THEN LargePool(s, life, target.token # "none")
  ELSE IF MustCleanup THEN NewToken(s, "inventory_exit_ready", FALSE, TRUE)
  ELSE NewToken(s, life, target.lp, Inventory)

\* validateLpWithdrawTriggerEligibility: the exit policy must give the same
\* reason once more, now with the state of the valuation.
Eligible(s, a) ==
  a.do # "withdraw-lp" \/ (LpEnabled /\ LpExit(s, s.valued) = a)

\* What an LP position triggered is selected before the ingest is asked (multiLpExit), and
\* stays on record if the cycle ends there.
Decide(s, gates, ingest, recorded) ==
  LET a == Decided(s, gates)
  IN  /\ at = "ingest"
      /\ IF IngestBlocks(s, ingest)
         THEN Ends("ingest") /\ action' = [action EXCEPT !.do = Triggered(s).do] /\ UNCHANGED saw
         ELSE IF target.class = "large-pool" /\ recorded /\ ~target.owned
                 /\ target.token # "none"
              THEN Stop("spot-reconcile") /\ UNCHANGED saw
         ELSE IF a.do = "hold" THEN Stop("hold") /\ UNCHANGED saw
         ELSE /\ at' = "policy"
              /\ action' = [do |-> a.do, confirmed |-> Eligible(s, a)]
              /\ life' = IF MustCleanup THEN "inventory_exit_ready" ELSE life
              /\ saw' = IF a.do \in Opens THEN Found(~gates, "gates") ELSE {}
              /\ UNCHANGED <<target, pending, result>>

-----------------------------------------------------------------------------
(* The policies, in their order.                                           *)

Goes(to) == at' = to /\ UNCHANGED <<target, life, pending, action, result>>
Note(against) == saw' = IF action.do \in Opens THEN saw \cup against ELSE saw

\* Mutant: a closing of the same mint a moment ago is forgotten.
PolicyForgetful(restricted, recent, cooling) ==
  /\ at = "policy"
  /\ Note(Found(restricted, "restricted") \cup Found(recent, "recent")
          \cup Found(cooling, "cooling"))
  /\ IF restricted /\ action.do \notin Exits THEN Stop("runtime-mode")
     ELSE Goes("target")

\* applyRuntimeActionPolicy, and what forbids an open of this mint.
Policy(restricted, recent, cooling) ==
  LET open == action.do \in Opens /\ ~restricted
      taken == target.mint /\ Inventory /\ (target.lp \/ target.token = "much")
  IN  /\ at = "policy"
      /\ Note(Found(restricted, "restricted") \cup Found(recent, "recent")
              \cup Found(cooling, "cooling") \cup Found(taken, "taken"))
      /\ IF open /\ target.mint /\ (recent \/ cooling) THEN Stop("recently-closed")
         ELSE IF open /\ target.mint /\ taken THEN Stop("mint-taken")
         ELSE IF restricted /\ action.do \notin Exits THEN Stop("runtime-mode")
         ELSE Goes("target")

\* The target of the exit, and its value: valued is FALSE when no figure for
\* the order can be found.
Target(deferred, value) ==
  /\ at = "target" /\ UNCHANGED saw
  /\ IF action.do = "dca-out" /\ target.class = "new-token" /\ life = "open" /\ deferred
     THEN Stop("left-to-sweep")
     ELSE IF ~action.confirmed THEN Stop("ineligible")
     ELSE IF action.do = "dca-out" /\ target.token = "none" THEN Stop("no-balance")
     ELSE IF action.do = "withdraw-lp" /\ ~value THEN Stop("no-value")
     ELSE Goes("quote")

\* A failed quote stops what is neither an exit nor a claim.
Quote(fails) ==
  /\ at = "quote" /\ Note(Found(fails, "quote"))
  /\ IF fails /\ action.do \notin Exits \cup {"claim-fee"} THEN Stop("quote")
     ELSE Goes("account")

\* live.enabled, then the reconciliation of the account: an exit of what the
\* wallet holds goes on.
Account(disabled, mismatch) ==
  LET exposed == \/ action.do = "dca-out" /\ target.token # "none"
                 \/ action.do = "withdraw-lp" /\ target.lp
  IN  /\ at = "account"
      /\ Note(Found(disabled, "disabled") \cup Found(mismatch, "mismatch"))
      /\ IF disabled THEN Stop("disabled")
         ELSE IF mismatch /\ ~exposed THEN Stop("mismatch")
         ELSE Goes("guards")

\* evaluateLiveGuards: over is any limit of size, spending, balance or token risk.
Guards(killed, closed, over) ==
  /\ at = "guards"
  /\ Note(Found(killed, "killed") \cup Found(closed, "session") \cup Found(over, "over"))
  /\ IF action.do \notin Exits /\ (killed \/ closed) THEN Stop("guards")
     ELSE IF action.do \in Opens /\ over THEN Stop("guards")
     ELSE Goes("identity")

\* resolveActionIdentity and the amount to sell; then the order is sent.
Send(addressed, resolved) ==
  /\ at = "identity" /\ UNCHANGED saw
  /\ IF action.do = "withdraw-lp" /\ ~addressed THEN Stop("no-address")
     ELSE IF action.do = "dca-out" /\ ~target.owned
     THEN Stop(IF target.class = "large-pool" THEN "spot-reconcile" ELSE "no-amount")
     ELSE /\ at' = "done"
          /\ result' = [result EXCEPT !.sent = action.do,
                                      !.next = AfterOrder(action.do, resolved)]
          /\ UNCHANGED <<target, life, pending, action>>

\* The next tick: whatever the wallet shows by then, from the lifecycle and the
\* order that this cycle left behind.
NextCycle ==
  /\ at = "done" /\ at' = "wal"
  /\ target' \in Targets /\ life' = FirstLife(result.next, target')
  /\ pending' = IF result.sent = "none" THEN pending
                ELSE IF result.sent \in Opens THEN "open" ELSE "exit"
  /\ action' = Undecided /\ saw' = {} /\ result' = Running

Next ==
  \/ NextCycle
  \/ \E blocked \in BOOLEAN : RecoverPrepared(blocked)
  \/ \E reason \in {"unresolved", "filled", "failed"}, evidence \in BOOLEAN : Gate(reason, evidence)
  \/ \E s \in Snapshots, gates, ingest, recorded \in BOOLEAN :
       Decide(s, gates, ingest, recorded)
  \/ \E restricted, recent, cooling \in BOOLEAN : Policy(restricted, recent, cooling)
  \/ \E deferred, value \in BOOLEAN : Target(deferred, value)
  \/ \E fails \in BOOLEAN : Quote(fails)
  \/ \E disabled, mismatch \in BOOLEAN : Account(disabled, mismatch)
  \/ \E killed, closed, over \in BOOLEAN : Guards(killed, closed, over)
  \/ \E addressed, resolved \in BOOLEAN : Send(addressed, resolved)

Spec == Init /\ [][Next]_vars

-----------------------------------------------------------------------------
(* Properties.                                                             *)

TypeOK ==
  /\ at \in {"wal", "gate", "ingest", "policy", "target", "quote", "account", "guards",
             "identity", "done"}
  /\ target \in Targets /\ life \in Lifecycles /\ pending \in {"none", "open", "exit"}
  /\ action.do \in Opens \cup Exits \cup Maintains \cup {"hold"}
  /\ result.next \in Lifecycles \cup {"none"} /\ (at = "done") = (result.next # "none")

\* Once the engine wants out of a position, nothing that protects against new
\* exposure can stop the exit: no runtime mode, kill switch, session, limit,
\* cooldown, failed quote, blocked ingest of a triggered LP exit, or mismatch
\* of the account about something the wallet does show.
ExitIsNotVetoed ==
  (at = "done" /\ action.do \in Exits /\ result.sent = "none") =>
    result.why \in {"ineligible", "left-to-sweep", "no-balance", "no-value", "disabled",
                    "no-address", "no-amount", "spot-reconcile"}

\* New exposure is taken on only when nothing at all spoke against it: no
\* recovery left over, every policy quiet, the mint free.  The hard gates and the
\* economic edge are the exception: they are not asked when the wallet holds a
\* leftover of the mint too small to be cleaned up.
OpensAreClean ==
  result.sent \in Opens =>
    /\ pending = "none" /\ saw \subseteq {"gates", "recent", "cooling"}
    /\ "gates" \in saw => target.token = "little"
    /\ target.mint => {"recent", "cooling"} \cap saw = {}

\* A cycle declares a lifecycle closed only when no order is pending and either
\* the wallet shows nothing of the target, or a recovered order or a completed
\* sale closed it.
ClosesWhenGone ==
  (at = "done" /\ result.next = "closed" /\ life # "closed") =>
    /\ pending = "none" \/ result.sent # "none"
    /\ ~Inventory \/ result.sent = "dca-out"
=============================================================================
