---------------------------- MODULE RuntimeModes ----------------------------
(***************************************************************************)
(* The runtime mode of the live daemon (src/src/runtime/live-daemon.ts):    *)
(* the circuit breaker, the operator's paused and flatten_only, and the    *)
(* healing of a transient circuit.  A tick recovers the pending order,     *)
(* derives the mode, runs the cycle, derives the mode again, and then      *)
(* writes runtime-state.json and dependency-health.json one after the      *)
(* other.  The process may die between any two of these steps.             *)
(***************************************************************************)
EXTENDS Integers, FiniteSets

CONSTANTS
  QuoteDegraded,   \* failed quotes in a row that degrade the mode (3)
  QuoteOpen,       \* failed quotes in a row that open the circuit (5)
  ReconcileOpen,   \* failed account reads in a row that open it (5)
  SuccessTicks     \* TRANSIENT_CIRCUIT_RECOVERY_SUCCESS_TICKS (2)

ModesAssumption ==
  /\ {QuoteDegraded, QuoteOpen, ReconcileOpen, SuccessTicks} \subseteq Nat \ {0}
  /\ QuoteDegraded < QuoteOpen

VARIABLES
  mem,         \* runtimeState: the state of the running process
  file,        \* runtime-state.json
  health,      \* dependencyHealth of the process; account saturates at its limit
  healthFile,  \* dependency-health.json
  pending,     \* pending-submission.json, as far as the mode reads it
  tick,        \* the local variables of the tick
  calm         \* nothing outside the daemon fails from now on

vars == <<mem, file, health, healthFile, pending, tick, calm>>

Modes == {"healthy", "degraded", "circuit_open", "flatten_only", "paused", "recovering"}
\* circuitReason: "fetch failed", another transient reason, anything else, or none.
Reasons == {"none", "fetch failed", "timeout", "reconcile-degraded", "other"}
OperatorModes == {"paused", "flatten_only"}

\* isTransientAutoHealableCircuitReason
Healable(why) == why \in {"fetch failed", "timeout"}

State(mode, why, cool, heal, wins) ==
  [mode |-> mode, why |-> why, cool |-> cool, heal |-> heal, wins |-> wins]
Healthy == State("healthy", "none", FALSE, FALSE, 0)
RuntimeStates ==
  [mode : Modes, why : Reasons, cool : BOOLEAN, heal : BOOLEAN, wins : 0..SuccessTicks - 1]
NoFailures == [quote |-> 0, account |-> 0, why |-> "none"]
Healths == [quote : 0..QuoteOpen, account : 0..ReconcileOpen, why : Reasons]

\* What the cycle reports: what failed, what was ordered, whether the order is
\* proven complete, and whether a quote was collected.
Result(failed, order, proven, quoted) ==
  [failed |-> failed, order |-> order, proven |-> proven, quoted |-> quoted]
Quiet == Result("none", "none", FALSE, FALSE)
At(at) == [at |-> at, start |-> Healthy, had |-> FALSE, prev |-> "healthy",
           result |-> Quiet, closes |-> FALSE, caught |-> FALSE]

TypeOK ==
  /\ {mem, file} \subseteq RuntimeStates /\ {health, healthFile} \subseteq Healths
  /\ pending \in {"none", "submitted", "unknown"} /\ calm \in BOOLEAN
  /\ tick.at \in {"boot", "idle", "recovered", "cycle", "after", "persist", "written", "alert"}
  /\ tick.start \in RuntimeStates /\ tick.prev \in Modes
  /\ {tick.had, tick.closes, tick.caught} \subseteq BOOLEAN

Init ==
  /\ mem = Healthy /\ file \in {Healthy, State("paused", "other", FALSE, FALSE, 0),
                                State("flatten_only", "other", FALSE, FALSE, 0)}
  /\ health = NoFailures /\ healthFile = NoFailures /\ pending = "none"
  /\ tick = At("boot") /\ calm = FALSE

-----------------------------------------------------------------------------
(* The policies.                                                           *)

\* Mutant: an operator's pause is not looked at.
DerivedUnpaused(mode, h, unknown, cooling) ==
  CASE unknown \/ h.account >= ReconcileOpen \/ h.quote >= QuoteOpen ->
         [mode |-> "circuit_open", why |-> "other"]
    [] OTHER -> [mode |-> "healthy", why |-> "none"]

\* deriveRuntimeMode
Derived(mode, h, unknown, cooling) ==
  IF mode \in OperatorModes THEN [mode |-> mode, why |-> "other"]
  ELSE IF unknown \/ h.account >= ReconcileOpen \/ h.quote >= QuoteOpen
       THEN [mode |-> "circuit_open", why |-> "other"]
  ELSE IF cooling THEN [mode |-> "recovering", why |-> "other"]
  ELSE IF h.account >= 1 THEN [mode |-> "recovering", why |-> "reconcile-degraded"]
  ELSE IF h.quote >= QuoteDegraded THEN [mode |-> "degraded", why |-> "other"]
  ELSE [mode |-> "healthy", why |-> "none"]

\* deriveRuntimeMode and applyDerivedRuntimeState over a state s.  The order p
\* is what the derivation sees, held says that an order is on record.
Apply(s, h, p, held) ==
  LET d == Derived(s.mode, h, p = "unknown", p # "none" /\ s.cool)
  IN  State(d.mode, d.why,
            d.mode = "circuit_open" \/ (held /\ s.cool),
            FALSE,
            IF d.mode = "healthy" THEN 0 ELSE s.wins)

\* applyRuntimeActionPolicy
Permits(mode, order) == mode \in {"healthy", "degraded"} \/ order \in {"withdraw", "sale"}

\* shouldBootstrapTransientAutoHealEligibility
Eligible ==
  /\ pending = "none" /\ mem.mode \in {"circuit_open", "recovering"}
  /\ \/ mem.heal \/ mem.why = "fetch failed"
     \/ Healable(mem.why) /\ Healable(health.why) /\ health.account > 0

\* Mutant: the successes are not counted on.
AutoHealedUncounted(next, ordered) ==
  IF ~ordered /\ tick.start.heal
  THEN State("recovering", tick.start.why, FALSE, TRUE, 0)
  ELSE [next EXCEPT !.heal = FALSE, !.wins = 0]

\* applyTransientCircuitAutoHeal: from the state at the start of the tick and
\* the state the tick derived.
AutoHealed(next, ordered) ==
  LET start == tick.start
      plain == [next EXCEPT !.heal = FALSE, !.wins = 0]
  IN  IF ordered THEN plain
      ELSE IF next.mode \in OperatorModes \cup {"degraded"} THEN plain
      ELSE IF /\ start.heal /\ Healable(start.why)
              /\ start.mode \in {"circuit_open", "recovering"}
           THEN IF start.wins + 1 >= SuccessTicks THEN Healthy
                ELSE State("recovering", start.why, FALSE, TRUE, start.wins + 1)
           ELSE plain

\* markDependencyFailure and markDependencySuccess
QuoteFailed(h) == [h EXCEPT !.quote = @ + 1]
AccountFailed(h, why) ==
  [h EXCEPT !.account = IF @ < ReconcileOpen THEN @ + 1 ELSE @, !.why = why]
QuoteWorked(h) == [h EXCEPT !.quote = 0]
AccountWorked(h) == [h EXCEPT !.account = 0, !.why = "none"]

-----------------------------------------------------------------------------
(* The steps of the process.                                               *)

\* The files are read.  When the wallet shows active LP positions the mode of
\* the process becomes healthy, whatever the file says.
Boot(positions) ==
  /\ tick.at = "boot" /\ tick' = At("idle")
  /\ mem' = IF positions THEN Healthy ELSE file
  /\ health' = healthFile
  /\ UNCHANGED <<file, healthFile, pending, calm>>

\* runPreIngestPendingRecovery: the order stays as it is, gets another status,
\* or is resolved and cleared.
Recover(left) ==
  /\ tick.at = "idle"
  /\ left = pending \/ pending # "none"
  /\ pending' = left
  /\ tick' = [At("recovered") EXCEPT !.start = [mem EXCEPT !.heal = Eligible, !.cool = FALSE],
                                     !.had = pending # "none", !.prev = mem.mode]
  /\ UNCHANGED <<mem, file, health, healthFile, calm>>

\* Mutant: a healthy mode is taken as it is.
DeriveOnce ==
  /\ tick.at = "recovered"
  /\ mem' = IF mem.mode = "healthy" THEN mem ELSE Apply(mem, health, pending, pending # "none")
  /\ tick' = [tick EXCEPT !.at = "cycle", !.prev = mem.mode]
  /\ UNCHANGED <<file, health, healthFile, pending, calm>>

\* The mode the cycle runs in.
Derive ==
  /\ tick.at = "recovered"
  /\ mem' = Apply(mem, health, pending, pending # "none")
  /\ tick' = [tick EXCEPT !.at = "cycle", !.prev = mem.mode]
  /\ UNCHANGED <<file, health, healthFile, pending, calm>>

Reports(result) == tick' = [tick EXCEPT !.at = "after", !.result = result]

\* A cycle that does nothing: a hold, or an action that the mode forbids.
Hold ==
  /\ tick.at = "cycle" /\ pending = "none" /\ Reports(Quiet)
  /\ UNCHANGED <<mem, file, health, healthFile, pending, calm>>

\* An order is pending: the recovery gate blocks the cycle, after its timeout
\* with an unknown outcome.
GateBlocks(late) ==
  /\ tick.at = "cycle" /\ pending # "none"
  /\ Reports(Result(IF late THEN "timeout" ELSE "recovery", "none", FALSE, FALSE))
  /\ pending' = IF late THEN "unknown" ELSE pending
  /\ UNCHANGED <<mem, file, health, healthFile, calm>>

\* The quote of an order that is no exit cannot be collected.
QuoteFails ==
  /\ tick.at = "cycle" /\ pending = "none" /\ ~calm /\ Permits(mem.mode, "open")
  /\ Reports(Result("quote", "none", FALSE, FALSE))
  /\ UNCHANGED <<mem, file, health, healthFile, pending, calm>>

\* The account does not reconcile with what the order expects.
Mismatch ==
  /\ tick.at = "cycle" /\ pending = "none" /\ ~calm /\ Permits(mem.mode, "open")
  /\ Reports(Result("mismatch", "none", FALSE, TRUE))
  /\ UNCHANGED <<mem, file, health, healthFile, pending, calm>>

\* An order is sent: it is seen complete at once, accepted, or its outcome is unknown.
Order(order, outcome) ==
  /\ tick.at = "cycle" /\ pending = "none" /\ Permits(mem.mode, order)
  /\ outcome = "unknown" => ~calm
  /\ pending' = IF outcome = "unknown" THEN "unknown" ELSE "submitted"
  /\ Reports(Result(IF outcome = "unknown" THEN "unknown" ELSE "none",
                    order, outcome = "proven", TRUE))
  /\ UNCHANGED <<mem, file, health, healthFile, calm>>

\* The order is refused for good.
Refused(order) ==
  /\ tick.at = "cycle" /\ pending = "none" /\ Permits(mem.mode, order) /\ ~calm
  /\ Reports(Result("none", "none", FALSE, TRUE))
  /\ UNCHANGED <<mem, file, health, healthFile, pending, calm>>

\* What the cycle's failures and successes make of dependencyHealth.
Counted(r) ==
  LET h == IF r.failed = "quote" THEN QuoteFailed(health)
           ELSE IF r.quoted THEN QuoteWorked(health) ELSE health
  IN  IF r.failed = "mismatch" THEN AccountFailed(h, "other") ELSE AccountWorked(h)

\* A mode that the result sets outright; no derivation follows.
Outright(r) == r.failed \in {"unknown", "timeout", "recovery"}
Opened(why) == State("circuit_open", why, TRUE, FALSE, 0)
SetBy(r) ==
  CASE r.failed \in {"unknown", "timeout"} -> Opened("other")
    [] r.failed = "recovery"               -> State("recovering", "other", mem.cool, FALSE, 0)
    [] OTHER                               -> mem

\* The order with which the tick began is gone: the mode starts afresh, unless
\* it is flatten_only.
AfterClearing(s) ==
  IF tick.had /\ pending = "none"
  THEN IF s.mode = "flatten_only" THEN [s EXCEPT !.heal = FALSE, !.wins = 0] ELSE Healthy
  ELSE s

\* runResidualTokenSweepIfDue: the modes in which the sweep may sell.
SweepAllowed(s) ==
  \/ s.mode \in {"healthy", "degraded", "flatten_only"}
  \/ s.mode = "recovering" /\ s.why = "reconcile-degraded"
  \/ s.mode \in {"recovering", "circuit_open"} /\ Healable(s.why)

\* The rest of the tick up to the files: the failures are counted, the mode is
\* set outright or derived, the sweep may sell, and a transient circuit heals.
\* recovery is what the recovery after the cycle says of an order just sent.
After(recovery, sweep) ==
  LET r == tick.result
      done == r.order # "none" /\ (r.proven \/ recovery # "open")
      base == IF r.proven \/ recovery = "filled" THEN Healthy ELSE AfterClearing(SetBy(r))
      left == IF done THEN "none" ELSE pending
      next == IF Outright(r) THEN base ELSE Apply(base, Counted(r), left, pending # "none")
  IN  /\ tick.at = "after"
      /\ recovery # "open" => r.order # "none"
      /\ sweep # "none" => pending = "none" /\ SweepAllowed(next)
      /\ health' = Counted(r)
      /\ pending' = IF sweep # "none" THEN sweep ELSE pending
      /\ mem' = AutoHealed(next, IF r.order = "sale" THEN left # "none" ELSE pending' # "none")
      /\ tick' = [At("persist") EXCEPT !.prev = tick.prev, !.closes = done]
      /\ UNCHANGED <<file, healthFile, calm>>

\* Anything that throws in the tick: the circuit opens over whatever mode there is.
Fail(why, account) ==
  /\ tick.at \in {"idle", "recovered", "cycle", "after", "persist", "written", "alert"}
  /\ ~calm /\ ~tick.caught
  /\ health' = IF account THEN AccountFailed(health, why) ELSE health
  /\ mem' = [Opened(why) EXCEPT !.heal = Healable(why)]
  /\ tick' = [At("persist") EXCEPT !.prev = IF tick.at = "idle" THEN mem.mode ELSE tick.prev,
                                   !.caught = TRUE]
  /\ UNCHANGED <<file, healthFile, pending, calm>>

\* writeRuntimeState, then writeDependencyHealth; the pending file of a
\* completed order goes last.
WriteState ==
  /\ tick.at = "persist"
  /\ tick' = [tick EXCEPT !.at = "written"]
  /\ file' = mem
  /\ UNCHANGED <<mem, health, healthFile, pending, calm>>
WriteHealth ==
  /\ tick.at = "written" /\ tick' = [tick EXCEPT !.at = "alert"]
  /\ healthFile' = health
  /\ pending' = IF tick.closes THEN "none" ELSE pending
  /\ UNCHANGED <<mem, file, health, calm>>

\* shouldSendAlert
Alerts == tick.prev # mem.mode /\ mem.mode \in {"circuit_open", "flatten_only"}

EndTick ==
  /\ tick.at = "alert" /\ tick' = At("idle")
  /\ UNCHANGED <<mem, file, health, healthFile, pending, calm>>

Dies ==
  /\ tick' = At("boot") /\ mem' = Healthy /\ health' = NoFailures
  /\ UNCHANGED <<file, healthFile, pending, calm>>

\* An alert that cannot be delivered fails the tick; the one that the failed
\* tick sends in turn ends the process.
AlertFails ==
  /\ tick.at = "alert" /\ Alerts /\ ~calm /\ tick.caught /\ Dies

Crash == tick.at # "boot" /\ ~calm /\ Dies

\* The five minutes of a circuit go by.
CoolDown ==
  /\ mem.cool \/ file.cool
  /\ mem' = [mem EXCEPT !.cool = FALSE] /\ file' = [file EXCEPT !.cool = FALSE]
  /\ UNCHANGED <<health, healthFile, pending, tick, calm>>

BecomeCalm ==
  /\ ~calm /\ calm' = TRUE
  /\ UNCHANGED <<mem, file, health, healthFile, pending, tick>>

OrderKinds == {"open", "withdraw", "sale"}
Proceed ==
  \/ \E positions \in BOOLEAN : Boot(positions)
  \/ \E left \in {"none", "submitted", "unknown"} : Recover(left)
  \/ Derive \/ Hold \/ QuoteFails \/ Mismatch
  \/ \E late \in BOOLEAN : GateBlocks(late)
  \/ \E order \in OrderKinds, outcome \in {"proven", "accepted", "unknown"} : Order(order, outcome)
  \/ \E order \in OrderKinds : Refused(order)
  \/ \E recovery \in {"open", "failed", "filled"}, sweep \in {"none", "submitted", "unknown"} :
       After(recovery, sweep)
  \/ WriteState \/ WriteHealth \/ EndTick

Next ==
  \/ Proceed
  \/ \E why \in {"fetch failed", "timeout", "other"}, account \in BOOLEAN : Fail(why, account)
  \/ AlertFails \/ Crash \/ CoolDown \/ BecomeCalm

Spec == Init /\ [][Next]_vars
\* The loop of the daemon goes on (systemd restarts the process), and the
\* world outside comes to rest at some time.
FairSpec == Spec /\ WF_vars(Proceed) /\ WF_vars(BecomeCalm)

-----------------------------------------------------------------------------
(* Properties.                                                             *)

\* A restart, a completed order or a healed circuit sets the mode to healthy
\* outright, whatever dependencyHealth says.  No new exposure follows from it
\* while the last account read failed or quotes have failed QuoteOpen times in
\* a row: the next tick derives the mode again before it can act.
OpensNeedHealth ==
  [][(tick.result.order # "open" /\ tick'.result.order = "open") =>
       health.account = 0 /\ health.quote < QuoteOpen]_vars

\* An operator's paused or flatten_only is lifted by nothing that a quiet tick
\* does: only by a tick that throws and by a tick that had an order, whose
\* recovery or completion resets the mode.  (Boot forgets it too, when the
\* wallet shows LP positions.)
OperatorModeIsKept ==
  [][(mem.mode \in OperatorModes /\ mem'.mode # mem.mode) =>
       tick'.at = "boot" \/ tick'.caught \/ tick.had \/ pending # "none"]_vars

\* Once the world is calm and no order is pending, the mode comes back to one
\* that lets the daemon trade, unless an operator forbade it, or quotes have
\* failed so often that the circuit that forbids opens also forbids the quote
\* that would close it.
Heals ==
  <>[](calm /\ pending = "none") =>
    <>[](file.mode \in {"healthy", "degraded"} \cup OperatorModes \/ health.quote >= QuoteOpen)
=============================================================================
