---------------------------- MODULE LiveExecution ----------------------------
(***************************************************************************)
(* The order path of the live daemon (src/src/runtime/live-daemon.ts,      *)
(* live-cycle.ts, prepared-broadcast-store.ts) composed with the execution *)
(* sidecar of SolanaExecution.                                             *)
(*                                                                         *)
(* Two files carry an order through crashes: the prepared-broadcast        *)
(* write-ahead file (WAL), written before the first network call, and the  *)
(* pending-submission file, written once something is known of the         *)
(* outcome.  A third one books the capital of open-risk orders.  Every     *)
(* durable write is a step of its own; Crash may strike between any two    *)
(* and stands for the death of the process and for an exception that ends  *)
(* the tick.  A tick runs these stages, several of which replay the WAL:   *)
(*   preingest: recover the WAL, resolve the pending order, clear it       *)
(*   sweep1:    sell a residual token                                      *)
(*   cycle:     recover the WAL, gate on pending, decide, sign             *)
(*   first:     the first broadcast of the signed order                    *)
(*   open:      a second cycle, for a new position, after a maintenance one *)
(*   openFirst: the first broadcast of its order                           *)
(*   sweep2:    sell a residual token after the cycle                      *)
(***************************************************************************)
EXTENDS Naturals, FiniteSets

CONSTANTS
  Keys, Sides, Legs, MaxBuilds, MaxInstances, MaxQueue, Faults,  \* of SolanaExecution
  NoKey,            \* no order
  TransportErrors,  \* which failures of the HTTP call may occur: timeout, fetch-failed
  MaxFaults         \* bound: crashes of the daemon plus calls given up while an answer may come

VARIABLES side, instance, store, builds, chain, queued, handler, reply

sidecarVars == <<side, instance, store, builds, chain, queued, handler, reply>>
Sidecar == INSTANCE SolanaExecution

ASSUME LiveAssumption ==
  /\ Sidecar!ConstantsAssumption
  /\ NoKey \notin Keys
  /\ TransportErrors \subseteq {"timeout", "fetch-failed"}
  /\ MaxFaults \in Nat

VARIABLES
  wal,       \* prepared-broadcast.json
  pending,   \* pending-submission.json
  spend,     \* spending-limits.json: what is booked for each order
  signed,    \* the orders signed so far: each decision signs a fresh key
  risk,      \* those of class open_risk (deploy, add-lp)
  pc,        \* where the tick is
  stage,     \* which stage it is in
  tries,     \* executeWithRetry: attempts already made of the current call
  resolved,  \* the pending order resolved by this tick, whose file is still there
  outcome,   \* and how: confirmed or failed
  result,    \* the order this tick's cycle submitted
  faults     \* faults so far

fileVars == <<wal, pending, spend>>
orderVars == <<signed, risk>>
tickVars == <<pc, stage, tries, resolved, outcome, result>>
vars == <<sidecarVars, fileVars, orderVars, tickVars, faults>>

Places == {"idle", "recover", "release", "forget", "clearWal", "call", "wait", "resolve",
           "resolveBlocked", "clearResolved", "settle", "clearPending", "sweep", "gate", "decide",
           "reserve", "polled", "fill", "post", "persist"}
Stages == {"preingest", "sweep1", "cycle", "first", "open", "openFirst", "sweep2"}
Orders == Keys \cup {NoKey}

NoWal == [key |-> NoKey, disposition |-> "ready"]
Wal(k) == [key |-> k, disposition |-> "ready"]
NoPending == [key |-> NoKey, ids |-> {}, partial |-> FALSE]
\* buildUnknownPendingSubmissionSnapshot, buildTrackedPendingSubmissionSnapshot
UnknownPending(k) == [key |-> k, ids |-> {}, partial |-> FALSE]
TrackedPending(k, answer) == [key |-> k, ids |-> answer.ids, partial |-> answer.partial]

TypeOK ==
  /\ Sidecar!TypeOK
  /\ wal \in [key : Orders, disposition : {"ready", "not-submitted"}]
  /\ pending \in [key : Orders, ids : SUBSET Sidecar!Tx, partial : BOOLEAN]
  /\ spend \in [Keys -> {"none", "reserved", "settled"}]
  /\ risk \subseteq signed /\ signed \subseteq Keys
  /\ pc \in Places /\ stage \in Stages /\ tries \in 0..1
  /\ resolved \in Orders /\ outcome \in {"none", "confirmed", "failed"} /\ result \in Orders
  /\ faults \in 0..MaxFaults

Init ==
  /\ Sidecar!Init
  /\ wal = NoWal /\ pending = NoPending /\ spend = [k \in Keys |-> "none"]
  /\ signed = {} /\ risk = {}
  /\ pc = "idle" /\ stage = "preingest" /\ tries = 0
  /\ resolved = NoKey /\ outcome = "none" /\ result = NoKey
  /\ faults = 0

-----------------------------------------------------------------------------
(* Moving through the tick.                                                *)

Goto(place) == pc' = place /\ UNCHANGED <<stage, tries, resolved, outcome, result>>
Enter(nextStage, place) ==
  pc' = place /\ stage' = nextStage /\ tries' = 0 /\ UNCHANGED <<resolved, outcome, result>>
\* The daemon moves, the sidecar and the set of orders do not.
Local == UNCHANGED <<sidecarVars, orderVars, faults>>

\* Where a stage goes on when recoverPreparedBroadcast (or the first broadcast) is done.
Unblocked ==
  CASE stage = "preingest" -> Goto("resolve")
    [] stage = "sweep1"    -> Enter("cycle", "recover")
    [] stage \in {"cycle", "open"} -> Goto("gate")
    [] stage = "first"     -> Goto("post")
    [] stage = "openFirst" -> Goto("polled")
    [] stage = "sweep2"    -> Goto("persist")
Blocked ==
  CASE stage = "preingest" -> Goto("resolveBlocked")
    [] stage = "sweep1"    -> Enter("cycle", "recover")
    [] stage = "sweep2"    -> Goto("persist")
    [] OTHER               -> Goto("post")

StartTick == pc = "idle" /\ Enter("preingest", "recover") /\ UNCHANGED fileVars /\ Local

-----------------------------------------------------------------------------
(* recoverPreparedBroadcast, up to the replay.                             *)

RecoverClear ==
  /\ pc = "recover" /\ wal.key = NoKey
  /\ Unblocked
  /\ UNCHANGED fileVars /\ Local

\* The pending file belongs to another order: nothing is sent.
RecoverConflict ==
  /\ pc = "recover" /\ wal.key # NoKey /\ pending.key \notin {NoKey, wal.key}
  /\ Blocked
  /\ UNCHANGED fileVars /\ Local

Recoverable == pc = "recover" /\ wal.key # NoKey /\ pending.key \in {NoKey, wal.key}

RecoverNotSubmitted ==
  /\ Recoverable /\ wal.disposition = "not-submitted"
  /\ Goto("release")
  /\ UNCHANGED fileVars /\ Local

\* Mutant: recovery does not make up for a reservation lost in a crash.
RecoverReadyUnbooked ==
  /\ Recoverable /\ wal.disposition = "ready"
  /\ IF pending.ids # {} THEN Goto("clearWal") ELSE Enter(stage, "call")
  /\ UNCHANGED fileVars /\ Local

BookedFor(k) == IF k \in risk /\ spend[k] = "none" THEN [spend EXCEPT ![k] = "reserved"] ELSE spend

\* The reservation is made again if a crash came before it; then the WAL is dropped when the
\* pending file already tracks a transaction, and replayed otherwise.
RecoverReady ==
  /\ Recoverable /\ wal.disposition = "ready"
  /\ spend' = BookedFor(wal.key)
  /\ IF pending.ids # {} THEN Goto("clearWal") ELSE Enter(stage, "call")
  /\ UNCHANGED <<wal, pending>> /\ Local

-----------------------------------------------------------------------------
(* The call and its outcome; shared by the replay and the first broadcast. *)

Call ==
  /\ pc = "call"
  /\ Sidecar!Request(wal.key)
  /\ Goto("wait")
  /\ UNCHANGED <<fileVars, orderVars, faults>>

Answered(kinds) == pc = "wait" /\ reply[wal.key].kind \in kinds

\* The pending file is upgraded first; a crash before the WAL is cleared leaves both.
Submitted ==
  /\ Answered({"submitted"})
  /\ pending' = TrackedPending(wal.key, reply[wal.key])
  /\ pc' = "clearWal"
  /\ result' = IF stage = "first" \/ (stage = "openFirst" /\ side[wal.key] = "open")
               THEN wal.key ELSE result
  /\ UNCHANGED <<wal, spend, stage, tries, resolved, outcome>> /\ Local

\* isDefinitelyNotSubmittedBroadcastError or status failed: markNotSubmitted comes first, so that
\* a crash can never turn the rejection into a replay.
NotSubmitted ==
  /\ wal' = [wal EXCEPT !.disposition = "not-submitted"]
  /\ Goto("release")
  /\ UNCHANGED <<pending, spend>>

\* Mutant: a 503 after the last retry counts as a rejection.
RejectedToo ==
  /\ Answered({"failed", "bad_request", "unavailable"})
  /\ NotSubmitted /\ Local

Rejected ==
  /\ Answered({"failed", "bad_request"})
  /\ NotSubmitted /\ Local

\* Mutant: the WAL is dropped although the outcome is open.
OutcomeForgotten ==
  /\ wal' = NoWal
  /\ Blocked
  /\ UNCHANGED <<pending, spend>>

\* Any other failure leaves the outcome open: the WAL stays and the pending file says unknown.
OutcomeUnknown ==
  /\ pending' = IF pending.key = wal.key THEN pending ELSE UnknownPending(wal.key)
  /\ Blocked
  /\ UNCHANGED <<wal, spend>>

\* A 503 is retried once.
RetryCall ==
  /\ Answered({"unavailable"}) /\ tries = 0
  /\ pc' = "call" /\ tries' = 1
  /\ UNCHANGED <<stage, resolved, outcome, result, fileVars>> /\ Local

\* No answer is on its way: the sidecar died with the request.
Deserted == reply[wal.key].kind = "none" /\ queued[wal.key] = 0

GiveUp(error) ==
  /\ pc = "wait" /\ error \in TransportErrors
  /\ \/ Deserted /\ UNCHANGED faults
     \/ ~Deserted /\ faults < MaxFaults /\ faults' = faults + 1
  /\ UNCHANGED <<sidecarVars, orderVars>>

\* An answer that leaves the outcome open: 409 idempotency key pending, or a second 503.  A sidecar
\* whose store works gives neither: a retry finds the signature of the first attempt.
NoVerdict ==
  /\ \/ Answered({"pending"})
     \/ Answered({"unavailable"}) /\ tries = 1
  /\ UNCHANGED <<sidecarVars, orderVars, faults>>

CallTimesOut == (GiveUp("timeout") \/ NoVerdict) /\ OutcomeUnknown
\* The connection is refused or reset: an error without a status counts as a rejection.
FetchFails == GiveUp("fetch-failed") /\ NotSubmitted

\* The rejected order: free its capital, forget an unknown pending file, drop the WAL.
Release ==
  /\ pc = "release"
  /\ spend' = IF wal.key \in risk /\ spend[wal.key] = "reserved"
              THEN [spend EXCEPT ![wal.key] = "none"] ELSE spend
  /\ Goto("forget")
  /\ UNCHANGED <<wal, pending>> /\ Local

\* Mutant: the pending file of a rejected order stays.
ForgetNothing ==
  /\ pc = "forget"
  /\ Goto("clearWal")
  /\ UNCHANGED fileVars /\ Local

Forget ==
  /\ pc = "forget"
  /\ pending' = IF pending = UnknownPending(wal.key) THEN NoPending ELSE pending
  /\ Goto("clearWal")
  /\ UNCHANGED <<wal, spend>> /\ Local

ClearWal ==
  /\ pc = "clearWal"
  /\ wal' = NoWal
  /\ Unblocked
  /\ UNCHANGED <<pending, spend>> /\ Local

-----------------------------------------------------------------------------
(* recoverPendingSubmission and the pre-ingest resolution.                 *)

\* The decision for the pending order: confirmed when its whole batch is seen, as confirmed
\* signatures or as what the wallet then shows; failed when a tracked transaction failed and none
\* is seen confirmed; a partial batch stays until an operator decides.
BatchLanded(k) ==
  \E b \in 1..MaxBuilds : \A leg \in 1..Sidecar!LegsOf(k) : chain[k][<<b, leg>>] = "landed"

Resolution ==
  LET k == pending.key
      Seen(state) == \E t \in pending.ids : chain[k][t] = state
  IN IF k = NoKey \/ pending.partial THEN "none"
     ELSE IF BatchLanded(k) THEN "confirmed"
     ELSE IF Seen("failed") /\ ~Seen("landed") THEN "failed" ELSE "none"

Resolve ==
  /\ pc = "resolve"
  /\ IF Resolution = "none"
     THEN Enter("sweep1", "sweep")
     ELSE /\ pc' = "settle" /\ resolved' = pending.key /\ outcome' = Resolution
          /\ UNCHANGED <<stage, tries, result>>
  /\ UNCHANGED fileVars /\ Local

\* The WAL is blocked, yet the pending order may be resolved: then the WAL is dropped, whichever
\* order it names.
ResolveBlocked ==
  /\ pc = "resolveBlocked"
  /\ IF Resolution = "none"
     THEN Enter("sweep1", "sweep") /\ UNCHANGED fileVars
     ELSE /\ wal' = IF Resolution = "failed" THEN [wal EXCEPT !.disposition = "not-submitted"] ELSE wal
          /\ pc' = "clearResolved" /\ resolved' = pending.key /\ outcome' = Resolution
          /\ UNCHANGED <<stage, tries, result, pending, spend>>
  /\ Local

ClearResolved ==
  /\ pc = "clearResolved"
  /\ wal' = NoWal
  /\ Goto("settle")
  /\ UNCHANGED <<pending, spend>> /\ Local

\* Mutant: settling records an unknown status.
SettledAsFilled(k) ==
  {spend} \cup IF k \in risk /\ spend[k] = "reserved" THEN {[spend EXCEPT ![k] = "filled"]} ELSE {}

\* settleSpend needs fill evidence; without it the reservation stays.
SettledFor(k) ==
  {spend} \cup IF k \in risk /\ spend[k] = "reserved" THEN {[spend EXCEPT ![k] = "settled"]} ELSE {}

\* The recovered position becomes durable; the capital is settled, or freed if the order failed.
Settle ==
  /\ pc = "settle"
  /\ \/ outcome = "confirmed" /\ spend' \in SettledFor(resolved)
     \/ outcome = "failed"
        /\ spend' = IF resolved \in risk /\ spend[resolved] = "reserved"
                    THEN [spend EXCEPT ![resolved] = "none"] ELSE spend
  /\ Goto("clearPending")
  /\ UNCHANGED <<wal, pending>> /\ Local

ClearPending ==
  /\ pc = "clearPending"
  /\ pending' = NoPending
  /\ pc' = "sweep" /\ stage' = "sweep1" /\ tries' = 0
  /\ resolved' = NoKey /\ outcome' = "none" /\ UNCHANGED result
  /\ UNCHANGED <<wal, spend>> /\ Local

-----------------------------------------------------------------------------
(* Residual sweeps, the cycle and what follows it.                         *)

\* buildOrderIntent, sign, PreparedBroadcastStore.write: refused while the WAL holds another order.
SignOrder(k, isRisk) ==
  /\ k \in Keys \ signed /\ wal = NoWal
  /\ wal' = Wal(k)
  /\ signed' = signed \cup {k}
  /\ risk' = IF isRisk THEN risk \cup {k} ELSE risk
  /\ UNCHANGED <<sidecarVars, pending, spend, faults>>

NoPendingInMemory == pending.key \in {NoKey, resolved}

\* A maintenance sell is signed without a reservation and sent through recoverPreparedBroadcast.
SweepSigns ==
  /\ pc = "sweep" /\ NoPendingInMemory
  /\ stage = "sweep2" => ~(result # NoKey /\ side[result] = "swap" /\ result \notin risk)
  /\ \E k \in Keys : side[k] = "swap" /\ SignOrder(k, FALSE)
  /\ Goto("recover")

SweepSkips ==
  /\ pc = "sweep"
  /\ IF stage = "sweep1" THEN Enter("cycle", "recover") ELSE Goto("persist")
  /\ UNCHANGED fileVars /\ Local

\* Mutant: an unresolved pending order does not stop the cycle.
GateOpen ==
  /\ pc = "gate"
  /\ pending' = IF Resolution # "none" THEN NoPending ELSE pending
  /\ Goto("decide")
  /\ UNCHANGED <<wal, spend>> /\ Local

\* runPendingRecoveryGate: a resolved pending order is cleared on the spot; its capital is neither
\* settled nor freed.
Gate ==
  /\ pc = "gate"
  /\ \/ pending.key = NoKey /\ Goto("decide") /\ UNCHANGED pending
     \/ pending.key # NoKey /\ Resolution # "none" /\ pending' = NoPending /\ Goto("decide")
     \/ pending.key # NoKey /\ Resolution = "none" /\ Goto("post") /\ UNCHANGED pending
  /\ UNCHANGED <<wal, spend>> /\ Local

\* No trade: the engine, a guard or a policy says hold.
HoldTrade == pc = "decide" /\ Goto("post") /\ UNCHANGED fileVars /\ Local

CycleSigns ==
  /\ pc = "decide"
  /\ \E k \in Keys, isRisk \in BOOLEAN :
       /\ side[k] = "open" => isRisk
       /\ side[k] = "exit" => ~isRisk
       /\ stage = "open" => isRisk
       /\ SignOrder(k, isRisk)
       /\ Enter(IF stage = "open" THEN "openFirst" ELSE "first", IF isRisk THEN "reserve" ELSE "call")

Reserve ==
  /\ pc = "reserve"
  /\ spend' = BookedFor(wal.key)
  /\ Goto("call")
  /\ UNCHANGED <<wal, pending>> /\ Local

\* reserveSpend refuses: no call was made, the order is withdrawn.
ReserveRefused ==
  /\ pc = "reserve"
  /\ wal' = [wal EXCEPT !.disposition = "not-submitted"]
  /\ Goto("clearWal")
  /\ UNCHANGED <<pending, spend>> /\ Local

\* The new-open pass: after a maintenance cycle that left no pending order, runLiveCycle is called
\* again without deferResolvedPendingClear.
NewOpenPass ==
  /\ pc = "post" /\ stage \in {"cycle", "first"} /\ pending.key = NoKey
  /\ Enter("open", "recover")
  /\ UNCHANGED fileVars /\ Local

\* Its poll found the order's fate: the pending file is cleared within the cycle, before the
\* position is persisted, and a fill is settled after that.  A failure frees no capital.
ClearAtOnce ==
  /\ pc = "polled" /\ pending.key # NoKey /\ Resolution # "none"
  /\ pending' = NoPending
  /\ pc' = "fill" /\ resolved' = pending.key /\ outcome' = Resolution
  /\ UNCHANGED <<stage, tries, result, wal, spend>> /\ Local

NotPolled == pc = "polled" /\ Goto("post") /\ UNCHANGED fileVars /\ Local

SettleFill ==
  /\ pc = "fill"
  /\ spend' \in IF outcome = "confirmed" THEN SettledFor(resolved) ELSE {spend}
  /\ pc' = "post" /\ resolved' = NoKey /\ outcome' = "none" /\ UNCHANGED <<stage, tries, result>>
  /\ UNCHANGED <<wal, pending>> /\ Local

\* After the cycle only the order it submitted is resolved; a fill settles its capital, a failure
\* changes nothing.  The file stays until the position is persisted.
Post ==
  /\ pc = "post"
  /\ IF result # NoKey /\ pending.key = result /\ Resolution # "none"
     THEN /\ resolved' = result /\ outcome' = Resolution
          /\ \/ Resolution = "confirmed" /\ spend' \in SettledFor(result)
             \/ Resolution = "failed" /\ UNCHANGED spend
     ELSE UNCHANGED <<resolved, outcome, spend>>
  /\ pc' = "sweep" /\ stage' = "sweep2" /\ tries' = 0 /\ UNCHANGED result
  /\ UNCHANGED <<wal, pending>> /\ Local

EndTick ==
  /\ pc' = "idle" /\ stage' = "preingest" /\ tries' = 0
  /\ resolved' = NoKey /\ outcome' = "none" /\ result' = NoKey

Persist ==
  /\ pc = "persist"
  /\ pending' = IF resolved # NoKey /\ pending.key = resolved THEN NoPending ELSE pending
  /\ EndTick
  /\ UNCHANGED <<wal, spend>> /\ Local

Crash ==
  /\ pc # "idle" /\ faults < MaxFaults
  /\ faults' = faults + 1
  /\ EndTick
  /\ UNCHANGED <<sidecarVars, fileVars, orderVars>>

-----------------------------------------------------------------------------
Tick ==
  \/ StartTick \/ RecoverClear \/ RecoverConflict \/ RecoverNotSubmitted \/ RecoverReady
  \/ Call \/ Submitted \/ Rejected \/ RetryCall
  \/ Release \/ Forget \/ ClearWal
  \/ Resolve \/ ResolveBlocked \/ ClearResolved \/ Settle \/ ClearPending
  \/ SweepSigns \/ SweepSkips \/ Gate \/ HoldTrade \/ CycleSigns \/ Reserve \/ ReserveRefused
  \/ NewOpenPass \/ ClearAtOnce \/ NotPolled \/ SettleFill \/ Post \/ Persist
  \/ CallTimesOut \/ FetchFails

\* The sidecar, its restarts and the network move on their own.
Environment ==
  /\ (\E k \in Keys : Sidecar!Serve(k)) \/ Sidecar!Restart \/ Sidecar!Network
  /\ UNCHANGED <<fileVars, orderVars, tickVars, faults>>

Next == Tick \/ Crash \/ Environment

Spec == Init /\ [][Next]_vars

\* The daemon ticks while it lives, the sidecar serves what it accepted, and the network decides
\* and executes: a transaction it has accepted lands or fails.
Fairness ==
  /\ WF_vars(Tick)
  /\ \A k \in Keys : WF_vars(Environment /\ Sidecar!Serve(k))
  /\ WF_vars(Environment /\ Sidecar!Network)

FairSpec == Spec /\ Fairness

-----------------------------------------------------------------------------
(* Properties.                                                             *)

\* The transactions of the order itself; the sale of an exit's residual token is none of them.
OrderTx(k) == {t \in Sidecar!Tx : t[2] <= Sidecar!LegsOf(k)}

\* The sidecar holds a request of the order that may still send a transaction of it.
MaySend(k) ==
  /\ queued[k] > 0 /\ ~BatchLanded(k)
  /\ handler[k].at = "idle" => store[k].phase \in {"absent", "reserved"}

InFlight(k) == MaySend(k) \/ \E t \in OrderTx(k) : chain[k][t] \in {"sent", "live"}

Named(k) == wal = Wal(k) \/ pending.key = k

\* An order that may still execute is named by a durable file, so that a crash at any point is
\* followed by its recovery and never by its loss.
InFlightIsNamed == \A k \in Keys : InFlight(k) => Named(k)

\* The daemon never has two orders on their way at once: no new order is sent, by the cycle or by
\* a residual sweep, before the fate of the last one is known.
OneOrderInFlight == \A j, k \in Keys : InFlight(j) /\ InFlight(k) => j = k

\* An order recorded as not submitted had been rejected by the execution service before any
\* transaction of it was accepted for broadcast, and will not be sent any more.
NotSubmittedIsDefinite ==
  wal.disposition = "not-submitted" =>
    ~MaySend(wal.key) /\ \A t \in OrderTx(wal.key) : chain[wal.key][t] \notin {"sent", "live", "landed"}

\* A submitted open that fails on the chain consumes no capital: once no durable file names the
\* order, its reservation has been released.
Executed(k) == \E t \in OrderTx(k) : chain[k][t] = "landed"
FailedOpenIsReleased ==
  \A k \in risk : spend[k] = "reserved" => wal.key = k \/ pending.key = k \/ Executed(k)

\* Under FairSpec every order is accounted for: sooner or later no durable file names it.
OrderSettles == \A k \in Keys : (wal.key = k \/ pending.key = k) ~> (wal.key # k /\ pending.key # k)

\* The files, the sidecar and the chain together keep the promise of OrderContract.
Landings(k) == Cardinality({b \in 1..MaxBuilds : \E t \in OrderTx(k) : t[1] = b /\ chain[k][t] = "landed"})
Contract == INSTANCE OrderContract WITH
  Orders <- Keys,
  state <- [k \in Keys |-> IF k \notin signed THEN "new" ELSE IF Named(k) THEN "open" ELSE "closed"],
  executions <- [k \in Keys |-> Landings(k)],
  held <- {k \in Keys : k \in risk => spend[k] # "none"}
KeepsContract == Contract!ContractSpec
=============================================================================
