------------------------- MODULE LiveExecution_proofs -------------------------
(***************************************************************************)
(* The order path of the daemon over the sidecar, for every number of      *)
(* orders, rebuilds, restarts, crashes and repeated requests: an order     *)
(* that may still execute is named by a file, there is one at a time, a    *)
(* recorded rejection is definite, and the path implements OrderContract.  *)
(*                                                                         *)
(* Assumed are the faults and failures under which the code keeps these    *)
(* promises: orders of one transaction, sends of Meteora transactions that *)
(* time out, and HTTP calls that time out.  What breaks beyond them is     *)
(* shown by the runs that expect a violation.                              *)
(***************************************************************************)
EXTENDS LiveExecution, FiniteSetTheorems, TLAPS

S == INSTANCE SolanaExecution_proofs

\* What lies beyond: the answer to a partial batch, a read that fails after a send, a swap that
\* times out (solana_swap_timeout) and a call that fails without a status (live_fetch_failed).
WithinContract ==
  /\ Legs = 1
  /\ Faults \subseteq {"open", "exit"} \X {"unknown"}
  /\ TransportErrors \subseteq {"timeout"}

\* The order will never be executed, and has not been.
Definite(k) == ~InFlight(k) /\ ~Executed(k)
\* No request of the order has ever been posted.
Untouched(k) ==
  /\ store[k].phase = "absent" /\ queued[k] = 0 /\ reply[k].kind = "none"
  /\ \A t \in Sidecar!Tx : chain[k][t] = "none"
\* The sidecar has stored these transactions as the whole result of the order.
Stored(k, ids) == store[k].phase = "submitted" /\ ~store[k].partial /\ store[k].result = ids

(***************************************************************************)
(* What holds of an order: nobody knows it before it is signed; while it   *)
(* may be executed a file names it and its capital is booked; one recorded *)
(* as not submitted is definitely not; the WAL of another order than the   *)
(* pending one was never sent; a tracked batch is the sidecar's result.    *)
(***************************************************************************)
KeyInv(k) ==
  /\ k \notin signed => Untouched(k) /\ spend[k] = "none" /\ k \notin {wal.key, pending.key, resolved, result}
  /\ InFlight(k) => Named(k) /\ (k \in risk => spend[k] # "none")
  /\ wal.key = k =>
       /\ wal.disposition = "not-submitted" => Definite(k)
       /\ pending.key \notin {NoKey, k} \/ pc = "reserve" => Untouched(k)
       /\ pc \in {"call", "wait"} /\ k \in risk => spend[k] # "none"
  /\ pending.key = k /\ pending.ids # {} /\ ~pending.partial => Stored(k, pending.ids)
  /\ resolved = k => ~InFlight(k) /\ (outcome = "failed" => Definite(k))

\* What the tick knows of the files where it is.  A pending order that it has resolved is still in
\* the pending file, unless the cycle has cleared it at once.
TickInv ==
  /\ wal.key = NoKey => wal = NoWal
  /\ pending.key = NoKey => pending = NoPending
  /\ pc \in {"call", "wait"} =>
       wal.key # NoKey /\ wal.disposition = "ready" /\ pending.key \in {NoKey, wal.key} /\ pending.ids = {}
  /\ pc = "reserve" => wal.key # NoKey /\ wal.disposition = "ready" /\ pending.key = NoKey
  /\ pc = "decide" => pending.key = NoKey
  /\ pc \in {"release", "forget"} => wal.disposition = "not-submitted"
  /\ pc = "clearWal" => wal.key # NoKey /\ (wal.disposition = "ready" => pending.key = wal.key)
  /\ pc = "resolveBlocked" => wal.key # NoKey /\ (pending.key = wal.key => pending.ids = {})
  /\ pc = "clearResolved" => wal.key # NoKey
  /\ pc \in {"clearResolved", "settle", "clearPending", "fill"} => resolved # NoKey
  /\ resolved # NoKey =>
       /\ pc \in {"clearResolved", "settle", "clearPending", "fill", "sweep", "recover", "persist"}
       /\ pc # "fill" => pending.key = resolved
       /\ pc \in {"sweep", "recover", "persist"} => stage = "sweep2"
       /\ pc = "recover" => wal.key \notin {NoKey, resolved}

FileTypes ==
  /\ wal \in [key : Orders, disposition : {"ready", "not-submitted"}]
  /\ pending \in [key : Orders, ids : SUBSET Sidecar!Tx, partial : BOOLEAN]
  /\ spend \in [Keys -> {"none", "reserved", "settled"}]
  /\ risk \subseteq signed /\ signed \subseteq Keys
TickTypes ==
  /\ pc \in Places /\ stage \in Stages /\ tries \in 0..1
  /\ resolved \in Orders /\ outcome \in {"none", "confirmed", "failed"} /\ result \in Orders
  /\ faults \in 0..MaxFaults

\* Inductive under any fault and failure.
TypingInv ==
  /\ S!TypeInv /\ FileTypes /\ TickTypes
  /\ pc \in {"reserve", "call", "wait"} => wal.key # NoKey

DaemonInv == TickInv /\ \A k \in Keys : KeyInv(k)
LiveInv == TypingInv /\ S!ClientInv /\ DaemonInv

-----------------------------------------------------------------------------
(* The sidecar's lemmas are about an instance of their own.  Its actions   *)
(* and predicates are those of Sidecar.                                    *)

LEMMA ServeMeans == ASSUME NEW k \in Keys, Sidecar!Serve(k) PROVE S!Serve(k)
<1>1. CASE Sidecar!ReserveNew(k)
  <2>1. S!ReserveNew(k)
    BY <1>1 DEF Sidecar!ReserveNew, S!ReserveNew, Sidecar!Reservation, S!Reservation, Sidecar!Goto,
       S!Goto, Sidecar!Lockable, S!Lockable, Sidecar!Record, S!Record, Sidecar!At, S!At
  <2> QED BY <2>1 DEF S!Serve, S!Handle
<1>2. CASE Sidecar!TakeOver(k)
  <2>1. S!TakeOver(k)
    BY <1>2 DEF Sidecar!TakeOver, S!TakeOver, Sidecar!Record, S!Record, Sidecar!Goto, S!Goto,
       Sidecar!Lockable, S!Lockable, Sidecar!At, S!At
  <2> QED BY <2>1 DEF S!Serve, S!Handle
<1>3. CASE Sidecar!AnswerPending(k)
  <2>1. S!AnswerPending(k)
    BY <1>3 DEF Sidecar!AnswerPending, S!AnswerPending, Sidecar!Reply, S!Reply, Sidecar!Answer,
       S!Answer, Sidecar!Lockable, S!Lockable, Sidecar!Idle, S!Idle, Sidecar!At, S!At, Sidecar!Work,
       S!Work
  <2> QED BY <2>1 DEF S!Serve, S!Handle
<1>4. CASE Sidecar!AnswerReplay(k)
  <2>1. S!AnswerReplay(k)
    BY <1>4 DEF Sidecar!AnswerReplay, S!AnswerReplay, Sidecar!Reply, S!Reply, Sidecar!Answer,
       S!Answer, Sidecar!Lockable, S!Lockable, Sidecar!Idle, S!Idle, Sidecar!At, S!At, Sidecar!Work,
       S!Work
  <2> QED BY <2>1 DEF S!Serve, S!Handle
<1>5. CASE Sidecar!BuildFails(k)
  <2>1. S!BuildFails(k)
    BY <1>5 DEF Sidecar!BuildFails, S!BuildFails, Sidecar!At, S!At, Sidecar!ReleaseAndFail,
       S!ReleaseAndFail, Sidecar!AbsentRecord, S!AbsentRecord, Sidecar!Reply, S!Reply,
       Sidecar!Answer, S!Answer, Sidecar!Record, S!Record, Sidecar!Idle, S!Idle, Sidecar!Work,
       S!Work
  <2> QED BY <2>1 DEF S!Serve, S!Handle
<1>6. CASE Sidecar!Build(k)
  <2>1. S!Build(k)
    BY <1>6 DEF Sidecar!Build, S!Build, Sidecar!Work, S!Work, Sidecar!At, S!At
  <2> QED BY <2>1 DEF S!Serve, S!Handle
<1>7. CASE Sidecar!MarkStarted(k)
  <2>1. S!MarkStarted(k)
    BY <1>7 DEF Sidecar!MarkStarted, S!MarkStarted, Sidecar!Record, S!Record, Sidecar!At, S!At,
       Sidecar!Current, S!Current, Sidecar!Goto, S!Goto
  <2> QED BY <2>1 DEF S!Serve, S!Handle
<1>8. CASE Sidecar!Send(k)
  <2>1. S!Send(k)
    BY <1>8 DEF Sidecar!Send, S!Send, Sidecar!At, S!At, Sidecar!Current, S!Current, Sidecar!Goto,
       S!Goto, Sidecar!SetTx, S!SetTx
  <2> QED BY <2>1 DEF S!Serve, S!Handle
<1>9. CASE Sidecar!RpcAccepts(k)
  <2>1. S!RpcAccepts(k)
    BY <1>9 DEF Sidecar!RpcAccepts, S!RpcAccepts, Sidecar!Work, S!Work, Sidecar!At, S!At,
       Sidecar!Current, S!Current, Sidecar!AfterAccept, S!AfterAccept, Sidecar!SweepLeg, S!SweepLeg,
       Sidecar!IsExit, S!IsExit, Sidecar!LegsOf, S!LegsOf, Sidecar!IsSwap, S!IsSwap
  <2> QED BY <2>1 DEF S!Serve, S!Handle
<1>10. CASE Sidecar!RpcRefuses(k)
  <2>1. S!RpcRefuses(k)
    BY <1>10 DEF Sidecar!RpcRefuses, S!RpcRefuses, Sidecar!SweepLeg, S!SweepLeg, Sidecar!IsExit,
       S!IsExit, Sidecar!IsSwap, S!IsSwap, Sidecar!At, S!At, Sidecar!Goto, S!Goto,
       Sidecar!ReleaseAndFail, S!ReleaseAndFail, Sidecar!Refused, S!Refused, Sidecar!StopPartial,
       S!StopPartial, Sidecar!NextProvider, S!NextProvider, Sidecar!AbsentRecord, S!AbsentRecord,
       Sidecar!Reply, S!Reply, Sidecar!Answer, S!Answer, Sidecar!MayHit, S!MayHit, Sidecar!Current,
       S!Current, Sidecar!Work, S!Work, Sidecar!Record, S!Record, Sidecar!Idle, S!Idle
  <2> QED BY <2>1 DEF S!Serve, S!Handle
<1>11. CASE Sidecar!RpcTimesOut(k)
  <2>1. S!RpcTimesOut(k)
    BY <1>11 DEF Sidecar!RpcTimesOut, S!RpcTimesOut, Sidecar!SweepLeg, S!SweepLeg, Sidecar!Reply,
       S!Reply, Sidecar!IsSwap, S!IsSwap, Sidecar!MayHit, S!MayHit, Sidecar!At, S!At, Sidecar!Goto,
       S!Goto, Sidecar!Answer, S!Answer, Sidecar!ReleaseAndFail, S!ReleaseAndFail,
       Sidecar!StopPartial, S!StopPartial, Sidecar!Idle, S!Idle, Sidecar!AbsentRecord,
       S!AbsentRecord, Sidecar!Work, S!Work, Sidecar!Record, S!Record
  <2> QED BY <2>1 DEF S!Serve, S!Handle
<1>12. CASE Sidecar!SendExternal(k)
  <2>1. S!SendExternal(k)
    BY <1>12 DEF Sidecar!SendExternal, S!SendExternal, Sidecar!Work, S!Work, Sidecar!MayHit,
       S!MayHit, Sidecar!SetTx, S!SetTx, Sidecar!SwapOffered, S!SwapOffered, Sidecar!SwapLeg,
       S!SwapLeg, Sidecar!IsSwap, S!IsSwap, Sidecar!At, S!At, Sidecar!SweepLeg, S!SweepLeg
  <2> QED BY <2>1 DEF S!Serve, S!Handle
<1>13. CASE Sidecar!ExternalAccepts(k)
  <2>1. S!ExternalAccepts(k)
    BY <1>13 DEF Sidecar!ExternalAccepts, S!ExternalAccepts, Sidecar!Work, S!Work, Sidecar!At, S!At,
       Sidecar!Current, S!Current, Sidecar!AfterAccept, S!AfterAccept, Sidecar!SweepLeg, S!SweepLeg,
       Sidecar!IsExit, S!IsExit, Sidecar!LegsOf, S!LegsOf, Sidecar!IsSwap, S!IsSwap
  <2> QED BY <2>1 DEF S!Serve, S!Handle
<1>14. CASE Sidecar!ExternalFails(k)
  <2>1. S!ExternalFails(k)
    BY <1>14 DEF Sidecar!ExternalFails, S!ExternalFails, Sidecar!IsSwap, S!IsSwap, Sidecar!At, S!At,
       Sidecar!Goto, S!Goto
  <2> QED BY <2>1 DEF S!Serve, S!Handle
<1>15. CASE Sidecar!Confirmed(k)
  <2>1. S!Confirmed(k)
    BY <1>15 DEF Sidecar!Confirmed, S!Confirmed, Sidecar!At, S!At, Sidecar!Goto, S!Goto
  <2> QED BY <2>1 DEF S!Serve, S!Handle
<1>16. CASE Sidecar!NotConfirmed(k)
  <2>1. S!NotConfirmed(k)
    BY <1>16 DEF Sidecar!NotConfirmed, S!NotConfirmed, Sidecar!At, S!At, Sidecar!StopPartial,
       S!StopPartial, Sidecar!Work, S!Work
  <2> QED BY <2>1 DEF S!Serve, S!Handle
<1>17. CASE Sidecar!ListSellable(k)
  <2>1. S!ListSellable(k)
    BY <1>17 DEF Sidecar!ListSellable, S!ListSellable, Sidecar!At, S!At, Sidecar!Goto, S!Goto
  <2> QED BY <2>1 DEF S!Serve, S!Handle
<1>18. CASE Sidecar!SellResidual(k)
  <2>1. S!SellResidual(k)
    BY <1>18 DEF Sidecar!SellResidual, S!SellResidual, Sidecar!SweepLeg, S!SweepLeg, Sidecar!Work,
       S!Work, Sidecar!At, S!At
  <2> QED BY <2>1 DEF S!Serve, S!Handle
<1>19. CASE Sidecar!SweepEnds(k)
  <2>1. S!SweepEnds(k)
    BY <1>19 DEF Sidecar!SweepEnds, S!SweepEnds, Sidecar!Goto, S!Goto
  <2> QED BY <2>1 DEF S!Serve, S!Handle
<1>20. CASE Sidecar!ReadFails(k)
  <2>1. S!ReadFails(k)
    BY <1>20 DEF Sidecar!ReadFails, S!ReadFails, Sidecar!Reply, S!Reply, Sidecar!MayHit, S!MayHit,
       Sidecar!Answer, S!Answer, Sidecar!Idle, S!Idle, Sidecar!Work, S!Work
  <2> QED BY <2>1 DEF S!Serve, S!Handle
<1>21. CASE Sidecar!Complete(k)
  <2>1. S!Complete(k)
    BY <1>21 DEF Sidecar!Complete, S!Complete, Sidecar!Record, S!Record, Sidecar!Reply, S!Reply,
       Sidecar!At, S!At, Sidecar!Answer, S!Answer, Sidecar!Idle, S!Idle, Sidecar!Work, S!Work
  <2> QED BY <2>1 DEF S!Serve, S!Handle
<1> QED BY <1>1, <1>2, <1>3, <1>4, <1>5, <1>6, <1>7, <1>8, <1>9, <1>10, <1>11, <1>12, <1>13, <1>14,
   <1>15, <1>16, <1>17, <1>18, <1>19, <1>20, <1>21 DEF Sidecar!Serve, Sidecar!Handle

LEMMA InitMeans == Sidecar!Init => S!Init
BY DEF Sidecar!Init, S!Init, Sidecar!Tx, S!Tx, Sidecar!AbsentRecord, S!AbsentRecord, Sidecar!Idle,
   S!Idle, Sidecar!NoReply, S!NoReply, Sidecar!SweepLeg, S!SweepLeg, Sidecar!Record, S!Record,
   Sidecar!Work, S!Work, Sidecar!Reply, S!Reply

LEMMA RestartMeans == Sidecar!Restart => S!Restart
BY DEF Sidecar!Restart, S!Restart, Sidecar!Idle, S!Idle, Sidecar!Work, S!Work

LEMMA NetworkMeans == Sidecar!Network => S!Network
BY DEF Sidecar!Network, S!Network, Sidecar!NetworkAccepts, S!NetworkAccepts, Sidecar!NetworkRejects,
   S!NetworkRejects, Sidecar!Lands, S!Lands, Sidecar!FailsOnChain, S!FailsOnChain, Sidecar!Becomes,
   S!Becomes, Sidecar!Tx, S!Tx, Sidecar!SetTx, S!SetTx, Sidecar!SweepLeg, S!SweepLeg

LEMMA RequestMeans == ASSUME NEW k \in Keys, Sidecar!Request(k) PROVE S!Request(k)
BY DEF Sidecar!Request, S!Request, Sidecar!NoReply, S!NoReply, Sidecar!Reply, S!Reply

LEMMA AssumptionMeans == S!ConstantsAssumption
BY LiveAssumption DEF LiveAssumption, Sidecar!ConstantsAssumption, S!ConstantsAssumption,
   Sidecar!SideKinds, S!SideKinds, Sidecar!FaultKinds, S!FaultKinds

LEMMA PredicatesMean ==
  ASSUME NEW k \in Keys
  PROVE  /\ OrderTx(k) = S!OrderTx(k) /\ (BatchLanded(k) <=> S!BatchLanded(k))
         /\ (InFlight(k) <=> S!InFlight(k)) /\ (Definite(k) <=> S!Definite(k))
         /\ (Untouched(k) <=> S!Untouched(k))
BY DEF OrderTx, S!OrderTx, Sidecar!Tx, S!Tx, Sidecar!SweepLeg, S!SweepLeg, Sidecar!LegsOf, S!LegsOf,
   Sidecar!IsSwap, S!IsSwap, BatchLanded, S!BatchLanded, MaySend, S!MaySend, InFlight, S!InFlight,
   Definite, S!Definite, Executed, Untouched, S!Untouched

LEMMA PredicatesMeanNext ==
  ASSUME NEW k \in Keys
  PROVE  /\ (InFlight(k)' <=> S!InFlight(k)') /\ (Definite(k)' <=> S!Definite(k)')
         /\ (Untouched(k)' <=> S!Untouched(k)')
BY DEF OrderTx, S!OrderTx, Sidecar!Tx, S!Tx, Sidecar!SweepLeg, S!SweepLeg, Sidecar!LegsOf, S!LegsOf,
   Sidecar!IsSwap, S!IsSwap, BatchLanded, S!BatchLanded, MaySend, S!MaySend, InFlight, S!InFlight,
   Definite, S!Definite, Executed, Untouched, S!Untouched

LEMMA TimeoutsMean == ASSUME WithinContract PROVE S!OnlyTimeouts
BY DEF WithinContract, S!OnlyTimeouts

LEMMA TypesMean == ASSUME S!TypeInv PROVE Sidecar!TypeOK
BY DEF S!TypeInv, S!TypeOK, Sidecar!TypeOK,
   S!SubmissionRecord, Sidecar!SubmissionRecord, S!Handler, Sidecar!Handler, S!ReplyType, Sidecar!ReplyType,
   S!Tx, Sidecar!Tx, S!SweepLeg, Sidecar!SweepLeg, S!TxState, Sidecar!TxState

\* What a step of the sidecar that is not a request of the order does to it.
Kept(k) ==
  /\ InFlight(k)' => InFlight(k)
  /\ Definite(k) => Definite(k)'
  /\ Untouched(k) => Untouched(k)'
  /\ \A ids : Stored(k, ids) => Stored(k, ids)'

LEMMA CalmKeeps ==
  ASSUME WithinContract, S!ClientInv, NEW k \in Keys, S!Calm(k)
  PROVE  Kept(k)
<1> USE AssumptionMeans DEF S!ConstantsAssumption
<1>1. S!OnlyTimeouts BY TimeoutsMean
<1>2. InFlight(k)' => InFlight(k) BY <1>1, S!CalmDone, PredicatesMean, PredicatesMeanNext
<1>3. Definite(k) => Definite(k)' BY <1>1, S!CalmDefinite, PredicatesMean, PredicatesMeanNext
<1>4. Untouched(k) => Untouched(k)' BY S!CalmUntouched, PredicatesMean, PredicatesMeanNext
<1>5. store[k].phase = "submitted" => store'[k] = store[k] BY S!CalmIsNext, S!ResultStays
<1> QED BY <1>2, <1>3, <1>4, <1>5 DEF Kept, Stored

LEMMA EnvironmentCalm == ASSUME Environment, NEW k \in Keys PROVE S!Calm(k)
BY ServeMeans, RestartMeans, NetworkMeans DEF Environment, S!Calm

LEMMA CallCalm == ASSUME Call, wal.key \in Keys, NEW k \in Keys \ {wal.key} PROVE S!Calm(k)
BY RequestMeans DEF Call, S!Calm

\* The daemon's own steps leave the sidecar alone.
LEMMA LocalSame ==
  ASSUME UNCHANGED sidecarVars, NEW k
  PROVE  /\ InFlight(k)' <=> InFlight(k)
         /\ Definite(k)' <=> Definite(k)
         /\ Untouched(k)' <=> Untouched(k)
         /\ \A ids : Stored(k, ids)' <=> Stored(k, ids)
BY DEF sidecarVars, InFlight, MaySend, BatchLanded, OrderTx, Sidecar!LegsOf, Sidecar!IsSwap, Definite,
       Executed, Untouched, Stored

LEMMA Quiet == ASSUME Tick, ~Call PROVE UNCHANGED sidecarVars
BY DEF Tick, Local, GiveUp, NoVerdict, SignOrder, StartTick, RecoverClear, RecoverConflict,
   RecoverNotSubmitted, RecoverReady, Submitted, Rejected, RetryCall, Release, Forget, ClearWal, Resolve,
   ResolveBlocked, ClearResolved, Settle, ClearPending, SweepSigns, SweepSkips, Gate, HoldTrade,
   CycleSigns, Reserve, ReserveRefused, NewOpenPass, ClearAtOnce, NotPolled, SettleFill, Post, Persist,
   CallTimesOut, FetchFails

\* What the daemon and its environment do to the sidecar is what the sidecar's module allows.
LEMMA SidecarNext == ASSUME TypingInv, [Next]_vars PROVE [S!Next]_(S!vars)
<1>1. CASE Environment
  BY <1>1, ServeMeans, RestartMeans, NetworkMeans DEF Environment, S!Next
<1>2. CASE Call
  <2>1. wal.key \in Keys BY <1>2 DEF Call, TypingInv, FileTypes, Orders
  <2> QED BY <1>2, <2>1, RequestMeans DEF Call, S!Next
<1>3. CASE UNCHANGED sidecarVars BY <1>3 DEF S!vars, sidecarVars
<1> QED BY <1>1, <1>2, <1>3, Quiet DEF Next, Crash, vars

-----------------------------------------------------------------------------
(* What the steps of a tick have in common.                                *)

USE LiveAssumption DEF LiveAssumption

LEMMA UnblockedEffect ==
  ASSUME TickTypes, Unblocked
  PROVE  /\ pc' \in {"resolve", "recover", "gate", "post", "polled", "persist"}
         /\ stage' \in Stages /\ tries' \in 0..1 /\ UNCHANGED <<resolved, outcome, result>>
         /\ stage = "sweep2" => pc' = "persist" /\ stage' = "sweep2"
<1> USE DEF TickTypes, Unblocked, Goto, Enter, Stages
<1>1. CASE stage = "preingest" BY <1>1
<1>2. CASE stage = "sweep1" BY <1>2
<1>3. CASE stage \in {"cycle", "open"} BY <1>3
<1>4. CASE stage \in {"first", "openFirst", "sweep2"} BY <1>4
<1> QED BY <1>1, <1>2, <1>3, <1>4

LEMMA BlockedEffect ==
  ASSUME TickTypes, Blocked
  PROVE  /\ pc' \in {"resolveBlocked", "recover", "persist", "post"}
         /\ stage' \in Stages /\ tries' \in 0..1 /\ UNCHANGED <<resolved, outcome, result>>
         /\ stage = "sweep2" => pc' = "persist" /\ stage' = "sweep2"
BY DEF TickTypes, Blocked, Goto, Enter, Stages

\* A resolved pending order is done; if it is resolved as failed, it was tracked and never executed.
LEMMA ResolutionMeans ==
  ASSUME WithinContract, LiveInv, NEW k \in Keys, pending.key = k, Resolution # "none"
  PROVE  /\ Resolution \in {"confirmed", "failed"} /\ ~InFlight(k)
         /\ Resolution = "failed" => Definite(k) /\ pending.ids # {}
<1> USE AssumptionMeans DEF S!ConstantsAssumption
<1>1. Resolution \in {"confirmed", "failed"} /\ ~pending.partial BY DEF Resolution
<1>2. CASE BatchLanded(k)
  <2>1. Resolution = "confirmed" BY <1>1, <1>2 DEF Resolution
  <2>2. ~InFlight(k) BY <1>2, PredicatesMean, S!LandedIsDone DEF LiveInv
  <2> QED BY <2>1, <2>2
<1>3. CASE ~BatchLanded(k)
  <2>1. /\ \E t \in pending.ids : chain[k][t] = "failed"
        /\ ~\E t \in pending.ids : chain[k][t] = "landed"
    BY <1>1, <1>3 DEF Resolution
  <2>2. Stored(k, pending.ids) BY <1>1, <2>1 DEF LiveInv, DaemonInv, KeyInv
  <2>3. Definite(k)
    BY <2>1, <2>2, PredicatesMean, S!FailedResult DEF LiveInv, Stored, WithinContract
  <2> QED BY <1>1, <2>1, <2>3 DEF Definite
<1> QED BY <1>2, <1>3

LEMMA UntouchedIsDefinite ==
  ASSUME S!TypeInv, NEW k \in Keys, Untouched(k) PROVE Definite(k)
BY PredicatesMean, S!UntouchedIsDefinite, AssumptionMeans DEF S!ConstantsAssumption

-----------------------------------------------------------------------------
(* Types.                                                                  *)

USE DEF Local, Goto, Enter, EndTick, fileVars, orderVars

LEMMA ResolutionTyped ==
  ASSUME FileTypes
  PROVE  Resolution \in {"none", "confirmed", "failed"} /\ (Resolution # "none" => pending.key \in Keys)
BY DEF FileTypes, Resolution, Orders

LEMMA TypingStep == ASSUME TypingInv, [Next]_vars PROVE TypingInv'
<1> DEFINE Typed == FileTypes /\ TickTypes /\ (pc \in {"reserve", "call", "wait"} => wal.key # NoKey)
<1> USE DEF TypingInv, FileTypes, TickTypes, Places, Stages, Orders, NoWal, Wal, NoPending
<1>1. ASSUME StartTick PROVE Typed' BY <1>1 DEF StartTick
<1>2. ASSUME RecoverClear PROVE Typed' BY <1>2, UnblockedEffect DEF RecoverClear
<1>3. ASSUME RecoverConflict PROVE Typed' BY <1>3, BlockedEffect DEF RecoverConflict
<1>4. ASSUME RecoverNotSubmitted PROVE Typed' BY <1>4 DEF RecoverNotSubmitted, Recoverable
<1>5. ASSUME RecoverReady PROVE Typed' BY <1>5 DEF RecoverReady, Recoverable, BookedFor
<1>6. ASSUME Call PROVE Typed' BY <1>6 DEF Call
<1>7. ASSUME Submitted PROVE Typed'
  BY <1>7, TypesMean DEF Submitted, Answered, TrackedPending, Sidecar!TypeOK, Sidecar!ReplyType
<1>8. ASSUME Rejected PROVE Typed' BY <1>8 DEF Rejected, Answered, NotSubmitted
<1>9. ASSUME RetryCall PROVE Typed' BY <1>9 DEF RetryCall, Answered
<1>10. ASSUME Release PROVE Typed' BY <1>10 DEF Release
<1>11. ASSUME Forget PROVE Typed' BY <1>11 DEF Forget
<1>12. ASSUME ClearWal PROVE Typed' BY <1>12, UnblockedEffect DEF ClearWal
<1>13. ASSUME Resolve PROVE Typed' BY <1>13, ResolutionTyped DEF Resolve
<1>14. ASSUME ResolveBlocked PROVE Typed' BY <1>14, ResolutionTyped DEF ResolveBlocked
<1>15. ASSUME ClearResolved PROVE Typed' BY <1>15 DEF ClearResolved
<1>16. ASSUME Settle PROVE Typed' BY <1>16 DEF Settle, SettledFor
<1>17. ASSUME ClearPending PROVE Typed' BY <1>17 DEF ClearPending
<1>18. ASSUME SweepSigns PROVE Typed' BY <1>18 DEF SweepSigns, SignOrder
<1>19. ASSUME SweepSkips PROVE Typed' BY <1>19 DEF SweepSkips
<1>20. ASSUME Gate PROVE Typed'
  <2> DEFINE Files == [key : Orders, ids : SUBSET Sidecar!Tx, partial : BOOLEAN]
  <2>1. (pending' = pending \/ pending' = NoPending) /\ pc' \in {"decide", "post"}
        /\ UNCHANGED <<wal, spend, stage, tries, resolved, outcome, result, signed, risk, faults>>
    BY <1>20 DEF Gate
  <2>2. pending \in Files /\ NoPending \in Files OBVIOUS
  <2>3. pending' \in Files BY <2>1, <2>2
  <2> QED BY <2>1, <2>3
<1>21. ASSUME HoldTrade PROVE Typed' BY <1>21 DEF HoldTrade
<1>22. ASSUME CycleSigns PROVE Typed' BY <1>22 DEF CycleSigns, SignOrder
<1>23. ASSUME Reserve PROVE Typed' BY <1>23 DEF Reserve, BookedFor
<1>24. ASSUME ReserveRefused PROVE Typed' BY <1>24 DEF ReserveRefused
<1>25. ASSUME NewOpenPass PROVE Typed' BY <1>25 DEF NewOpenPass
<1>26. ASSUME ClearAtOnce PROVE Typed' BY <1>26, ResolutionTyped DEF ClearAtOnce
<1>27. ASSUME NotPolled PROVE Typed' BY <1>27 DEF NotPolled
<1>28. ASSUME SettleFill PROVE Typed' BY <1>28 DEF SettleFill, SettledFor
<1>29. ASSUME Post PROVE Typed' BY <1>29, ResolutionTyped DEF Post, SettledFor
<1>30. ASSUME Persist PROVE Typed' BY <1>30 DEF Persist
<1>31. ASSUME CallTimesOut PROVE Typed'
  BY <1>31, BlockedEffect DEF CallTimesOut, GiveUp, NoVerdict, Answered, OutcomeUnknown, UnknownPending
<1>32. ASSUME FetchFails PROVE Typed' BY <1>32 DEF FetchFails, GiveUp, NotSubmitted
<1>33. ASSUME Crash PROVE Typed' BY <1>33 DEF Crash
<1>34. ASSUME Environment PROVE Typed' BY <1>34 DEF Environment, tickVars
<1>35. ASSUME UNCHANGED vars PROVE Typed' BY <1>35 DEF vars, tickVars
<1>36. S!TypeInv' BY SidecarNext, S!TypeStep, AssumptionMeans DEF S!ConstantsAssumption
<1> HIDE DEF Typed
<1>37. Typed'
  BY <1>1, <1>2, <1>3, <1>4, <1>5, <1>6, <1>7, <1>8, <1>9, <1>10, <1>11, <1>12, <1>13, <1>14, <1>15, <1>16,
     <1>17, <1>18, <1>19, <1>20, <1>21, <1>22, <1>23, <1>24, <1>25, <1>26, <1>27, <1>28, <1>29, <1>30,
     <1>31, <1>32, <1>33, <1>34, <1>35 DEF Next, Tick
<1> QED BY <1>36, <1>37 DEF Typed

-----------------------------------------------------------------------------
(* One lemma for each step of the daemon.                                  *)

LEMMA StartTickKeeps == ASSUME WithinContract, LiveInv, StartTick PROVE DaemonInv'
<1> USE DEF LiveInv, DaemonInv, TypingInv
<1>1. UNCHANGED sidecarVars BY DEF StartTick
<1>2. TickInv' BY DEF StartTick, TickInv, TickTypes, FileTypes, NoWal, Wal, NoPending, Orders
<1>3. ASSUME NEW k \in Keys PROVE KeyInv(k)'
  BY <1>1, LocalSame DEF StartTick, KeyInv, TickInv, FileTypes, TickTypes, Orders, Named, Wal, NoWal,
     NoPending
<1> QED BY <1>2, <1>3

LEMMA RecoverClearKeeps == ASSUME WithinContract, LiveInv, RecoverClear PROVE DaemonInv'
<1> USE DEF LiveInv, DaemonInv, TypingInv
<1>1. UNCHANGED sidecarVars BY DEF RecoverClear
<1>2. TickInv'
  BY UnblockedEffect DEF RecoverClear, TickInv, TickTypes, FileTypes, NoWal, Wal, NoPending, Orders
<1>3. ASSUME NEW k \in Keys PROVE KeyInv(k)'
  BY <1>1, LocalSame, UnblockedEffect
     DEF RecoverClear, KeyInv, TickInv, FileTypes, TickTypes, Orders, Named, Wal, NoWal, NoPending
<1> QED BY <1>2, <1>3

LEMMA RecoverConflictKeeps == ASSUME WithinContract, LiveInv, RecoverConflict PROVE DaemonInv'
<1> USE DEF LiveInv, DaemonInv, TypingInv
<1>1. UNCHANGED sidecarVars BY DEF RecoverConflict
<1>2. TickInv'
  BY BlockedEffect DEF RecoverConflict, TickInv, TickTypes, FileTypes, NoWal, Wal, NoPending, Orders
<1>3. ASSUME NEW k \in Keys PROVE KeyInv(k)'
  BY <1>1, LocalSame, BlockedEffect
     DEF RecoverConflict, KeyInv, TickInv, FileTypes, TickTypes, Orders, Named, Wal, NoWal, NoPending
<1> QED BY <1>2, <1>3

LEMMA RecoverNotSubmittedKeeps == ASSUME WithinContract, LiveInv, RecoverNotSubmitted PROVE DaemonInv'
<1> USE DEF LiveInv, DaemonInv, TypingInv
<1>1. UNCHANGED sidecarVars BY DEF RecoverNotSubmitted, Recoverable
<1>2. TickInv'
  BY DEF RecoverNotSubmitted, Recoverable, TickInv, TickTypes, FileTypes, NoWal, Wal, NoPending, Orders
<1>3. ASSUME NEW k \in Keys PROVE KeyInv(k)'
  BY <1>1, LocalSame DEF RecoverNotSubmitted, Recoverable, KeyInv, TickInv, FileTypes, TickTypes, Orders,
     Named, Wal, NoWal, NoPending
<1> QED BY <1>2, <1>3

LEMMA RecoverReadyKeeps == ASSUME WithinContract, LiveInv, RecoverReady PROVE DaemonInv'
<1> USE DEF LiveInv, DaemonInv, TypingInv
<1>1. UNCHANGED sidecarVars BY DEF RecoverReady, Recoverable, BookedFor
<1>2. TickInv'
  BY DEF RecoverReady, Recoverable, BookedFor, TickInv, TickTypes, FileTypes, NoWal, Wal, NoPending, Orders
<1>3. ASSUME NEW k \in Keys PROVE KeyInv(k)'
  BY <1>1, LocalSame DEF RecoverReady, Recoverable, BookedFor, KeyInv, TickInv, FileTypes, TickTypes,
     Orders, Named, Wal, NoWal, NoPending
<1> QED BY <1>2, <1>3

LEMMA SubmittedKeeps == ASSUME WithinContract, LiveInv, Submitted PROVE DaemonInv'
<1> USE DEF LiveInv, DaemonInv, TypingInv
<1>1. UNCHANGED sidecarVars BY DEF Submitted, Answered, TrackedPending
<1>2. wal.key \in Keys BY DEF Submitted, Answered, FileTypes, TickInv, Orders
<1>3. ~reply[wal.key].partial => Stored(wal.key, reply[wal.key].ids)
  BY <1>2, S!SubmittedAnswer, AssumptionMeans DEF Submitted, Answered, Stored, S!ConstantsAssumption
<1>4. TickInv'
  BY <1>2 DEF Submitted, Answered, TrackedPending, TickInv, TickTypes, FileTypes, NoWal, Wal, NoPending,
     Orders
<1>5. ASSUME NEW k \in Keys PROVE KeyInv(k)'
  BY <1>1, LocalSame, <1>2, <1>3
     DEF Submitted, Answered, TrackedPending, KeyInv, TickInv, FileTypes, TickTypes, Orders, Named, Wal,
         NoWal, NoPending, Stored, sidecarVars
<1> QED BY <1>4, <1>5

LEMMA RejectedKeeps == ASSUME WithinContract, LiveInv, Rejected PROVE DaemonInv'
<1> USE DEF LiveInv, DaemonInv, TypingInv
<1>1. UNCHANGED sidecarVars BY DEF Rejected, Answered, NotSubmitted
<1>2. wal.key \in Keys BY DEF Rejected, Answered, TickInv, FileTypes, Orders
<1>3. reply[wal.key].kind = "failed"
  BY <1>2 DEF Rejected, Answered, S!ClientInv, S!NoBadRequest
<1>4. Definite(wal.key)
  BY <1>2, <1>3, S!FailedAnswer, AssumptionMeans, PredicatesMean DEF S!ConstantsAssumption
<1>5. TickInv'
  BY <1>2 DEF Rejected, Answered, NotSubmitted, TickInv, TickTypes, FileTypes, NoWal, Wal, NoPending, Orders
<1>6. ASSUME NEW k \in Keys PROVE KeyInv(k)'
  BY <1>1, LocalSame, <1>2, <1>4
     DEF Rejected, Answered, NotSubmitted, KeyInv, TickInv, FileTypes, TickTypes, Orders, Named, Wal,
         NoWal, NoPending, Definite
<1> QED BY <1>5, <1>6

LEMMA RetryCallKeeps == ASSUME WithinContract, LiveInv, RetryCall PROVE DaemonInv'
<1> USE DEF LiveInv, DaemonInv, TypingInv
<1>1. UNCHANGED sidecarVars BY DEF RetryCall, Answered
<1>2. TickInv' BY DEF RetryCall, Answered, TickInv, TickTypes, FileTypes, NoWal, Wal, NoPending, Orders
<1>3. ASSUME NEW k \in Keys PROVE KeyInv(k)'
  BY <1>1, LocalSame DEF RetryCall, Answered, KeyInv, TickInv, FileTypes, TickTypes, Orders, Named, Wal,
     NoWal, NoPending
<1> QED BY <1>2, <1>3

LEMMA CallTimesOutKeeps == ASSUME WithinContract, LiveInv, CallTimesOut PROVE DaemonInv'
<1> USE DEF LiveInv, DaemonInv, TypingInv
<1>1. UNCHANGED sidecarVars BY DEF CallTimesOut, GiveUp, NoVerdict, Answered, OutcomeUnknown, UnknownPending
<1>2. TickInv'
  BY BlockedEffect DEF CallTimesOut, GiveUp, NoVerdict, Answered, OutcomeUnknown, UnknownPending, TickInv,
     TickTypes, FileTypes, NoWal, Wal, NoPending, Orders
<1>3. ASSUME NEW k \in Keys PROVE KeyInv(k)'
  BY <1>1, LocalSame, BlockedEffect
     DEF CallTimesOut, GiveUp, NoVerdict, Answered, OutcomeUnknown, UnknownPending, KeyInv, TickInv,
         FileTypes, TickTypes, Orders, Named, Wal, NoWal, NoPending
<1> QED BY <1>2, <1>3

LEMMA ReleaseKeeps == ASSUME WithinContract, LiveInv, Release PROVE DaemonInv'
<1> USE DEF LiveInv, DaemonInv, TypingInv
<1>1. UNCHANGED sidecarVars BY DEF Release
<1>2. TickInv' BY DEF Release, TickInv, TickTypes, FileTypes, NoWal, Wal, NoPending, Orders
<1>3. ASSUME NEW k \in Keys PROVE KeyInv(k)'
  BY <1>1, LocalSame DEF Release, KeyInv, TickInv, FileTypes, TickTypes, Orders, Named, Wal, NoWal,
     NoPending, Definite
<1> QED BY <1>2, <1>3

LEMMA ForgetKeeps == ASSUME WithinContract, LiveInv, Forget PROVE DaemonInv'
<1> USE DEF LiveInv, DaemonInv, TypingInv
<1>1. UNCHANGED sidecarVars BY DEF Forget, UnknownPending, NoPending
<1>2. wal.disposition = "not-submitted" /\ wal.key # NoKey /\ resolved = NoKey
  BY DEF Forget, TickInv, NoWal
<1>3. TickInv'
  BY <1>2 DEF Forget, UnknownPending, NoPending, TickInv, TickTypes, FileTypes, NoWal, Wal, NoPending,
     Orders
<1>4. ASSUME NEW k \in Keys PROVE KeyInv(k)'
  BY <1>1, LocalSame DEF Forget, UnknownPending, NoPending, KeyInv, TickInv, FileTypes, TickTypes, Orders,
     Named, Wal, NoWal, NoPending, Definite
<1> QED BY <1>3, <1>4

LEMMA ClearWalKeeps == ASSUME WithinContract, LiveInv, ClearWal PROVE DaemonInv'
<1> USE DEF LiveInv, DaemonInv, TypingInv
<1>1. UNCHANGED sidecarVars BY DEF ClearWal
<1>2. TickInv' BY UnblockedEffect DEF ClearWal, TickInv, TickTypes, FileTypes, NoWal, Wal, NoPending, Orders
<1>3. ASSUME NEW k \in Keys PROVE KeyInv(k)'
  BY <1>1, LocalSame, UnblockedEffect
     DEF ClearWal, KeyInv, TickInv, FileTypes, TickTypes, Orders, Named, Wal, NoWal, NoPending, Definite
<1> QED BY <1>2, <1>3

LEMMA ResolveKeeps == ASSUME WithinContract, LiveInv, Resolve PROVE DaemonInv'
<1> USE DEF LiveInv, DaemonInv, TypingInv
<1>1. UNCHANGED sidecarVars BY DEF Resolve
<1>2. Resolution # "none" => pending.key \in Keys BY DEF Resolution, FileTypes, Orders
<1>3. Resolution \in {"none", "confirmed", "failed"} BY DEF Resolution
<1>4. ASSUME NEW k \in Keys, pending.key = k, Resolution # "none"
      PROVE  ~InFlight(k) /\ (Resolution = "failed" => Definite(k) /\ pending.ids # {})
  BY <1>4, ResolutionMeans
<1>5. TickInv' BY <1>2, <1>3 DEF Resolve, TickInv, TickTypes, FileTypes, NoWal, Wal, NoPending, Orders
<1>6. ASSUME NEW k \in Keys PROVE KeyInv(k)'
  BY <1>1, LocalSame, <1>2, <1>3, <1>4
     DEF Resolve, KeyInv, TickInv, FileTypes, TickTypes, Orders, Named, Wal, NoWal, NoPending
<1> QED BY <1>5, <1>6

LEMMA ResolveBlockedKeeps == ASSUME WithinContract, LiveInv, ResolveBlocked PROVE DaemonInv'
<1> USE DEF LiveInv, DaemonInv, TypingInv
<1>1. UNCHANGED sidecarVars BY DEF ResolveBlocked
<1>2. Resolution # "none" => pending.key \in Keys BY DEF Resolution, FileTypes, Orders
<1>3. Resolution \in {"none", "confirmed", "failed"} BY DEF Resolution
<1>4. ASSUME NEW k \in Keys, pending.key = k, Resolution # "none"
      PROVE  ~InFlight(k) /\ (Resolution = "failed" => Definite(k) /\ pending.ids # {})
  BY <1>4, ResolutionMeans
<1>5. Resolution = "failed" /\ wal.key \in Keys => Definite(wal.key)
  BY <1>2, <1>4, UntouchedIsDefinite DEF ResolveBlocked, TickInv, KeyInv, FileTypes, Orders
<1>6. TickInv'
  BY <1>2, <1>3 DEF ResolveBlocked, TickInv, TickTypes, FileTypes, NoWal, Wal, NoPending, Orders
<1>7. ASSUME NEW k \in Keys PROVE KeyInv(k)'
  BY <1>1, LocalSame, <1>2, <1>3, <1>4, <1>5
     DEF ResolveBlocked, KeyInv, TickInv, FileTypes, TickTypes, Orders, Named, Wal, NoWal, NoPending,
         Definite
<1> QED BY <1>6, <1>7

LEMMA ClearResolvedKeeps == ASSUME WithinContract, LiveInv, ClearResolved PROVE DaemonInv'
<1> USE DEF LiveInv, DaemonInv, TypingInv
<1>1. UNCHANGED sidecarVars BY DEF ClearResolved
<1>2. TickInv' BY DEF ClearResolved, TickInv, TickTypes, FileTypes, NoWal, Wal, NoPending, Orders
<1>3. ASSUME NEW k \in Keys PROVE KeyInv(k)'
  BY <1>1, LocalSame, UntouchedIsDefinite
     DEF ClearResolved, KeyInv, TickInv, FileTypes, TickTypes, Orders, Named, Wal, NoWal, NoPending,
         Definite
<1> QED BY <1>2, <1>3

LEMMA SettleKeeps == ASSUME WithinContract, LiveInv, Settle PROVE DaemonInv'
<1> USE DEF LiveInv, DaemonInv, TypingInv
<1>1. UNCHANGED sidecarVars BY DEF Settle, SettledFor
<1>2. TickInv' BY DEF Settle, SettledFor, TickInv, TickTypes, FileTypes, NoWal, Wal, NoPending, Orders
<1>3. ASSUME NEW k \in Keys PROVE KeyInv(k)'
  BY <1>1, LocalSame DEF Settle, SettledFor, KeyInv, TickInv, FileTypes, TickTypes, Orders, Named, Wal,
     NoWal, NoPending
<1> QED BY <1>2, <1>3

LEMMA ClearPendingKeeps == ASSUME WithinContract, LiveInv, ClearPending PROVE DaemonInv'
<1> USE DEF LiveInv, DaemonInv, TypingInv
<1>1. UNCHANGED sidecarVars BY DEF ClearPending
<1>2. TickInv' BY DEF ClearPending, TickInv, TickTypes, FileTypes, NoWal, Wal, NoPending, Orders
<1>3. ASSUME NEW k \in Keys PROVE KeyInv(k)'
  BY <1>1, LocalSame DEF ClearPending, KeyInv, TickInv, FileTypes, TickTypes, Orders, Named, Wal, NoWal,
     NoPending
<1> QED BY <1>2, <1>3

LEMMA SweepSignsKeeps == ASSUME WithinContract, LiveInv, SweepSigns PROVE DaemonInv'
<1> USE DEF LiveInv, DaemonInv, TypingInv
<1>1. UNCHANGED sidecarVars BY DEF SweepSigns, SignOrder, NoPendingInMemory
<1>2. wal'.key \in Keys /\ wal'.key # resolved /\ wal'.disposition = "ready"
  BY DEF SweepSigns, SignOrder, Wal, KeyInv
<1>3. TickInv'
  BY <1>2 DEF SweepSigns, SignOrder, NoPendingInMemory, TickInv, TickTypes, FileTypes, NoWal, Wal,
     NoPending, Orders
<1>4. ASSUME NEW k \in Keys PROVE KeyInv(k)'
  BY <1>1, LocalSame, UntouchedIsDefinite
     DEF SweepSigns, SignOrder, NoPendingInMemory, KeyInv, TickInv, FileTypes, TickTypes, Orders, Named,
         Wal, NoWal, NoPending, Definite
<1> QED BY <1>3, <1>4

LEMMA SweepSkipsKeeps == ASSUME WithinContract, LiveInv, SweepSkips PROVE DaemonInv'
<1> USE DEF LiveInv, DaemonInv, TypingInv
<1>1. UNCHANGED sidecarVars BY DEF SweepSkips
<1>2. TickInv' BY DEF SweepSkips, TickInv, TickTypes, FileTypes, NoWal, Wal, NoPending, Orders
<1>3. ASSUME NEW k \in Keys PROVE KeyInv(k)'
  BY <1>1, LocalSame DEF SweepSkips, KeyInv, TickInv, FileTypes, TickTypes, Orders, Named, Wal, NoWal,
     NoPending
<1> QED BY <1>2, <1>3

LEMMA GateKeeps == ASSUME WithinContract, LiveInv, Gate PROVE DaemonInv'
<1> USE DEF LiveInv, DaemonInv, TypingInv
<1>1. UNCHANGED sidecarVars BY DEF Gate
<1>2. Resolution # "none" => pending.key \in Keys BY DEF Resolution, FileTypes, Orders
<1>3. Resolution \in {"none", "confirmed", "failed"} BY DEF Resolution
<1>4. ASSUME NEW k \in Keys, pending.key = k, Resolution # "none"
      PROVE  ~InFlight(k) /\ (Resolution = "failed" => Definite(k) /\ pending.ids # {})
  BY <1>4, ResolutionMeans
<1>5. TickInv' BY <1>2, <1>3 DEF Gate, TickInv, TickTypes, FileTypes, NoWal, Wal, NoPending, Orders
<1>6. ASSUME NEW k \in Keys PROVE KeyInv(k)'
  BY <1>1, LocalSame, <1>2, <1>3, <1>4
     DEF Gate, KeyInv, TickInv, FileTypes, TickTypes, Orders, Named, Wal, NoWal, NoPending
<1> QED BY <1>5, <1>6

LEMMA HoldTradeKeeps == ASSUME WithinContract, LiveInv, HoldTrade PROVE DaemonInv'
<1> USE DEF LiveInv, DaemonInv, TypingInv
<1>1. UNCHANGED sidecarVars BY DEF HoldTrade
<1>2. TickInv' BY DEF HoldTrade, TickInv, TickTypes, FileTypes, NoWal, Wal, NoPending, Orders
<1>3. ASSUME NEW k \in Keys PROVE KeyInv(k)'
  BY <1>1, LocalSame DEF HoldTrade, KeyInv, TickInv, FileTypes, TickTypes, Orders, Named, Wal, NoWal,
     NoPending
<1> QED BY <1>2, <1>3

LEMMA CycleSignsKeeps == ASSUME WithinContract, LiveInv, CycleSigns PROVE DaemonInv'
<1> USE DEF LiveInv, DaemonInv, TypingInv
<1>1. UNCHANGED sidecarVars BY DEF CycleSigns, SignOrder
<1>2. TickInv' BY DEF CycleSigns, SignOrder, TickInv, TickTypes, FileTypes, NoWal, Wal, NoPending, Orders
<1>3. ASSUME NEW k \in Keys PROVE KeyInv(k)'
  BY <1>1, LocalSame, UntouchedIsDefinite
     DEF CycleSigns, SignOrder, KeyInv, TickInv, FileTypes, TickTypes, Orders, Named, Wal, NoWal,
         NoPending, Definite
<1> QED BY <1>2, <1>3

LEMMA ReserveKeeps == ASSUME WithinContract, LiveInv, Reserve PROVE DaemonInv'
<1> USE DEF LiveInv, DaemonInv, TypingInv
<1>1. UNCHANGED sidecarVars BY DEF Reserve, BookedFor
<1>2. TickInv' BY DEF Reserve, BookedFor, TickInv, TickTypes, FileTypes, NoWal, Wal, NoPending, Orders
<1>3. ASSUME NEW k \in Keys PROVE KeyInv(k)'
  BY <1>1, LocalSame DEF Reserve, BookedFor, KeyInv, TickInv, FileTypes, TickTypes, Orders, Named, Wal,
     NoWal, NoPending
<1> QED BY <1>2, <1>3

LEMMA ReserveRefusedKeeps == ASSUME WithinContract, LiveInv, ReserveRefused PROVE DaemonInv'
<1> USE DEF LiveInv, DaemonInv, TypingInv
<1>1. UNCHANGED sidecarVars BY DEF ReserveRefused
<1>2. TickInv' BY DEF ReserveRefused, TickInv, TickTypes, FileTypes, NoWal, Wal, NoPending, Orders
<1>3. ASSUME NEW k \in Keys PROVE KeyInv(k)'
  BY <1>1, LocalSame, UntouchedIsDefinite
     DEF ReserveRefused, KeyInv, TickInv, FileTypes, TickTypes, Orders, Named, Wal, NoWal, NoPending,
         Definite
<1> QED BY <1>2, <1>3

LEMMA NewOpenPassKeeps == ASSUME WithinContract, LiveInv, NewOpenPass PROVE DaemonInv'
<1> USE DEF LiveInv, DaemonInv, TypingInv
<1>1. UNCHANGED sidecarVars BY DEF NewOpenPass
<1>2. TickInv' BY DEF NewOpenPass, TickInv, TickTypes, FileTypes, NoWal, Wal, NoPending, Orders
<1>3. ASSUME NEW k \in Keys PROVE KeyInv(k)'
  BY <1>1, LocalSame DEF NewOpenPass, KeyInv, TickInv, FileTypes, TickTypes, Orders, Named, Wal, NoWal,
     NoPending
<1> QED BY <1>2, <1>3

LEMMA ClearAtOnceKeeps == ASSUME WithinContract, LiveInv, ClearAtOnce PROVE DaemonInv'
<1> USE DEF LiveInv, DaemonInv, TypingInv
<1>1. UNCHANGED sidecarVars BY DEF ClearAtOnce
<1>2. Resolution # "none" => pending.key \in Keys BY DEF Resolution, FileTypes, Orders
<1>3. Resolution \in {"none", "confirmed", "failed"} BY DEF Resolution
<1>4. ASSUME NEW k \in Keys, pending.key = k, Resolution # "none"
      PROVE  ~InFlight(k) /\ (Resolution = "failed" => Definite(k) /\ pending.ids # {})
  BY <1>4, ResolutionMeans
<1>5. TickInv' BY <1>2, <1>3 DEF ClearAtOnce, TickInv, TickTypes, FileTypes, NoWal, Wal, NoPending, Orders
<1>6. ASSUME NEW k \in Keys PROVE KeyInv(k)'
  BY <1>1, LocalSame, <1>2, <1>3, <1>4
     DEF ClearAtOnce, KeyInv, TickInv, FileTypes, TickTypes, Orders, Named, Wal, NoWal, NoPending
<1> QED BY <1>5, <1>6

LEMMA NotPolledKeeps == ASSUME WithinContract, LiveInv, NotPolled PROVE DaemonInv'
<1> USE DEF LiveInv, DaemonInv, TypingInv
<1>1. UNCHANGED sidecarVars BY DEF NotPolled
<1>2. TickInv' BY DEF NotPolled, TickInv, TickTypes, FileTypes, NoWal, Wal, NoPending, Orders
<1>3. ASSUME NEW k \in Keys PROVE KeyInv(k)'
  BY <1>1, LocalSame DEF NotPolled, KeyInv, TickInv, FileTypes, TickTypes, Orders, Named, Wal, NoWal,
     NoPending
<1> QED BY <1>2, <1>3

LEMMA SettleFillKeeps == ASSUME WithinContract, LiveInv, SettleFill PROVE DaemonInv'
<1> USE DEF LiveInv, DaemonInv, TypingInv
<1>1. UNCHANGED sidecarVars BY DEF SettleFill, SettledFor
<1>2. TickInv' BY DEF SettleFill, SettledFor, TickInv, TickTypes, FileTypes, NoWal, Wal, NoPending, Orders
<1>3. ASSUME NEW k \in Keys PROVE KeyInv(k)'
  BY <1>1, LocalSame DEF SettleFill, SettledFor, KeyInv, TickInv, FileTypes, TickTypes, Orders, Named, Wal,
     NoWal, NoPending
<1> QED BY <1>2, <1>3

LEMMA PostKeeps == ASSUME WithinContract, LiveInv, Post PROVE DaemonInv'
<1> USE DEF LiveInv, DaemonInv, TypingInv
<1>1. UNCHANGED sidecarVars BY DEF Post, SettledFor
<1>2. Resolution # "none" => pending.key \in Keys BY DEF Resolution, FileTypes, Orders
<1>3. Resolution \in {"none", "confirmed", "failed"} BY DEF Resolution
<1>4. ASSUME NEW k \in Keys, pending.key = k, Resolution # "none"
      PROVE  ~InFlight(k) /\ (Resolution = "failed" => Definite(k) /\ pending.ids # {})
  BY <1>4, ResolutionMeans
<1>5. TickInv'
  BY <1>2, <1>3 DEF Post, SettledFor, TickInv, TickTypes, FileTypes, NoWal, Wal, NoPending, Orders
<1>6. ASSUME NEW k \in Keys PROVE KeyInv(k)'
  BY <1>1, LocalSame, <1>2, <1>3, <1>4
     DEF Post, SettledFor, KeyInv, TickInv, FileTypes, TickTypes, Orders, Named, Wal, NoWal, NoPending
<1> QED BY <1>5, <1>6

LEMMA PersistKeeps == ASSUME WithinContract, LiveInv, Persist PROVE DaemonInv'
<1> USE DEF LiveInv, DaemonInv, TypingInv
<1>1. UNCHANGED sidecarVars BY DEF Persist
<1>2. TickInv' BY DEF Persist, TickInv, TickTypes, FileTypes, NoWal, Wal, NoPending, Orders
<1>3. ASSUME NEW k \in Keys PROVE KeyInv(k)'
  BY <1>1, LocalSame DEF Persist, KeyInv, TickInv, FileTypes, TickTypes, Orders, Named, Wal, NoWal,
     NoPending
<1> QED BY <1>2, <1>3

LEMMA CrashKeeps == ASSUME WithinContract, LiveInv, Crash PROVE DaemonInv'
<1> USE DEF LiveInv, DaemonInv, TypingInv
<1>1. UNCHANGED sidecarVars BY DEF Crash
<1>2. TickInv' BY DEF Crash, TickInv, TickTypes, FileTypes, NoWal, Wal, NoPending, Orders
<1>3. ASSUME NEW k \in Keys PROVE KeyInv(k)'
  BY <1>1, LocalSame DEF Crash, KeyInv, TickInv, FileTypes, TickTypes, Orders, Named, Wal, NoWal, NoPending
<1> QED BY <1>2, <1>3

LEMMA CallKeeps == ASSUME WithinContract, LiveInv, Call PROVE DaemonInv'
<1> USE DEF LiveInv, DaemonInv, TypingInv
<1>1. wal.key \in Keys BY DEF Call, FileTypes, Orders
<1>2. TickInv' BY DEF Call, TickInv
<1>3. ASSUME NEW k \in Keys \ {wal.key} PROVE KeyInv(k)'
  <2>1. Kept(k) BY <1>1, CallCalm, CalmKeeps
  <2> QED BY <2>1 DEF Kept, Call, KeyInv, Named, Definite, Executed
<1>4. KeyInv(wal.key)' BY <1>1 DEF Call, KeyInv, TickInv, Named, Wal, FileTypes
<1> QED BY <1>1, <1>2, <1>3, <1>4 DEF Call

LEMMA EnvironmentKeeps == ASSUME WithinContract, LiveInv, Environment PROVE DaemonInv'
<1> USE DEF LiveInv, DaemonInv, TypingInv
<1>1. TickInv' BY DEF Environment, tickVars, TickInv
<1>2. ASSUME NEW k \in Keys PROVE KeyInv(k)'
  <2>1. Kept(k) BY EnvironmentCalm, CalmKeeps
  <2> QED BY <2>1 DEF Kept, Environment, tickVars, KeyInv, Named
<1> QED BY <1>1, <1>2

LEMMA LiveInit == ASSUME Init PROVE LiveInv
<1> USE AssumptionMeans DEF S!ConstantsAssumption
<1>1. S!ClientInv /\ S!TypeInv BY InitMeans, S!ClientInit, S!TypeInit DEF Init
<1>2. FileTypes /\ TickTypes
  BY DEF Init, FileTypes, TickTypes, NoWal, NoPending, Orders, Places, Stages
<1>3. TickInv BY DEF Init, TickInv, NoWal, NoPending
<1>4. ASSUME NEW k \in Keys PROVE KeyInv(k)
  <2>1. Untouched(k) 
    BY DEF Init, Sidecar!Init, Untouched, Sidecar!AbsentRecord, Sidecar!Record, Sidecar!NoReply, Sidecar!Reply
  <2>2. ~InFlight(k) BY <1>1, <2>1, UntouchedIsDefinite DEF Definite
  <2> QED BY <2>1, <2>2 DEF Init, KeyInv, NoWal, NoPending
<1> QED BY <1>1, <1>2, <1>3, <1>4 DEF Init, LiveInv, TypingInv, DaemonInv

LEMMA LiveStep == ASSUME WithinContract, LiveInv, [Next]_vars PROVE LiveInv'
<1>1. TypingInv' BY TypingStep DEF LiveInv
<1>2. S!ClientInv'
  BY SidecarNext, S!ClientStep, TimeoutsMean, AssumptionMeans DEF LiveInv, S!ConstantsAssumption
<1>3. ~FetchFails BY DEF WithinContract, FetchFails, GiveUp
<1>4. ASSUME UNCHANGED vars PROVE DaemonInv'
  <2>1. UNCHANGED sidecarVars BY <1>4 DEF vars
  <2>2. TickInv' BY <1>4 DEF LiveInv, DaemonInv, vars, fileVars, tickVars, TickInv
  <2>3. ASSUME NEW k \in Keys PROVE KeyInv(k)'
    BY <1>4, <2>1, LocalSame DEF LiveInv, DaemonInv, vars, fileVars, orderVars, tickVars, KeyInv, Named
  <2> QED BY <2>2, <2>3 DEF DaemonInv
<1>5. ASSUME Next PROVE DaemonInv'
  BY <1>3, <1>5, StartTickKeeps, RecoverClearKeeps, RecoverConflictKeeps, RecoverNotSubmittedKeeps,
     RecoverReadyKeeps, CallKeeps, SubmittedKeeps, RejectedKeeps, RetryCallKeeps, ReleaseKeeps, ForgetKeeps,
     ClearWalKeeps, ResolveKeeps, ResolveBlockedKeeps, ClearResolvedKeeps, SettleKeeps, ClearPendingKeeps,
     SweepSignsKeeps, SweepSkipsKeeps, GateKeeps, HoldTradeKeeps, CycleSignsKeeps, ReserveKeeps,
     ReserveRefusedKeeps, NewOpenPassKeeps, ClearAtOnceKeeps, NotPolledKeeps, SettleFillKeeps, PostKeeps,
     PersistKeeps, CallTimesOutKeeps, CrashKeeps, EnvironmentKeeps DEF Next, Tick
<1> QED BY <1>1, <1>2, <1>4, <1>5 DEF LiveInv

-----------------------------------------------------------------------------
(* Theorems.                                                               *)

(***************************************************************************)
(* Every file, every place of the tick and every record of the sidecar     *)
(* stays of its type, whatever fails.                                      *)
(***************************************************************************)
THEOREM LiveTyping == Spec => []TypeOK
<1>1. Init => TypingInv BY LiveInit DEF LiveInv
<1>2. TypingInv /\ [Next]_vars => TypingInv' BY TypingStep
<1>3. TypingInv => TypeOK BY TypesMean DEF TypingInv, FileTypes, TickTypes, TypeOK
<1> QED BY <1>1, <1>2, <1>3, PTL DEF Spec

(***************************************************************************)
(* Composed with the daemon, the sidecar does nothing its own module does  *)
(* not allow: the theorems of SolanaExecution_proofs hold of it here.      *)
(***************************************************************************)
THEOREM SidecarAsSpecified == Spec => S!Init /\ [][S!Next]_(S!vars)
<1>1. Init => S!Init /\ TypingInv BY InitMeans, LiveInit DEF Init, LiveInv
<1>2. TypingInv /\ [Next]_vars => TypingInv' BY TypingStep
<1>3. TypingInv /\ [Next]_vars => [S!Next]_(S!vars) BY SidecarNext
<1> QED BY <1>1, <1>2, <1>3, PTL DEF Spec

LEMMA LiveAlways == ASSUME WithinContract PROVE Spec => []LiveInv
<1>1. Init => LiveInv BY LiveInit
<1>2. LiveInv /\ [Next]_vars => LiveInv' BY LiveStep
<1> QED BY <1>1, <1>2, PTL DEF Spec

(***************************************************************************)
(* An order that may still execute is named by a durable file in every     *)
(* state, so also in the one that a crash leaves behind.                   *)
(***************************************************************************)
THEOREM NeverLost == ASSUME WithinContract PROVE Spec => []InFlightIsNamed
<1>1. LiveInv => InFlightIsNamed BY DEF LiveInv, DaemonInv, KeyInv, InFlightIsNamed
<1> QED BY <1>1, LiveAlways, PTL

(***************************************************************************)
(* Two orders are never on their way at once.  Both would be named, one by *)
(* the WAL and one by the pending file; but the WAL of another order than  *)
(* the pending one has not been sent.                                      *)
(***************************************************************************)
THEOREM OneAtATime == ASSUME WithinContract PROVE Spec => []OneOrderInFlight
<1>1. LiveInv => OneOrderInFlight
  <2> SUFFICES ASSUME LiveInv, NEW j \in Keys, NEW k \in Keys, InFlight(j), InFlight(k), j # k
               PROVE  FALSE
    BY DEF OneOrderInFlight
  <2>1. KeyInv(j) /\ KeyInv(k) BY DEF LiveInv, DaemonInv
  <2>2. ~Untouched(j) /\ ~Untouched(k) BY UntouchedIsDefinite DEF LiveInv, TypingInv, Definite
  <2>3. (wal.key = j /\ pending.key = k) \/ (wal.key = k /\ pending.key = j)
    BY <2>1 DEF KeyInv, Named, Wal
  <2> QED BY <2>1, <2>2, <2>3 DEF KeyInv
<1> QED BY <1>1, LiveAlways, PTL

(***************************************************************************)
(* An order recorded as not submitted has sent nothing and never will.     *)
(* With fetch-failed among the transport errors TLC refutes this           *)
(* (live_fetch_failed).                                                    *)
(***************************************************************************)
THEOREM RejectionIsDefinite == ASSUME WithinContract PROVE Spec => []NotSubmittedIsDefinite
<1>1. LiveInv => NotSubmittedIsDefinite
  <2> SUFFICES ASSUME LiveInv, wal.disposition = "not-submitted" PROVE Definite(wal.key)
    BY DEF NotSubmittedIsDefinite, Definite, InFlight, Executed
  <2>1. wal.key \in Keys BY DEF LiveInv, TypingInv, FileTypes, DaemonInv, TickInv, NoWal, Orders
  <2> QED BY <2>1 DEF LiveInv, DaemonInv, KeyInv
<1> QED BY <1>1, LiveAlways, PTL

-----------------------------------------------------------------------------
(* The files, the sidecar and the chain implement OrderContract.           *)

State(k) == IF k \notin signed THEN "new" ELSE IF Named(k) THEN "open" ELSE "closed"
Booked(k) == k \in risk => spend[k] # "none"

LEMMA LandingsStay ==
  ASSUME NEW k \in Keys, S!Still(k), OrderTx(k)' = OrderTx(k) PROVE Landings(k)' = Landings(k)
<1> DEFINE landed == {b \in 1..MaxBuilds : \E t \in OrderTx(k) : t[1] = b /\ chain[k][t] = "landed"}
<1>1. \A t \in OrderTx(k) : chain'[k][t] = "landed" <=> chain[k][t] = "landed"
  BY PredicatesMean DEF S!Still
<1>2. landed' = landed BY <1>1
<1>3. Landings(k) = Cardinality(landed) BY DEF Landings
<1>4. Landings(k)' = Cardinality(landed') BY DEF Landings
<1> QED BY <1>2, <1>3, <1>4

LEMMA LandingsNone == ASSUME NEW k \in Keys, ~Executed(k) PROVE Landings(k) = 0
<1>1. {b \in 1..MaxBuilds : \E t \in OrderTx(k) : t[1] = b /\ chain[k][t] = "landed"} = {}
  BY DEF Executed
<1> QED BY <1>1, FS_EmptySet DEF Landings

LEMMA LandingsFirst ==
  ASSUME NEW k \in Keys, OrderTx(k)' = OrderTx(k),
         NEW t \in OrderTx(k), \A u \in OrderTx(k) : chain'[k][u] = "landed" <=> u = t
  PROVE  Landings(k)' = 1
<1>1. t[1] \in 1..MaxBuilds BY DEF OrderTx, Sidecar!Tx
<1> DEFINE landed == {b \in 1..MaxBuilds : \E u \in OrderTx(k) : u[1] = b /\ chain[k][u] = "landed"}
<1>2. landed' = {t[1]} BY <1>1
<1>3. Landings(k)' = Cardinality(landed') BY DEF Landings
<1> QED BY <1>2, <1>3, FS_Singleton

\* What a step of the daemon does to an order.
Alike(k) == State(k)' = State(k) /\ (Booked(k)' <=> Booked(k))
Change(k) ==
  \/ State(k) = "new" /\ State(k)' = "open" /\ Booked(k)
  \/ State(k) = "open" /\ State(k)' = "open" /\ Booked(k)'
  \/ State(k) # "new" /\ State(k)' = State(k) /\ ~Executed(k) /\ ~Booked(k)'
  \/ State(k) = "open" /\ State(k)' = "closed" /\ (Booked(k)' <=> Booked(k))

LEMMA MapSame ==
  ASSUME \A k \in Keys : Alike(k) /\ Landings(k)' = Landings(k)
  PROVE  UNCHANGED Contract!contractVars
BY DEF Contract!contractVars, Alike, State, Booked

LEMMA LandingsLocal == ASSUME UNCHANGED sidecarVars, NEW k PROVE Landings(k)' = Landings(k)
BY DEF sidecarVars, Landings, OrderTx, Sidecar!LegsOf, Sidecar!IsSwap

\* A step of the daemon that changes one order.
LEMMA MapStep ==
  ASSUME UNCHANGED sidecarVars, NEW w \in Keys, Alike(w) \/ Change(w), \A k \in Keys \ {w} : Alike(k)
  PROVE  [Contract!ContractNext]_(Contract!contractVars)
<1> DEFINE state == [k \in Keys |-> State(k)]
           executions == [k \in Keys |-> Landings(k)]
           held == {k \in Keys : Booked(k)}
<1>1. CASE Alike(w)
  BY <1>1, LandingsLocal, MapSame
<1>2. executions' = executions BY LandingsLocal
<1>3. CASE Change(w)
  <2>1. \A k \in Keys \ {w} : State(k)' = State(k) /\ (Booked(k)' <=> Booked(k)) BY DEF Alike
  <2>2. CASE State(w) = "new" /\ State(w)' = "open" /\ Booked(w)
    <3>1. state[w] = "new" /\ state' = [state EXCEPT ![w] = "open"] BY <2>1, <2>2
    <3>2. held' \in {held, held \ {w}} BY <2>1, <2>2
    <3>3. Contract!Sign(w) BY <1>2, <3>1, <3>2 DEF Contract!Sign, State, Booked
    <3> QED BY <3>3 DEF Contract!ContractNext
  <2>3. CASE State(w) = "open" /\ State(w)' = "open" /\ Booked(w)'
    <3>1. state[w] = "open" /\ state' = state BY <2>1, <2>3
    <3>2. held' = held \cup {w} BY <2>1, <2>3
    <3>3. Contract!Hold(w) BY <1>2, <3>1, <3>2 DEF Contract!Hold, State, Booked
    <3> QED BY <3>3 DEF Contract!ContractNext
  <2>4. CASE State(w) # "new" /\ State(w)' = State(w) /\ ~Executed(w) /\ ~Booked(w)'
    <3>1. state[w] # "new" /\ state' = state BY <2>1, <2>4
    <3>2. held' = held \ {w} BY <2>1, <2>4
    <3>3. executions[w] = 0 BY <2>4, LandingsNone
    <3>4. Contract!Free(w) BY <1>2, <3>1, <3>2, <3>3 DEF Contract!Free, State, Booked
    <3> QED BY <3>4 DEF Contract!ContractNext
  <2>5. CASE State(w) = "open" /\ State(w)' = "closed" /\ (Booked(w)' <=> Booked(w))
    <3>1. state[w] = "open" /\ state' = [state EXCEPT ![w] = "closed"] BY <2>1, <2>5
    <3>2. held' = held BY <2>1, <2>5
    <3>3. Contract!Close(w) BY <1>2, <3>1, <3>2 DEF Contract!Close, State, Booked
    <3> QED BY <3>3 DEF Contract!ContractNext
  <2> QED BY <1>3, <2>2, <2>3, <2>4, <2>5 DEF Change
<1> QED BY <1>1, <1>3

\* A step of the sidecar, of the network or a request.
LEMMA MapRemote ==
  ASSUME WithinContract, LiveInv, Call \/ Environment
  PROVE  [Contract!ContractNext]_(Contract!contractVars)
<1> USE AssumptionMeans DEF S!ConstantsAssumption
<1> DEFINE executions == [k \in Keys |-> Landings(k)]
<1>1. [S!Next]_(S!vars) BY SidecarNext DEF LiveInv, Next, Tick
<1>2. \A k \in Keys : Alike(k) /\ UNCHANGED <<State(k), Booked(k)>>
  BY DEF Call, Environment, Alike, State, Named, Booked
<1>3. \A k \in Keys : OrderTx(k)' = OrderTx(k)
  BY <1>1, S!SidesStay DEF LiveInv, TypingInv, OrderTx, Sidecar!LegsOf, Sidecar!IsSwap
<1>4. CASE \A k \in Keys : S!Still(k) BY <1>2, <1>3, <1>4, LandingsStay, MapSame
<1>5. ASSUME NEW k \in Keys, S!Executes(k), \A j \in Keys \ {k} : S!Still(j)
      PROVE  Contract!Execute(k)
  <2>1. InFlight(k) /\ ~Executed(k) /\ S!OrderTx(k) = OrderTx(k)
    BY <1>5, PredicatesMean DEF S!Executes, Executed
  <2>2. k \in signed /\ Named(k) /\ Booked(k)
    BY <2>1, UntouchedIsDefinite DEF LiveInv, TypingInv, DaemonInv, KeyInv, Definite, Booked
  <2>3. Landings(k) = 0 /\ Landings(k)' = 1
    BY <1>3, <1>5, <2>1, LandingsNone, LandingsFirst DEF S!Executes
  <2>4. executions' = [executions EXCEPT ![k] = 1] BY <1>3, <1>5, <2>3, LandingsStay
  <2> QED BY <1>2, <2>2, <2>3, <2>4 DEF Contract!Execute, State, Booked
<1>6. CASE \E k \in Keys : S!Executes(k) /\ \A j \in Keys \ {k} : S!Still(j)
  BY <1>5, <1>6 DEF Contract!ContractNext
<1> QED BY <1>1, <1>4, <1>6, S!LandingStep, TimeoutsMean DEF LiveInv, WithinContract

\* A step of the daemon changes at most one order.
LEMMA MapTick ==
  ASSUME WithinContract, LiveInv, [Next]_vars, UNCHANGED sidecarVars
  PROVE  [Contract!ContractNext]_(Contract!contractVars)
<1> DEFINE Mapped == [Contract!ContractNext]_(Contract!contractVars)
<1> USE DEF LiveInv, DaemonInv, TypingInv, FileTypes, TickTypes, TickInv, Orders, Alike, State, Booked, Named,
            Wal, NoWal, NoPending
<1>1. \A k \in Keys : Alike(k) => Landings(k)' = Landings(k) BY LandingsLocal
<1>2. ASSUME \A k \in Keys : Alike(k) PROVE Mapped BY <1>1, <1>2, MapSame
<1>3. ASSUME NEW w \in Keys, Alike(w) \/ Change(w), \A k \in Keys \ {w} : Alike(k) PROVE Mapped
  BY <1>3, MapStep
<1> HIDE DEF Mapped
<1>4. ASSUME UNCHANGED <<fileVars, orderVars>> PROVE Mapped BY <1>2, <1>4
<1>5. ASSUME RecoverReady PROVE Mapped
  <2>1. PICK w \in Keys : w = wal.key BY <1>5 DEF RecoverReady, Recoverable, BookedFor
  <2>2. Alike(w) \/ Change(w) BY <1>5, <2>1 DEF RecoverReady, Recoverable, BookedFor, Change, KeyInv
  <2>3. \A k \in Keys \ {w} : Alike(k) BY <1>5, <2>1 DEF RecoverReady, Recoverable, BookedFor
  <2> QED BY <2>1, <2>2, <2>3, <1>3
<1>6. ASSUME Submitted PROVE Mapped
  <2>1. PICK w \in Keys : w = wal.key BY <1>6 DEF Submitted, Answered, TrackedPending
  <2>2. Alike(w) \/ Change(w) BY <1>6, <2>1 DEF Submitted, Answered, TrackedPending, Change, KeyInv
  <2>3. \A k \in Keys \ {w} : Alike(k) BY <1>6, <2>1 DEF Submitted, Answered, TrackedPending
  <2> QED BY <2>1, <2>2, <2>3, <1>3
<1>7. ASSUME Rejected PROVE Mapped
  <2>1. PICK w \in Keys : w = wal.key BY <1>7 DEF Rejected, Answered, NotSubmitted
  <2>2. Alike(w) \/ Change(w) BY <1>7, <2>1 DEF Rejected, Answered, NotSubmitted, Change, KeyInv
  <2>3. \A k \in Keys \ {w} : Alike(k) BY <1>7, <2>1 DEF Rejected, Answered, NotSubmitted
  <2> QED BY <2>1, <2>2, <2>3, <1>3
<1>8. ASSUME Release PROVE Mapped
  <2>1. PICK w \in Keys : w = wal.key BY <1>8 DEF Release
  <2>2. Alike(w) \/ Change(w) BY <1>8, <2>1 DEF Release, Change, KeyInv, Definite
  <2>3. \A k \in Keys \ {w} : Alike(k) BY <1>8, <2>1 DEF Release
  <2> QED BY <2>1, <2>2, <2>3, <1>3
<1>9. ASSUME Forget PROVE Mapped
  <2>1. PICK w \in Keys : w = wal.key BY <1>9 DEF Forget, UnknownPending
  <2>2. Alike(w) \/ Change(w) BY <1>9, <2>1 DEF Forget, UnknownPending, Change, KeyInv
  <2>3. \A k \in Keys \ {w} : Alike(k) BY <1>9, <2>1 DEF Forget, UnknownPending
  <2> QED BY <2>1, <2>2, <2>3, <1>3
<1>10. ASSUME ClearWal PROVE Mapped
  <2>1. PICK w \in Keys : w = wal.key BY <1>10 DEF ClearWal
  <2>2. Alike(w) \/ Change(w) BY <1>10, <2>1 DEF ClearWal, Change, KeyInv
  <2>3. \A k \in Keys \ {w} : Alike(k) BY <1>10, <2>1 DEF ClearWal
  <2> QED BY <2>1, <2>2, <2>3, <1>3
<1>11. ASSUME ResolveBlocked PROVE Mapped
  <2>1. PICK w \in Keys : w = wal.key BY <1>11 DEF ResolveBlocked
  <2>2. Alike(w) \/ Change(w) BY <1>11, <2>1 DEF ResolveBlocked, Change, KeyInv
  <2>3. \A k \in Keys \ {w} : Alike(k) BY <1>11, <2>1 DEF ResolveBlocked
  <2> QED BY <2>1, <2>2, <2>3, <1>3
<1>12. ASSUME ClearResolved PROVE Mapped
  <2>1. PICK w \in Keys : w = wal.key BY <1>12 DEF ClearResolved
  <2>2. Alike(w) \/ Change(w) BY <1>12, <2>1 DEF ClearResolved, Change, KeyInv
  <2>3. \A k \in Keys \ {w} : Alike(k) BY <1>12, <2>1 DEF ClearResolved
  <2> QED BY <2>1, <2>2, <2>3, <1>3
<1>13. ASSUME Settle PROVE Mapped
  <2>1. PICK w \in Keys : w = resolved BY <1>13 DEF Settle, SettledFor
  <2>2. Alike(w) \/ Change(w) BY <1>13, <2>1 DEF Settle, SettledFor, Change, KeyInv, Definite
  <2>3. \A k \in Keys \ {w} : Alike(k) BY <1>13, <2>1 DEF Settle, SettledFor
  <2> QED BY <2>1, <2>2, <2>3, <1>3
<1>14. ASSUME ClearPending PROVE Mapped
  <2>1. PICK w \in Keys : w = pending.key BY <1>14 DEF ClearPending
  <2>2. Alike(w) \/ Change(w) BY <1>14, <2>1 DEF ClearPending, Change, KeyInv
  <2>3. \A k \in Keys \ {w} : Alike(k) BY <1>14, <2>1 DEF ClearPending
  <2> QED BY <2>1, <2>2, <2>3, <1>3
<1>15. ASSUME Reserve PROVE Mapped
  <2>1. PICK w \in Keys : w = wal.key BY <1>15 DEF Reserve, BookedFor
  <2>2. Alike(w) \/ Change(w) BY <1>15, <2>1 DEF Reserve, BookedFor, Change, KeyInv
  <2>3. \A k \in Keys \ {w} : Alike(k) BY <1>15, <2>1 DEF Reserve, BookedFor
  <2> QED BY <2>1, <2>2, <2>3, <1>3
<1>16. ASSUME ReserveRefused PROVE Mapped
  <2>1. PICK w \in Keys : w = wal.key BY <1>16 DEF ReserveRefused
  <2>2. Alike(w) \/ Change(w) BY <1>16, <2>1 DEF ReserveRefused, Change, KeyInv
  <2>3. \A k \in Keys \ {w} : Alike(k) BY <1>16, <2>1 DEF ReserveRefused
  <2> QED BY <2>1, <2>2, <2>3, <1>3
<1>17. ASSUME ClearAtOnce PROVE Mapped
  <2>1. PICK w \in Keys : w = pending.key BY <1>17, ResolutionTyped DEF ClearAtOnce
  <2>2. Alike(w) \/ Change(w) BY <1>17, <2>1 DEF ClearAtOnce, Change, KeyInv
  <2>3. \A k \in Keys \ {w} : Alike(k) BY <1>17, <2>1 DEF ClearAtOnce
  <2> QED BY <2>1, <2>2, <2>3, <1>3
<1>18. ASSUME SettleFill PROVE Mapped
  <2>1. PICK w \in Keys : w = resolved BY <1>18 DEF SettleFill, SettledFor
  <2>2. Alike(w) \/ Change(w) BY <1>18, <2>1 DEF SettleFill, SettledFor, Change, KeyInv
  <2>3. \A k \in Keys \ {w} : Alike(k) BY <1>18, <2>1 DEF SettleFill, SettledFor
  <2> QED BY <2>1, <2>2, <2>3, <1>3
<1>19. ASSUME CallTimesOut PROVE Mapped
  <2>1. PICK w \in Keys : w = wal.key
    BY <1>19 DEF CallTimesOut, GiveUp, NoVerdict, Answered, OutcomeUnknown, UnknownPending
  <2>2. Alike(w) \/ Change(w)
    BY <1>19, <2>1 DEF CallTimesOut, GiveUp, NoVerdict, Answered, OutcomeUnknown, UnknownPending, Change,
       KeyInv
  <2>3. \A k \in Keys \ {w} : Alike(k)
    BY <1>19, <2>1 DEF CallTimesOut, GiveUp, NoVerdict, Answered, OutcomeUnknown, UnknownPending
  <2> QED BY <2>1, <2>2, <2>3, <1>3
<1>20. ASSUME SweepSigns PROVE Mapped
  <2>1. PICK k \in Keys, isRisk \in BOOLEAN : SignOrder(k, isRisk) BY <1>20 DEF SweepSigns
  <2>2. Alike(k) \/ Change(k) BY <2>1 DEF SignOrder, Change, KeyInv
  <2>3. \A j \in Keys \ {k} : Alike(j) BY <2>1 DEF SignOrder
  <2> QED BY <2>2, <2>3, <1>3
<1>21. ASSUME CycleSigns PROVE Mapped
  <2>1. PICK k \in Keys, isRisk \in BOOLEAN : SignOrder(k, isRisk) BY <1>21 DEF CycleSigns
  <2>2. Alike(k) \/ Change(k) BY <2>1 DEF SignOrder, Change, KeyInv
  <2>3. \A j \in Keys \ {k} : Alike(j) BY <2>1 DEF SignOrder
  <2> QED BY <2>2, <2>3, <1>3
<1>22. ASSUME Gate PROVE Mapped
  <2>1. CASE UNCHANGED pending BY <1>22, <2>1, <1>4 DEF Gate
  <2>2. CASE pending.key \in Keys /\ pending' = NoPending
    <3>1. PICK w \in Keys : w = pending.key BY <2>2
    <3>2. Alike(w) \/ Change(w) BY <1>22, <2>2, <3>1 DEF Gate, Change, KeyInv
    <3>3. \A k \in Keys \ {w} : Alike(k) BY <1>22, <2>2, <3>1 DEF Gate
    <3> QED BY <3>2, <3>3, <1>3
  <2> QED BY <1>22, <2>1, <2>2, ResolutionTyped DEF Gate
<1>23. ASSUME Persist PROVE Mapped
  <2>1. CASE resolved \in Keys
    <3>1. PICK w \in Keys : w = resolved BY <2>1
    <3>2. Alike(w) \/ Change(w) BY <1>23, <3>1 DEF Persist, Change, KeyInv
    <3>3. \A k \in Keys \ {w} : Alike(k) BY <1>23, <3>1 DEF Persist
    <3> QED BY <3>2, <3>3, <1>3
  <2>2. CASE resolved = NoKey BY <1>23, <2>2, <1>2 DEF Persist
  <2> QED BY <2>1, <2>2
<1>24. ASSUME Post PROVE Mapped
  <2>1. \A k \in Keys : Alike(k) BY <1>24 DEF Post, SettledFor
  <2> QED BY <2>1, <1>2
<1>25. ASSUME \/ StartTick \/ RecoverClear \/ RecoverConflict \/ RecoverNotSubmitted \/ RetryCall \/ Resolve
             \/ SweepSkips \/ HoldTrade \/ NewOpenPass \/ NotPolled \/ Crash
       PROVE  Mapped
  BY <1>25, <1>4 DEF StartTick, RecoverClear, RecoverConflict, RecoverNotSubmitted, RetryCall, Resolve,
     SweepSkips, HoldTrade, NewOpenPass, NotPolled, Crash, Recoverable, Unblocked, Blocked, Answered
<1>26. ASSUME UNCHANGED vars PROVE Mapped BY <1>26, <1>4 DEF vars
<1>27. ASSUME Call \/ Environment PROVE Mapped BY <1>27, MapRemote DEF Mapped
<1>28. ~FetchFails BY DEF WithinContract, FetchFails, GiveUp
<1> QED
  BY <1>5, <1>6, <1>7, <1>8, <1>9, <1>10, <1>11, <1>12, <1>13, <1>14, <1>15, <1>16, <1>17, <1>18, <1>19,
     <1>20, <1>21, <1>22, <1>23, <1>24, <1>25, <1>26, <1>27, <1>28 DEF Next, Tick, Mapped

(***************************************************************************)
(* The order path implements OrderContract: from its signature until it is *)
(* given up or accounted for an order is open; it is executed at most      *)
(* once, while it is open, and, if it puts capital at risk, only while     *)
(* that capital is booked.                                                 *)
(***************************************************************************)
THEOREM ContractKept == ASSUME WithinContract PROVE Spec => KeepsContract
<1>1. Init => Contract!ContractInit
  <2> SUFFICES ASSUME Init PROVE Contract!ContractInit OBVIOUS
  <2>1. LiveInv BY LiveInit
  <2>2. \A k \in Keys : Landings(k) = 0
    BY <2>1, UntouchedIsDefinite, LandingsNone
       DEF Init, LiveInv, TypingInv, DaemonInv, KeyInv, Definite
  <2> QED BY <2>2 DEF Init, Contract!ContractInit
<1>2. LiveInv /\ [Next]_vars => [Contract!ContractNext]_(Contract!contractVars)
  <2>1. ASSUME LiveInv, Call \/ Environment PROVE [Contract!ContractNext]_(Contract!contractVars)
    BY <2>1, MapRemote
  <2>2. ASSUME LiveInv, [Next]_vars, UNCHANGED sidecarVars
        PROVE  [Contract!ContractNext]_(Contract!contractVars)
    BY <2>2, MapTick
  <2>3. Crash \/ UNCHANGED vars => UNCHANGED sidecarVars BY DEF Crash, vars
  <2> QED BY <2>1, <2>2, <2>3, Quiet DEF Next
<1>3. Spec => Contract!ContractInit /\ [][Contract!ContractNext]_(Contract!contractVars)
  BY <1>1, <1>2, LiveAlways, PTL DEF Spec
<1> QED BY <1>3 DEF KeepsContract, Contract!ContractSpec
=============================================================================
