-------------------------- MODULE SolanaFaults_proofs --------------------------
(***************************************************************************)
(* What holds of the sidecar whatever fails, and of the chain of swap      *)
(* providers it asks.                                                      *)
(*                                                                         *)
(* The harsh world of MCSolanaFaults is the sidecar under every fault: H   *)
(* is what SolanaExecution_proofs shows of it.                             *)
(*                                                                         *)
(* For the swaps the inductive invariant follows one call along the chain: *)
(* until it sends, everything it sent before has been refused; while it    *)
(* sends, only the current provider's transaction can be out; and once it  *)
(* has sent it moves on only after a definite refusal.                     *)
(***************************************************************************)
EXTENDS MCSolanaFaults, SolanaExecution_proofs, Sums_proofs, Sequences

H == INSTANCE SolanaExecution_proofs WITH
  Faults <- AllFaults, MaxInstances <- MaxInstances - 1,
  side <- h_side, instance <- h_instance, store <- h_store, builds <- h_builds,
  chain <- h_chain, queued <- h_queued, handler <- h_handler, reply <- h_reply

LEMMA HarshAssumption == H!ConstantsAssumption
BY ConstantsAssumption, WorldAssumption DEF H!ConstantsAssumption, AllFaults, SideKinds, FaultKinds,
   H!SideKinds, H!FaultKinds

LEMMA HarshServes == ASSUME NEW k \in Keys, Harsh!Serve(k) PROVE H!Serve(k)
<1> USE DEF Harsh!At, H!At, Harsh!Goto, H!Goto, Harsh!Answer, H!Answer, Harsh!Record,
            H!Record, Harsh!Work, H!Work, Harsh!Idle, H!Idle, Harsh!Reply, H!Reply,
            Harsh!IsSwap, H!IsSwap, Harsh!IsExit, H!IsExit, Harsh!SweepLeg, H!SweepLeg,
            Harsh!Current, H!Current, Harsh!MayHit, H!MayHit
<1>1. Harsh!ReserveNew(k) => H!ReserveNew(k)
  BY DEF Harsh!ReserveNew, H!ReserveNew, Harsh!Lockable, H!Lockable, Harsh!Reservation, H!Reservation
<1>2. Harsh!TakeOver(k) => H!TakeOver(k)
  BY DEF Harsh!TakeOver, H!TakeOver, Harsh!Lockable, H!Lockable
<1>3. Harsh!AnswerPending(k) => H!AnswerPending(k)
  BY DEF Harsh!AnswerPending, H!AnswerPending, Harsh!Lockable, H!Lockable
<1>4. Harsh!AnswerReplay(k) => H!AnswerReplay(k)
  BY DEF Harsh!AnswerReplay, H!AnswerReplay, Harsh!Lockable, H!Lockable
<1>5. Harsh!BuildFails(k) => H!BuildFails(k)
  BY DEF Harsh!BuildFails, H!BuildFails, Harsh!ReleaseAndFail, H!ReleaseAndFail, Harsh!AbsentRecord,
         H!AbsentRecord
<1>6. Harsh!Build(k) => H!Build(k)
  BY DEF Harsh!Build, H!Build
<1>7. Harsh!MarkStarted(k) => H!MarkStarted(k)
  BY DEF Harsh!MarkStarted, H!MarkStarted
<1>8. Harsh!Send(k) => H!Send(k)
  BY DEF Harsh!Send, H!Send, Harsh!SetTx, H!SetTx
<1>9. Harsh!RpcAccepts(k) => H!RpcAccepts(k)
  BY DEF Harsh!RpcAccepts, H!RpcAccepts, Harsh!AfterAccept, H!AfterAccept, Harsh!LegsOf, H!LegsOf
<1>10. Harsh!RpcRefuses(k) => H!RpcRefuses(k)
  BY DEF Harsh!RpcRefuses, H!RpcRefuses, Harsh!Refused, H!Refused, Harsh!NextProvider, H!NextProvider,
         Harsh!StopPartial, H!StopPartial, Harsh!ReleaseAndFail, H!ReleaseAndFail,
         Harsh!AbsentRecord, H!AbsentRecord
<1>11. Harsh!RpcTimesOut(k) => H!RpcTimesOut(k)
  BY DEF Harsh!RpcTimesOut, H!RpcTimesOut, Harsh!StopPartial, H!StopPartial, Harsh!ReleaseAndFail,
         H!ReleaseAndFail, Harsh!AbsentRecord, H!AbsentRecord
<1>12. Harsh!SendExternal(k) => H!SendExternal(k)
  BY DEF Harsh!SendExternal, H!SendExternal, Harsh!SwapOffered, H!SwapOffered, Harsh!SetTx, H!SetTx,
         Harsh!SwapLeg, H!SwapLeg
<1>13. Harsh!ExternalAccepts(k) => H!ExternalAccepts(k)
  BY DEF Harsh!ExternalAccepts, H!ExternalAccepts, Harsh!AfterAccept, H!AfterAccept, Harsh!LegsOf,
         H!LegsOf
<1>14. Harsh!ExternalFails(k) => H!ExternalFails(k)
  BY DEF Harsh!ExternalFails, H!ExternalFails
<1>15. Harsh!Confirmed(k) => H!Confirmed(k)
  BY DEF Harsh!Confirmed, H!Confirmed
<1>16. Harsh!NotConfirmed(k) => H!NotConfirmed(k)
  BY DEF Harsh!NotConfirmed, H!NotConfirmed, Harsh!StopPartial, H!StopPartial
<1>17. Harsh!ListSellable(k) => H!ListSellable(k)
  BY DEF Harsh!ListSellable, H!ListSellable
<1>18. Harsh!SellResidual(k) => H!SellResidual(k)
  BY DEF Harsh!SellResidual, H!SellResidual
<1>19. Harsh!SweepEnds(k) => H!SweepEnds(k)
  BY DEF Harsh!SweepEnds, H!SweepEnds
<1>20. Harsh!ReadFails(k) => H!ReadFails(k)
  BY DEF Harsh!ReadFails, H!ReadFails
<1>21. Harsh!Complete(k) => H!Complete(k)
  BY DEF Harsh!Complete, H!Complete
<1> QED BY <1>1, <1>2, <1>3, <1>4, <1>5, <1>6, <1>7, <1>8, <1>9, <1>10, <1>11, <1>12, <1>13,
     <1>14, <1>15, <1>16, <1>17, <1>18, <1>19, <1>20, <1>21
     DEF Harsh!Serve, H!Serve, Harsh!Handle, H!Handle

LEMMA HarshInit == Harsh!Init => H!Init
BY DEF Harsh!Init, H!Init, Harsh!AbsentRecord, H!AbsentRecord, Harsh!Record, H!Record, Harsh!Tx,
   H!Tx, Harsh!SweepLeg, H!SweepLeg, Harsh!Idle, H!Idle, Harsh!Work, H!Work, Harsh!NoReply,
   H!NoReply, Harsh!Reply, H!Reply

LEMMA HarshRestarts == Harsh!Restart => H!Restart
BY DEF Harsh!Restart, H!Restart, Harsh!Idle, H!Idle, Harsh!Work, H!Work

LEMMA HarshNetwork == Harsh!Network => H!Network
BY DEF Harsh!Network, H!Network, Harsh!NetworkAccepts, H!NetworkAccepts, Harsh!Becomes, H!Becomes,
   Harsh!Tx, H!Tx, Harsh!SweepLeg, H!SweepLeg, Harsh!SetTx, H!SetTx, Harsh!NetworkRejects,
   H!NetworkRejects, Harsh!Lands, H!Lands, Harsh!FailsOnChain, H!FailsOnChain

LEMMA HarshRequests == ASSUME NEW k \in Keys, Harsh!Request(k) PROVE H!Request(k)
BY DEF Harsh!Request, H!Request, Harsh!NoReply, H!NoReply, Harsh!Reply, H!Reply

LEMMA HarshNext == [Harsh!Next]_harshVars => [H!Next]_(H!vars)
BY HarshServes, HarshRestarts, HarshNetwork, HarshRequests DEF Harsh!Next, H!Next, harshVars, H!vars

LEMMA HarshMeans == H!CompleteMeansWholeBatch => Harsh!CompleteMeansWholeBatch
BY DEF Harsh!CompleteMeansWholeBatch, H!CompleteMeansWholeBatch, Harsh!LegsOf, H!LegsOf,
   Harsh!IsSwap, H!IsSwap, Harsh!IsExit, H!IsExit

LEMMA HarshHolds ==
  /\ Harsh!Init => H!BatchesInv
  /\ H!BatchesInv /\ [Harsh!Next]_harshVars => H!BatchesInv'
  /\ H!BatchesInv => Harsh!CompleteMeansWholeBatch
BY HarshAssumption, HarshInit, HarshNext, HarshMeans, H!BatchesHold DEF H!ConstantsAssumption

-----------------------------------------------------------------------------
(* One call of the chain, for any order and any set of providers, any      *)
(* number of concurrent calls, and whatever cooldowns and missing routes   *)
(* they leave each other.                                                  *)

Stages == {"idle", "next", "asked", "built", "sending", "answered"}
Fates == {"none", "sent", "refused", "live"}

\* Where a call is.  Of the shared state nothing is needed: it decides who is asked, not how
\* often a call swaps.
CallPlaces ==
  [at : Stages, req : Swaps!AllRequests \cup {Swaps!None}, index : Nat,
   answer : {Swaps!None, "ok", "exhausted", "stopped"}, by : Swaps!Providers \cup {Swaps!None}]
ChainTyped ==
  /\ w_call \in [Calls -> CallPlaces]
  /\ w_tx \in [Calls -> [Swaps!Providers -> Fates]]

\* No endpoint refuses a copy of what another has taken, and no answer of Jupiter V2 is lost,
\* be it that it is not configured.
Sure == "failover" \notin SwapFaults /\ ("external" \in SwapFaults => "jupiter-v2" \notin Enabled)

Alone(c, p) == Swaps!MayTakeEffect(c) \subseteq {p}

PhaseInv(c) ==
  /\ Swaps!At(c, "asked") \/ Swaps!At(c, "built") \/ Swaps!At(c, "sending") =>
       Swaps!Current(c) \in Swaps!Providers \cap Enabled
  /\ Swaps!At(c, "built") \/ Swaps!At(c, "sending") => Swaps!Request(c).kind = "execute"
  /\ Swaps!At(c, "answered") <=> w_call[c].answer # Swaps!None
  /\ ~Swaps!At(c, "sending") /\ ~Swaps!At(c, "answered") => Swaps!MayTakeEffect(c) = {}
  /\ Swaps!At(c, "sending") => Alone(c, Swaps!Current(c))
  /\ w_call[c].answer = "ok" =>
       Swaps!MayTakeEffect(c) = (IF Swaps!Request(c).kind = "execute" THEN {w_call[c].by} ELSE {})
  /\ w_call[c].answer = "exhausted" => Swaps!MayTakeEffect(c) = {}
  /\ w_call[c].answer = "stopped" => \E p \in Swaps!Providers : Alone(c, p)

ChainInv == ChainTyped /\ \A c \in Calls : PhaseInv(c)

LEMMA ChainInit == ASSUME Requests \subseteq Swaps!AllRequests, Swaps!Init PROVE ChainInv
<1>1. ChainTyped BY DEF Swaps!Init, ChainTyped, CallPlaces, Swaps!Idle, Swaps!NothingSent, Stages,
     Fates
<1>2. ASSUME NEW c \in Calls PROVE PhaseInv(c)
  BY <1>2 DEF Swaps!Init, PhaseInv, Swaps!At, Swaps!Idle, Swaps!None, Swaps!NothingSent,
     Swaps!MayTakeEffect
<1> QED BY <1>1, <1>2 DEF ChainInv

LEMMA SwapsOnceHolds == ASSUME ChainInv PROVE Swaps!SwapsOnce
<1> SUFFICES ASSUME NEW c \in Calls
             PROVE  /\ Swaps!Cardinality(Swaps!MayTakeEffect(c)) <= 1
                    /\ w_call[c].answer = "ok" /\ Swaps!Request(c).kind = "execute" =>
                         Swaps!MayTakeEffect(c) = {w_call[c].by}
                    /\ w_call[c].answer = "exhausted" => Swaps!MayTakeEffect(c) = {}
  BY DEF Swaps!SwapsOnce
<1>1. \E p : Alone(c, p)
  <2>1. PhaseInv(c) /\ w_call[c].answer \in {Swaps!None, "ok", "exhausted", "stopped"}
    BY DEF ChainInv, ChainTyped, CallPlaces
  <2>2. CASE w_call[c].answer = Swaps!None BY <2>1, <2>2 DEF PhaseInv, Alone
  <2>3. CASE w_call[c].answer # Swaps!None BY <2>1, <2>3 DEF PhaseInv, Alone
  <2> QED BY <2>2, <2>3
<1>2. PICK p : Alone(c, p) BY <1>1
<1>3. Swaps!MayTakeEffect(c) = {} \/ Swaps!MayTakeEffect(c) = {p} BY <1>2 DEF Alone
<1>4. Cardinality(Swaps!MayTakeEffect(c)) <= 1
  <2>1. Cardinality({}) = 0 BY FS_EmptySet
  <2>2. Cardinality({p}) = 1 BY FS_Singleton
  <2> QED BY <1>3, <2>1, <2>2
<1>5. Swaps!Cardinality(Swaps!MayTakeEffect(c)) <= 1 BY <1>4 DEF Cardinality, Swaps!Cardinality
<1> QED BY <1>5 DEF ChainInv, PhaseInv

-----------------------------------------------------------------------------
(* What a step does to its call, and that it does nothing to another.      *)

\* Nothing of another call changes.
Alike(c) == w_call'[c] = w_call[c] /\ w_tx'[c] = w_tx[c] /\ w_providers' = w_providers

LEMMA AlikeKeeps == ASSUME NEW c \in Calls, PhaseInv(c), Alike(c) PROVE PhaseInv(c)'
BY DEF Alike, PhaseInv, Swaps!At, Swaps!Current, Swaps!Request, Alone, Swaps!MayTakeEffect

\* What every step of a call must do.
CallKept(c) == ChainTyped' /\ PhaseInv(c)' /\ \A j \in Calls \ {c} : Alike(j)

LEMMA EffectMeans ==
  ASSUME ChainTyped, NEW c \in Calls, NEW p \in Swaps!Providers, Alone(c, p), NEW fate \in Fates,
         w_tx' = [w_tx EXCEPT ![c][p] = fate]
  PROVE  /\ w_tx' \in [Calls -> [Swaps!Providers -> Fates]]
         /\ \A j \in Calls \ {c} : w_tx'[j] = w_tx[j]
         /\ Swaps!MayTakeEffect(c)' = (IF fate \in {"sent", "live"} THEN {p} ELSE {})
<1>1. w_tx'[c] = [w_tx[c] EXCEPT ![p] = fate] /\ \A j \in Calls \ {c} : w_tx'[j] = w_tx[j]
  BY DEF ChainTyped, CallPlaces
<1>2. \A q \in Swaps!Providers \ {p} : w_tx'[c][q] = w_tx[c][q] /\ w_tx[c][q] \notin {"sent",
     "live"}
  BY <1>1 DEF ChainTyped, CallPlaces, Alone, Swaps!MayTakeEffect
<1>3. w_tx'[c][p] = fate BY <1>1 DEF ChainTyped, CallPlaces
<1>4. Swaps!MayTakeEffect(c)' = (IF fate \in {"sent", "live"} THEN {p} ELSE {})
  BY <1>2, <1>3 DEF Swaps!MayTakeEffect
<1> QED BY <1>1, <1>4 DEF ChainTyped, CallPlaces

\* On to the next provider, when nothing that was sent can take effect.
LEMMA NextKeeps ==
  ASSUME ChainTyped, NEW c \in Calls, PhaseInv(c), w_call[c].at \in {"next", "asked", "built",
    "sending"},
         Swaps!NextProvider(c), UNCHANGED w_providers,
           w_tx' \in [Calls -> [Swaps!Providers -> Fates]],
         \A j \in Calls \ {c} : w_tx'[j] = w_tx[j], Swaps!MayTakeEffect(c)' = {}
  PROVE  CallKept(c)
<1>1. /\ w_call'[c].at = "next" /\ w_call'[c].answer = w_call[c].answer /\ w_call'[c].by = w_call[c].by
      /\ w_call'[c].req = w_call[c].req
  BY DEF Swaps!NextProvider, ChainTyped, CallPlaces
<1>2. ChainTyped' BY DEF Swaps!NextProvider, ChainTyped, CallPlaces, Stages
<1>3. PhaseInv(c)' BY <1>1 DEF PhaseInv, Swaps!At, Swaps!None
<1> QED BY <1>2, <1>3 DEF Swaps!NextProvider, Alike, CallKept, ChainTyped, CallPlaces

LEMMA FailsKeeps ==
  ASSUME ChainTyped, NEW c \in Calls, PhaseInv(c), w_call[c].at \in {"next", "asked", "built"},
         Swaps!NextProvider(c), UNCHANGED <<w_providers, w_tx>>
  PROVE  CallKept(c)
<1>1. Swaps!MayTakeEffect(c)' = {} BY DEF PhaseInv, Swaps!At, Swaps!MayTakeEffect
<1> QED BY <1>1, NextKeeps DEF ChainTyped, CallPlaces

LEMMA GotoKeeps ==
  ASSUME ChainTyped, NEW c \in Calls, PhaseInv(c), NEW stage \in {"asked", "built"}, Swaps!Goto(c,
    stage),
         w_call[c].at \in {"next", "asked"}, UNCHANGED <<w_providers, w_tx>>,
         Swaps!Current(c) \in Swaps!Providers \cap Enabled,
           stage = "built" => Swaps!Request(c).kind = "execute"
  PROVE  CallKept(c)
<1>1. w_call'[c] = [w_call[c] EXCEPT !.at = stage] /\ w_call[c] \in CallPlaces
  BY DEF Swaps!Goto, ChainTyped, CallPlaces
<1>2. /\ w_call'[c].at = stage /\ w_call'[c].answer = w_call[c].answer /\ w_call'[c].by = w_call[c].by
      /\ w_call'[c].req = w_call[c].req /\ w_call'[c].index = w_call[c].index
  BY <1>1 DEF CallPlaces
<1>3. ChainTyped' BY DEF Swaps!Goto, ChainTyped, CallPlaces, Stages
<1>4. PhaseInv(c)' BY <1>2 DEF PhaseInv, Swaps!At, Swaps!None, Swaps!Request, Swaps!Current,
     Swaps!MayTakeEffect
<1> QED BY <1>3, <1>4 DEF Swaps!Goto, Alike, CallKept, ChainTyped, CallPlaces

LEMMA AnswerKeeps ==
  ASSUME ChainTyped, NEW c \in Calls, NEW answer \in {"ok", "exhausted", "stopped"},
         NEW by \in Swaps!Providers \cup {Swaps!None}, Swaps!Answer(c, answer, by),
           UNCHANGED w_providers,
         w_tx' \in [Calls -> [Swaps!Providers -> Fates]], \A j \in Calls \ {c} : w_tx'[j] = w_tx[j],
         answer = "ok" =>
           Swaps!MayTakeEffect(c)' = (IF Swaps!Request(c).kind = "execute" THEN {by} ELSE {}),
         answer = "exhausted" => Swaps!MayTakeEffect(c)' = {},
         answer = "stopped" => \E p \in Swaps!Providers : Swaps!MayTakeEffect(c)' \subseteq {p}
  PROVE  CallKept(c)
<1>1. /\ w_call'[c].at = "answered" /\ w_call'[c].answer = answer /\ w_call'[c].by = by
      /\ w_call'[c].req = w_call[c].req
  BY DEF Swaps!Answer, ChainTyped, CallPlaces
<1>2. ChainTyped'
  <2> DEFINE r == [w_call[c] EXCEPT !.at = "answered", !.answer = answer, !.by = by]
  <2>1. w_call[c] \in CallPlaces BY DEF ChainTyped
  <2>2. r \in CallPlaces BY <2>1 DEF CallPlaces, Stages
  <2>3. w_call' = [w_call EXCEPT ![c] = r] BY DEF Swaps!Answer, ChainTyped
  <2> HIDE DEF r
  <2> QED BY <2>2, <2>3 DEF ChainTyped
<1>3. PhaseInv(c)' BY <1>1 DEF PhaseInv, Swaps!At, Swaps!None, Swaps!Request, Alone
<1> QED BY <1>2, <1>3 DEF Swaps!Answer, Alike, CallKept, ChainTyped, CallPlaces

LEMMA QuotesKeeps ==
  ASSUME ChainTyped, NEW c \in Calls, PhaseInv(c), Swaps!At(c, "asked"),
    Swaps!Current(c) \in Swaps!Providers, Swaps!Quotes(c)
  PROVE  CallKept(c)
<1>1. Swaps!MayTakeEffect(c) = {} BY DEF PhaseInv, Swaps!At
<1>2. CASE Swaps!Request(c).kind = "quote" /\ Swaps!Answer(c, "ok",
     Swaps!Current(c)) /\ UNCHANGED <<w_providers, w_tx>>
  <2>1. Swaps!MayTakeEffect(c)' = {} BY <1>1, <1>2 DEF Swaps!MayTakeEffect
  <2> QED BY <1>2, <2>1, AnswerKeeps DEF ChainTyped, CallPlaces
<1>3. CASE Swaps!Request(c).kind = "execute" /\ Swaps!Goto(c, "built") /\ UNCHANGED <<w_providers,
     w_tx>>
  BY <1>3, GotoKeeps DEF Swaps!At, PhaseInv
<1>4. CASE Swaps!NextProvider(c) /\ UNCHANGED <<w_providers, w_tx>> BY <1>4, FailsKeeps DEF Swaps!At
<1> QED BY <1>2, <1>3, <1>4 DEF Swaps!Quotes, Swaps!FailsWith

-----------------------------------------------------------------------------
(* The steps of a call.                                                    *)

LEMMA BeginKeeps ==
  ASSUME Swaps!SwapAssumption, ChainTyped, NEW c \in Calls, Swaps!Begin(c) PROVE CallKept(c)
<1>1. PICK req \in Requests : w_call' = [w_call EXCEPT ![c] = [Swaps!Idle EXCEPT !.at = "next",
     !.req = req]]
  BY DEF Swaps!Begin
<1>2. [Swaps!Idle EXCEPT !.at = "next", !.req = req] \in CallPlaces
  BY DEF Swaps!Idle, CallPlaces, Stages, Swaps!SwapAssumption
<1>3. Swaps!NothingSent \in [Swaps!Providers -> Fates] BY DEF Swaps!NothingSent, Fates
<1>4. ChainTyped' BY <1>1, <1>2, <1>3 DEF Swaps!Begin, ChainTyped
<1>5. w_call'[c].at = "next" /\ w_call'[c].answer = Swaps!None BY <1>1 DEF Swaps!Idle, ChainTyped
<1>6. Swaps!MayTakeEffect(c)' = {} BY DEF Swaps!Begin, ChainTyped, Swaps!MayTakeEffect,
     Swaps!NothingSent
<1>7. PhaseInv(c)' BY <1>5, <1>6 DEF PhaseInv, Swaps!At, Swaps!None
<1> QED BY <1>1, <1>4, <1>7 DEF Swaps!Begin, Alike, CallKept, ChainTyped

LEMMA ReturnKeeps == ASSUME ChainTyped, NEW c \in Calls, Swaps!Return(c) PROVE CallKept(c)
<1>1. Swaps!NothingSent \in [Swaps!Providers -> Fates] BY DEF Swaps!NothingSent, Fates
<1>2. Swaps!Idle \in CallPlaces BY DEF Swaps!Idle, CallPlaces, Stages
<1>3. ChainTyped' BY <1>1, <1>2 DEF Swaps!Return, ChainTyped
<1>4. w_call'[c].at = "idle" /\ w_call'[c].answer = Swaps!None BY DEF Swaps!Return, Swaps!Idle,
     ChainTyped
<1>5. Swaps!MayTakeEffect(c)' = {} BY DEF Swaps!Return, ChainTyped, Swaps!MayTakeEffect,
     Swaps!NothingSent
<1>6. PhaseInv(c)' BY <1>4, <1>5 DEF PhaseInv, Swaps!At, Swaps!None
<1> QED BY <1>3, <1>6 DEF Swaps!Return, Alike, CallKept, ChainTyped

LEMMA ChooseKeeps ==
  ASSUME Swaps!SwapAssumption, ChainTyped, NEW c \in Calls, PhaseInv(c),
    Swaps!Skip(c) \/ Swaps!Exhausted(c) \/ Swaps!Refuse(c) \/ Swaps!Ask(c)
  PROVE  CallKept(c)
<1>1. Swaps!At(c, "next") /\ Swaps!MayTakeEffect(c) = {} BY DEF Swaps!Skip, Swaps!Exhausted,
     Swaps!Refuse, Swaps!Ask, PhaseInv, Swaps!At
<1>2. CASE Swaps!NextProvider(c) /\ UNCHANGED <<w_providers, w_tx>> BY <1>1, <1>2,
     FailsKeeps DEF Swaps!At
<1>3. CASE Swaps!Ask(c)
  <2>1. Swaps!Current(c) \in Swaps!Providers \cap Enabled BY <1>3 DEF Swaps!Ask,
       Swaps!readSkipReason, Swaps!SwapAssumption
  <2> QED BY <1>1, <1>3, <2>1, GotoKeeps DEF Swaps!Ask, Swaps!At
<1>4. CASE Swaps!Answer(c, "exhausted", Swaps!None) /\ UNCHANGED <<w_providers, w_tx>>
  <2>1. Swaps!MayTakeEffect(c)' = {} BY <1>1, <1>4 DEF Swaps!MayTakeEffect
  <2> QED BY <1>4, <2>1, AnswerKeeps DEF ChainTyped
<1> QED BY <1>2, <1>3, <1>4 DEF Swaps!Skip, Swaps!Exhausted, Swaps!Refuse, Swaps!Ask

LEMMA ProviderKeeps ==
  ASSUME ChainTyped, NEW c \in Calls, PhaseInv(c),
         \/ Swaps!MeteoraDirect(c) \/ Swaps!JupiterV2(c) \/ Swaps!JupiterV1(c)
         \/ Swaps!Raydium(c) \/ Swaps!Okx(c)
  PROVE  CallKept(c)
<1>1. \/ Swaps!At(c, "asked") /\ Swaps!Current(c) \in Swaps!Providers /\ Swaps!Quotes(c)
      \/ w_call[c].at \in {"asked", "built"} /\ \E failure : Swaps!FailsWith(c, failure)
  BY DEF Swaps!MeteoraDirect, Swaps!JupiterV2, Swaps!JupiterV1, Swaps!Raydium, Swaps!Okx,
     Swaps!JupiterAnswers, Swaps!Waits, Swaps!At, Swaps!Providers
<1> QED BY <1>1, QuotesKeeps, FailsKeeps DEF Swaps!FailsWith

LEMMA SendKeeps == ASSUME ChainTyped, NEW c \in Calls, PhaseInv(c), Swaps!Send(c) PROVE CallKept(c)
<1> DEFINE p == Swaps!Current(c)
<1>1. p \in Swaps!Providers /\ Swaps!Request(c).kind = "execute" /\ Alone(c, p)
  BY DEF Swaps!Send, PhaseInv, Swaps!At, Alone
<1>2. /\ w_tx' \in [Calls -> [Swaps!Providers -> Fates]]
      /\ \A j \in Calls \ {c} : w_tx'[j] = w_tx[j]
      /\ Swaps!MayTakeEffect(c)' = {p}
  BY <1>1, EffectMeans DEF Swaps!Send, Fates
<1>3. /\ w_call'[c].at = "sending" /\ w_call'[c].answer = w_call[c].answer
      /\ w_call'[c].req = w_call[c].req /\ w_call'[c].index = w_call[c].index
  BY DEF Swaps!Send, Swaps!Goto, ChainTyped, CallPlaces
<1>4. ChainTyped'
  <2>1. w_call[c] \in CallPlaces /\ [w_call[c] EXCEPT !.at = "sending"] \in CallPlaces
    BY DEF ChainTyped, CallPlaces, Stages
  <2> QED BY <1>2, <2>1 DEF Swaps!Send, Swaps!Goto, ChainTyped
<1>5. Swaps!Current(c)' = p BY <1>3 DEF Swaps!Current, Swaps!Send
<1>6. PhaseInv(c)' BY <1>1, <1>2, <1>3, <1>5 DEF PhaseInv, Swaps!At, Swaps!None, Swaps!Request,
     Alone, Swaps!Send
<1> QED BY <1>2, <1>4, <1>6 DEF Swaps!Send, Swaps!Goto, Alike, CallKept, ChainTyped

\* The answer to a send: the transaction is live, refused, or either of the two.
LEMMA SentKeeps ==
  ASSUME Sure, ChainTyped, NEW c \in Calls, PhaseInv(c),
         \/ Swaps!Accepted(c) \/ Swaps!PreflightRefuses(c)
         \/ Swaps!SendFails(c) \/ Swaps!ExternalFails(c)
  PROVE  CallKept(c)
<1> DEFINE p == Swaps!Current(c)
<1>1. /\ Swaps!At(c, "sending") /\ p \in Swaps!Providers \cap Enabled
      /\ Swaps!Request(c).kind = "execute" /\ Alone(c, p)
  BY DEF Swaps!Accepted, Swaps!PreflightRefuses, Swaps!SendFails, Swaps!ExternalFails, PhaseInv,
     Swaps!At
<1>2. ASSUME NEW fate \in {"refused", "live"}, w_tx' = [w_tx EXCEPT ![c][p] = fate]
      PROVE  /\ w_tx' \in [Calls -> [Swaps!Providers -> Fates]]
             /\ \A j \in Calls \ {c} : w_tx'[j] = w_tx[j]
             /\ Swaps!MayTakeEffect(c)' = (IF fate = "live" THEN {p} ELSE {})
  BY <1>1, <1>2, EffectMeans DEF Fates
<1>3. CASE Swaps!Accepted(c)
  <2>1. w_tx' = [w_tx EXCEPT ![c][p] = "live"] BY <1>3 DEF Swaps!Accepted, Swaps!Becomes
  <2> QED BY <1>1, <1>2, <1>3, <2>1, AnswerKeeps DEF Swaps!Accepted
<1>4. CASE Swaps!PreflightRefuses(c) \/ Swaps!ExternalFails(c)
  <2>1. w_tx' = [w_tx EXCEPT ![c][p] = "refused"]
    BY <1>1, <1>4 DEF Swaps!PreflightRefuses, Swaps!ExternalFails, Swaps!Becomes, Swaps!Unless, Sure
  <2> QED BY <1>1, <1>2, <1>4, <2>1, NextKeeps DEF Swaps!PreflightRefuses, Swaps!ExternalFails,
       Swaps!At
<1>5. CASE Swaps!SendFails(c)
  <2>1. PICK fate \in {"refused", "live"} : w_tx' = [w_tx EXCEPT ![c][p] = fate]
    BY <1>5 DEF Swaps!SendFails, Swaps!Becomes
  <2>2. Swaps!MayTakeEffect(c)' \subseteq {p} BY <1>2, <2>1
  <2> QED BY <1>1, <1>2, <1>5, <2>1, <2>2, AnswerKeeps DEF Swaps!SendFails
<1> QED BY <1>3, <1>4, <1>5

LEMMA ChainStep ==
  ASSUME Swaps!SwapAssumption, Sure, ChainInv, [Swaps!Next]_swapVars PROVE ChainInv'
<1>1. ASSUME NEW c \in Calls, CallKept(c) PROVE ChainInv'
  BY <1>1, AlikeKeeps DEF ChainInv, CallKept
<1>2. CASE \E c \in Calls : CallKept(c) BY <1>1, <1>2
<1>3. CASE Swaps!Tick \/ UNCHANGED swapVars
  <2>1. UNCHANGED <<w_providers, w_call, w_tx>> BY <1>3 DEF Swaps!Tick, swapVars
  <2> QED BY <2>1, AlikeKeeps DEF ChainInv, ChainTyped, Alike
<1> QED
  BY <1>2, <1>3, BeginKeeps, ReturnKeeps, ChooseKeeps, ProviderKeeps, SendKeeps, SentKeeps
  DEF Swaps!Next, ChainInv

-----------------------------------------------------------------------------
(* The chain is a sequence of providers: a fold over the places of the     *)
(* configured order, from the last one down.                               *)

Named(asked, name) ==
  LET p == Swaps!providerOrderKey(name)
  IN IF p = Swaps!None \/ Swaps!Contains(asked, p) THEN asked ELSE Append(asked, p)
Names == IF Order = <<>> THEN Swaps!DEFAULT_PROVIDER_ORDER ELSE Order
Chained ==
  CHOOSE h : h = [s \in SUBSET DOMAIN Names |->
    IF s = {} THEN <<>> ELSE Named(h[s \ {Swaps!Max(s)}], Names[Swaps!Max(s)])]

LEMMA ChainUnfolds == Swaps!Chain = Chained[DOMAIN Names]
BY Zenon DEF Swaps!Chain, Swaps!FoldLeft, Swaps!MapThenFoldSet, Chained, Named, Names

LEMMA NamesInOrder ==
  ASSUME Swaps!SwapAssumption
  PROVE  /\ IsFiniteSet(DOMAIN Names)
         /\ \A s \in SUBSET DOMAIN Names : s # {} => Swaps!Max(s) \in s
<1>1. PICK n \in Nat : DOMAIN Names = 1..n
  <2>1. CASE Order = <<>>
    <3>1. DOMAIN Names = 1..5 BY <2>1 DEF Names, Swaps!DEFAULT_PROVIDER_ORDER
    <3> QED BY <3>1
  <2>2. CASE Order # <<>>
    <3>1. DOMAIN Names = 1..Len(Order) /\ Len(Order) \in Nat BY <2>2 DEF Names, Swaps!SwapAssumption
    <3> QED BY <3>1
  <2> QED BY <2>1, <2>2
<1>2. ASSUME NEW s \in SUBSET (1..n), s # {} PROVE Swaps!Max(s) \in s
  <2>1. s \in SUBSET (0..n) OBVIOUS
  <2>2. PICK m \in s : \A i \in s : m >= i BY <1>2, <2>1, GreatestNumber
  <2> QED BY <2>2 DEF Swaps!Max
<1>3. IsFiniteSet(1..n) BY FS_Interval
<1> QED BY <1>1, <1>2, <1>3

LEMMA NamedIsChain ==
  ASSUME NEW asked \in Seq(Swaps!Providers), NEW name
  PROVE  Named(asked, name) \in Seq(Swaps!Providers)
<1> DEFINE p == Swaps!providerOrderKey(name)
<1>1. p # Swaps!None => p \in Swaps!Providers
  BY DEF Swaps!providerOrderKey, Swaps!Providers
<1> HIDE DEF p
<1>2. Named(asked, name) =
        (IF p = Swaps!None \/ Swaps!Contains(asked, p) THEN asked ELSE Append(asked, p))
  BY DEF Named, p
<1> QED BY <1>1, <1>2

LEMMA ChainIsSequence == ASSUME Swaps!SwapAssumption PROVE Swaps!Chain \in Seq(Swaps!Providers)
<1> DEFINE V == Seq(Swaps!Providers)
           S == DOMAIN Names
           pick == [s \in SUBSET S |-> Swaps!Max(s)]
           step == [i \in S |-> [asked \in V |-> Named(asked, Names[i])]]
           Rhs(h) == [s \in SUBSET S |->
             IF s = {} THEN <<>> ELSE Named(h[s \ {Swaps!Max(s)}], Names[Swaps!Max(s)])]
<1>1. IsFiniteSet(S) /\ \A s \in SUBSET S : s # {} => Swaps!Max(s) \in s BY NamesInOrder
<1>2. <<>> \in V OBVIOUS
<1>3. Steps(S, V, step)
  <2> HIDE DEF V, S
  <2>1. ASSUME NEW i \in S, NEW asked \in V PROVE Named(asked, Names[i]) \in V BY NamedIsChain DEF V
  <2> QED BY <2>1 DEF Steps
<1>4. Picks(S, pick) BY <1>1 DEF Picks
<1> HIDE DEF V, S
<1>5. PICK h : Folds(S, V, <<>>, pick, step, h)
  <2> HIDE DEF pick, step, Rhs
  <2> QED BY <1>1, <1>2, <1>3, <1>4, FoldExists
<1> DEFINE g == [s \in SUBSET S |-> h[s]]
<1>6. g = Rhs(g)
  <2>1. ASSUME NEW s \in SUBSET S PROVE g[s] = Rhs(g)[s]
    <3>1. h[s] = Fold(<<>>, pick, step, h, s) BY <1>5 DEF Folds
    <3>2. CASE s = {} BY <3>1, <3>2 DEF Fold
    <3>3. CASE s # {}
      <4> DEFINE m == Swaps!Max(s)
                 t == s \ {m}
      <4>1. m \in S /\ t \in SUBSET S BY <1>1, <3>3
      <4>2. h[t] \in V BY <1>5, <4>1 DEF Folds
      <4>3. pick[s] = m OBVIOUS
      <4>4. step[m][h[t]] = Named(h[t], Names[m]) BY <4>1, <4>2
      <4>5. g[t] = h[t] /\ g[s] = h[s] BY <4>1
      <4>6. Rhs(g)[s] = Named(g[t], Names[m]) BY <3>3
      <4> HIDE DEF pick, step, g, Rhs, m
      <4> QED BY <3>1, <3>3, <4>3, <4>4, <4>5, <4>6 DEF Fold
    <3> QED BY <3>2, <3>3
  <2>2. g = [s \in SUBSET S |-> g[s]] OBVIOUS
  <2>3. Rhs(g) = [s \in SUBSET S |-> Rhs(g)[s]] OBVIOUS
  <2> HIDE DEF g, Rhs
  <2> QED BY <2>1, <2>2, <2>3
<1>7. Chained = Rhs(Chained)
  <2>1. Chained = CHOOSE f : f = Rhs(f) BY Zenon DEF Chained, S
  <2> HIDE DEF g, Rhs
  <2> QED BY <1>6, <2>1
<1> HIDE DEF pick, step, g
<1> DEFINE good == [s \in SUBSET S |-> V]
           done == Chained
<1>8. /\ done[{}] = <<>>
      /\ \A s \in SUBSET S : s # {} => done[s] = Named(done[s \ {Swaps!Max(s)}], Names[Swaps!Max(s)])
  <2> HIDE DEF done
  <2> QED BY <1>7 DEF done
<1> HIDE DEF done, Rhs
<1>9. ASSUME NEW s \in SUBSET S, s # {}
      PROVE  \E x \in s : done[s \ {x}] \in good[s \ {x}] => done[s] \in good[s]
  <2>1. Swaps!Max(s) \in s /\ s \ {Swaps!Max(s)} \in SUBSET S BY <1>1, <1>9
  <2>2. done[s \ {Swaps!Max(s)}] \in V => done[s] \in V
    BY <1>8, <1>9, NamedIsChain DEF V
  <2> QED BY <2>1, <2>2
<1>10. \A s \in SUBSET S : done[s] \in good[s]
  <2>1. done[{}] \in good[{}] BY <1>2, <1>8
  <2> HIDE DEF good
  <2> QED BY <1>1, <1>9, <2>1, FoldStays
<1>11. done[S] \in V BY <1>10
<1> QED BY <1>11, ChainUnfolds DEF done, S, V

-----------------------------------------------------------------------------
(* What the calls write: the rest of the type of SwapChain, of which what  *)
(* precedes needs only a part.                                             *)

AtWork ==
  [at : {"next", "asked", "built", "sending", "answered"}, req : Requests, index : Nat \ {0},
   answer : {Swaps!None, "ok", "exhausted", "stopped"}, by : Swaps!Providers \cup {Swaps!None}]
\* The place of one call.
CallFine(r) == r \in AtWork \cup {Swaps!Idle} /\ (r.answer = "ok" <=> r.by # Swaps!None)

CoolingFine ==
  /\ w_cooldown \in [Swaps!Providers -> 0..CooldownMs]
  /\ w_noRoute \in [Swaps!Providers \X Swaps!Pairs -> 0..NoRouteTtlMs]
  /\ w_negative \in [Swaps!Pairs -> 0..NegativeTtlMs]
  /\ w_failures \in 0..MaxFailures
SwapInv ==
  /\ ChainInv /\ CoolingFine
  /\ w_call \in [Calls -> AtWork \cup {Swaps!Idle}] /\ \A c \in Calls : CallFine(w_call[c])
  /\ w_providers \in Seq(Swaps!Providers)

\* What a step of a call does to its place.
GoesOn(c) ==
  \/ ~Swaps!At(c, "idle") /\ Swaps!NextProvider(c)
  \/ ~Swaps!At(c, "idle") /\ \E stage \in {"asked", "built", "sending"} : Swaps!Goto(c, stage)
  \/ /\ ~Swaps!At(c, "idle")
     /\ \E answer \in {"ok", "exhausted", "stopped"}, by \in Swaps!Providers \cup {Swaps!None} :
          (answer = "ok" <=> by # Swaps!None) /\ Swaps!Answer(c, answer, by)
  \/ \E req \in Requests :
       w_call' = [w_call EXCEPT ![c] = [Swaps!Idle EXCEPT !.at = "next", !.req = req]]
  \/ w_call' = [w_call EXCEPT ![c] = Swaps!Idle]

\* And to what the calls share.
Cools(c) ==
  /\ UNCHANGED <<w_cooldown, w_noRoute>> \/ \E failure : Swaps!recordFailure(c, failure)
  /\ UNCHANGED w_negative \/ \E pair : w_negative' = [w_negative EXCEPT ![pair] = NegativeTtlMs]
  /\ UNCHANGED w_failures \/ Swaps!Hits
  /\ UNCHANGED w_providers

LEMMA MovesKeep ==
  ASSUME NEW c \in Calls, w_call \in [Calls -> AtWork \cup {Swaps!Idle}],
         \A j \in Calls : CallFine(w_call[j]), GoesOn(c)
  PROVE  w_call' \in [Calls -> AtWork \cup {Swaps!Idle}] /\ \A j \in Calls : CallFine(w_call'[j])
<1> DEFINE r == w_call[c]
<1>1. ~Swaps!At(c, "idle") => r \in AtWork BY DEF Swaps!At, Swaps!Idle
<1> DEFINE Result == \E q : CallFine(q) /\ w_call' = [w_call EXCEPT ![c] = q]
<1>2. Result
  <2>1. CASE ~Swaps!At(c, "idle") /\ Swaps!NextProvider(c)
    <3> DEFINE q == [r EXCEPT !.at = "next", !.index = @ + 1]
    <3>1. r \in AtWork /\ r.index + 1 \in Nat \ {0} BY <1>1, <2>1 DEF AtWork
    <3>2. q \in AtWork /\ q.answer = r.answer /\ q.by = r.by BY <3>1 DEF AtWork
    <3>3. w_call' = [w_call EXCEPT ![c] = q] BY <2>1 DEF Swaps!NextProvider
    <3> HIDE DEF q
    <3> QED BY <3>2, <3>3 DEF CallFine
  <2>2. ASSUME ~Swaps!At(c, "idle"), NEW stage \in {"asked", "built", "sending"},
               Swaps!Goto(c, stage)
        PROVE  Result
    <3> DEFINE q == [r EXCEPT !.at = stage]
    <3>1. q \in AtWork /\ q.answer = r.answer /\ q.by = r.by BY <1>1, <2>2 DEF AtWork
    <3>2. w_call' = [w_call EXCEPT ![c] = q] BY <2>2 DEF Swaps!Goto
    <3> HIDE DEF q
    <3> QED BY <3>1, <3>2 DEF CallFine
  <2>3. ASSUME ~Swaps!At(c, "idle"), NEW answer \in {"ok", "exhausted", "stopped"},
               NEW by \in Swaps!Providers \cup {Swaps!None},
               answer = "ok" <=> by # Swaps!None, Swaps!Answer(c, answer, by)
        PROVE  Result
    <3> DEFINE q == [r EXCEPT !.at = "answered", !.answer = answer, !.by = by]
    <3>1. q \in AtWork /\ q.answer = answer /\ q.by = by BY <1>1, <2>3 DEF AtWork
    <3>2. w_call' = [w_call EXCEPT ![c] = q] BY <2>3 DEF Swaps!Answer
    <3> HIDE DEF q
    <3> QED BY <2>3, <3>1, <3>2 DEF CallFine
  <2>4. ASSUME NEW req \in Requests,
               w_call' = [w_call EXCEPT ![c] = [Swaps!Idle EXCEPT !.at = "next", !.req = req]]
        PROVE  Result
    <3> DEFINE q == [Swaps!Idle EXCEPT !.at = "next", !.req = req]
    <3> DEFINE Wide == [at : Stages, req : Requests \cup {Swaps!None}, index : Nat,
                        answer : {Swaps!None}, by : {Swaps!None}]
    <3>1. q \in Wide /\ q.at = "next" /\ q.req = req /\ q.index = 1 BY DEF Swaps!Idle, Stages
    <3>2. q \in AtWork
      <4> HIDE DEF q
      <4> QED BY <3>1 DEF AtWork
    <3>3. q.answer = Swaps!None /\ q.by = Swaps!None BY DEF Swaps!Idle
    <3>4. Swaps!None # "ok" BY DEF Swaps!None
    <3>5. CallFine(q)
      <4> HIDE DEF q
      <4> QED BY <3>2, <3>3, <3>4 DEF CallFine
    <3> QED BY <2>4, <3>5
  <2>5. CASE w_call' = [w_call EXCEPT ![c] = Swaps!Idle]
    <3>1. CallFine(Swaps!Idle) BY DEF CallFine, Swaps!Idle, Swaps!None
    <3> QED BY <2>5, <3>1
  <2> QED BY <2>1, <2>2, <2>3, <2>4, <2>5 DEF GoesOn
<1>3. PICK q : CallFine(q) /\ w_call' = [w_call EXCEPT ![c] = q] BY <1>2
<1>4. q \in AtWork \cup {Swaps!Idle} BY <1>3 DEF CallFine
<1>5. w_call' \in [Calls -> AtWork \cup {Swaps!Idle}]
      /\ \A j \in Calls : w_call'[j] = (IF j = c THEN q ELSE w_call[j])
  BY <1>3, <1>4
<1> QED BY <1>3, <1>5

LEMMA CoolsKeep ==
  ASSUME Swaps!SwapAssumption, CoolingFine, NEW c \in Calls, Cools(c) PROVE CoolingFine'
<1>1. w_cooldown' \in [Swaps!Providers -> 0..CooldownMs]
  <2>1. CooldownMs \in 0..CooldownMs BY DEF Swaps!SwapAssumption
  <2>2. UNCHANGED w_cooldown \/ \E p : w_cooldown' = [w_cooldown EXCEPT ![p] = CooldownMs]
    BY DEF Cools, Swaps!recordFailure
  <2> QED BY <2>1, <2>2 DEF CoolingFine
<1>2. w_noRoute' \in [Swaps!Providers \X Swaps!Pairs -> 0..NoRouteTtlMs]
  <2>1. NoRouteTtlMs \in 0..NoRouteTtlMs BY DEF Swaps!SwapAssumption
  <2>2. UNCHANGED w_noRoute \/ \E pair : w_noRoute' = [w_noRoute EXCEPT ![pair] = NoRouteTtlMs]
    BY DEF Cools, Swaps!recordFailure
  <2> QED BY <2>1, <2>2 DEF CoolingFine
<1>3. w_negative' \in [Swaps!Pairs -> 0..NegativeTtlMs]
  <2>1. NegativeTtlMs \in 0..NegativeTtlMs BY DEF Swaps!SwapAssumption
  <2> QED BY <2>1 DEF Cools, CoolingFine
<1>4. w_failures' \in 0..MaxFailures BY DEF Cools, CoolingFine, Swaps!Hits, Swaps!SwapAssumption
<1> QED BY <1>1, <1>2, <1>3, <1>4 DEF CoolingFine

LEMMA TickCools == ASSUME Swaps!SwapAssumption, CoolingFine, Swaps!Tick PROVE CoolingFine'
<1>1. \A max \in Nat : \A n \in 0..max : Swaps!Less(n) \in 0..max BY DEF Swaps!Less
<1> QED BY <1>1 DEF CoolingFine, Swaps!Tick, Swaps!SwapAssumption

\* The steps of a call, as GoesOn and Cools see them.
LEMMA BeginGoes ==
  ASSUME NEW c \in Calls, Swaps!Begin(c) \/ Swaps!Return(c) PROVE GoesOn(c) /\ Cools(c)
BY DEF Swaps!Begin, Swaps!Return, GoesOn, Cools

LEMMA ChooseGoes ==
  ASSUME NEW c \in Calls, Swaps!Skip(c) \/ Swaps!Exhausted(c) \/ Swaps!Refuse(c) \/ Swaps!Ask(c)
  PROVE  GoesOn(c) /\ Cools(c)
<1>1. CASE Swaps!Skip(c) \/ Swaps!Refuse(c)
  BY <1>1 DEF Swaps!Skip, Swaps!Refuse, Swaps!At, GoesOn, Cools
<1>2. CASE Swaps!Exhausted(c) BY <1>2 DEF Swaps!Exhausted, Swaps!At, GoesOn, Cools
<1>3. CASE Swaps!Ask(c) BY <1>3 DEF Swaps!Ask, Swaps!At, GoesOn, Cools
<1> QED BY <1>1, <1>2, <1>3

Remembers ==
  UNCHANGED w_negative \/ \E pair : w_negative' = [w_negative EXCEPT ![pair] = NegativeTtlMs]

LEMMA FailureGoes ==
  ASSUME NEW c \in Calls, ~Swaps!At(c, "idle"), NEW failure, Swaps!FailsWith(c, failure), Remembers
  PROVE  GoesOn(c) /\ Cools(c)
BY DEF Swaps!FailsWith, GoesOn, Cools, Remembers

LEMMA QuoteGoes ==
  ASSUME NEW c \in Calls, Swaps!At(c, "asked"), Swaps!Current(c) \in Swaps!Providers,
         Swaps!Quotes(c), Remembers
  PROVE  GoesOn(c) /\ Cools(c)
<1>1. Swaps!Current(c) # Swaps!None BY DEF Swaps!Providers, Swaps!None
<1>2. ~Swaps!At(c, "idle") BY DEF Swaps!At
<1>3. CASE /\ Swaps!Answer(c, "ok", Swaps!Current(c))
             /\ UNCHANGED <<w_providers, w_cooldown, w_noRoute, w_failures>>
  BY <1>1, <1>2, <1>3 DEF GoesOn, Cools, Remembers
<1>4. CASE Swaps!Goto(c, "built") /\ UNCHANGED <<w_providers, w_cooldown, w_noRoute, w_failures>>
  BY <1>2, <1>4 DEF GoesOn, Cools, Remembers
<1>5. CASE \E failure : Swaps!FailsWith(c, failure) BY <1>2, <1>5, FailureGoes
<1> QED BY <1>3, <1>4, <1>5 DEF Swaps!Quotes

LEMMA ProviderGoes ==
  ASSUME NEW c \in Calls,
         \/ Swaps!MeteoraDirect(c) \/ Swaps!JupiterV2(c) \/ Swaps!JupiterV1(c)
         \/ Swaps!Raydium(c) \/ Swaps!Okx(c)
  PROVE  GoesOn(c) /\ Cools(c)
<1>1. Remembers
  BY DEF Swaps!MeteoraDirect, Swaps!JupiterV2, Swaps!JupiterV1, Swaps!Raydium, Swaps!Okx,
     Swaps!JupiterAnswers, Remembers
<1>2. \/ Swaps!At(c, "asked") /\ Swaps!Current(c) \in Swaps!Providers /\ Swaps!Quotes(c)
      \/ w_call[c].at \in {"asked", "built"} /\ \E failure : Swaps!FailsWith(c, failure)
  BY DEF Swaps!MeteoraDirect, Swaps!JupiterV2, Swaps!JupiterV1, Swaps!Raydium, Swaps!Okx,
     Swaps!JupiterAnswers, Swaps!Waits, Swaps!At, Swaps!Providers
<1>3. w_call[c].at \in {"asked", "built"} => ~Swaps!At(c, "idle") BY DEF Swaps!At
<1> QED BY <1>1, <1>2, <1>3, QuoteGoes, FailureGoes

LEMMA SendGoes ==
  ASSUME NEW c \in Calls, PhaseInv(c),
         \/ Swaps!Send(c) \/ Swaps!Accepted(c) \/ Swaps!PreflightRefuses(c)
         \/ Swaps!SendFails(c) \/ Swaps!ExternalFails(c)
  PROVE  GoesOn(c) /\ Cools(c)
<1>1. ~Swaps!At(c, "idle")
  BY DEF Swaps!Send, Swaps!Accepted, Swaps!PreflightRefuses, Swaps!SendFails, Swaps!ExternalFails,
     Swaps!At
<1>2. CASE Swaps!Send(c) BY <1>1, <1>2 DEF Swaps!Send, GoesOn, Cools
<1>3. CASE Swaps!Accepted(c)
  <2>1. Swaps!Current(c) \in Swaps!Providers /\ Swaps!Current(c) # Swaps!None
    BY <1>3 DEF Swaps!Accepted, PhaseInv, Swaps!Providers, Swaps!None
  <2> QED BY <1>1, <1>3, <2>1 DEF Swaps!Accepted, GoesOn, Cools
<1>4. CASE Swaps!PreflightRefuses(c) \/ Swaps!ExternalFails(c)
  BY <1>1, <1>4 DEF Swaps!PreflightRefuses, Swaps!ExternalFails, GoesOn, Cools
<1>5. CASE Swaps!SendFails(c) BY <1>1, <1>5 DEF Swaps!SendFails, GoesOn, Cools
<1> QED BY <1>2, <1>3, <1>4, <1>5

LEMMA SwapInit == ASSUME Swaps!SwapAssumption, Swaps!Init PROVE SwapInv
<1>1. ChainInv BY ChainInit DEF Swaps!SwapAssumption
<1>2. CoolingFine
  <2>1. \A max \in Nat : 0 \in 0..max OBVIOUS
  <2> QED BY <2>1 DEF Swaps!Init, CoolingFine, Swaps!SwapAssumption
<1>3. \A c \in Calls : CallFine(w_call[c]) BY DEF Swaps!Init, CallFine, Swaps!Idle, Swaps!None
<1>4. w_call \in [Calls -> AtWork \cup {Swaps!Idle}] BY DEF Swaps!Init
<1>5. w_providers \in Seq(Swaps!Providers) BY ChainIsSequence DEF Swaps!Init
<1> QED BY <1>1, <1>2, <1>3, <1>4, <1>5 DEF SwapInv

LEMMA SwapStep ==
  ASSUME Swaps!SwapAssumption, Sure, SwapInv, [Swaps!Next]_swapVars PROVE SwapInv'
<1>1. ChainInv' BY ChainStep DEF SwapInv
<1>2. ASSUME NEW c \in Calls, GoesOn(c), Cools(c) PROVE SwapInv'
  BY <1>1, <1>2, MovesKeep, CoolsKeep DEF SwapInv, Cools
<1>3. CASE Swaps!Tick
  <2>1. CoolingFine' BY <1>3, TickCools DEF SwapInv
  <2> QED BY <1>1, <1>3, <2>1 DEF SwapInv, Swaps!Tick
<1>4. CASE UNCHANGED swapVars
  <2>1. CoolingFine' BY <1>4 DEF SwapInv, CoolingFine, swapVars
  <2> QED BY <1>1, <1>4, <2>1 DEF SwapInv, swapVars
<1>5. CASE \E c \in Calls : GoesOn(c) /\ Cools(c) BY <1>2, <1>5
<1> QED
  BY <1>3, <1>4, <1>5, BeginGoes, ChooseGoes, ProviderGoes, SendGoes
  DEF Swaps!Next, SwapInv, ChainInv

LEMMA SwapMeans == ASSUME SwapInv PROVE SwapsOnce
<1>1. Swaps!SwapsOnce BY SwapsOnceHolds DEF SwapInv
<1>2. w_call \in [Calls ->
       [at : {"next", "asked", "built", "sending", "answered"}, req : Requests,
        index : Nat \ {0}, answer : {Swaps!None, "ok", "exhausted", "stopped"},
        by : Swaps!Providers \cup {Swaps!None}] \cup {Swaps!Idle}]
  BY DEF SwapInv, AtWork
<1>3. \A c \in Calls : w_call[c].answer = "ok" <=> w_call[c].by # Swaps!None
  BY DEF SwapInv, CallFine
<1>4. w_tx \in [Calls -> [Swaps!Providers -> {"none", "sent", "refused", "live"}]]
  BY DEF SwapInv, ChainInv, ChainTyped, Fates
<1>5. Swaps!SwapTypeOK BY <1>2, <1>3, <1>4 DEF Swaps!SwapTypeOK, SwapInv, CoolingFine
<1> QED BY <1>1, <1>5 DEF SwapsOnce

-----------------------------------------------------------------------------
\* For any order of the providers and any concurrent calls, when no endpoint refuses a copy of what
\* another has taken and no answer of Jupiter V2 is lost: at most one provider's transaction of a
\* call may ever take effect, a positive answer says which, and after a call that every provider
\* refused nothing can be swapped.  With either fault TLC finds a call that swaps twice.
THEOREM OneSwapPerCall == ASSUME Sure PROVE WorldSpec => []SwapsOnce
<1>1. WorldInit => SwapInv BY SwapInit, WorldAssumption DEF WorldInit
<1>2. SwapInv /\ [WorldNext]_worldVars => SwapInv'
  <2>1. [WorldNext]_worldVars => [Swaps!Next]_swapVars BY DEF WorldNext, worldVars
  <2> QED BY <2>1, SwapStep, WorldAssumption
<1>3. SwapInv => SwapsOnce BY SwapMeans
<1> QED BY <1>1, <1>2, <1>3, PTL DEF WorldSpec

\* Whatever faults hit the sidecar, those it is not built to survive included: a submitted answer
\* that is not marked partial names a whole batch that the network has accepted, and for an exit one
\* that has landed.
THEOREM WholeWhateverFails == WorldSpec => []WholeBatch
<1> DEFINE Inv == BatchesInv /\ H!BatchesInv
<1>1. WorldInit => Inv BY BatchesHold, HarshHolds DEF WorldInit
<1>2. Inv /\ [WorldNext]_worldVars => Inv'
  <2>1. [WorldNext]_worldVars => [Next]_vars /\ [Harsh!Next]_harshVars BY DEF WorldNext, worldVars
  <2> QED BY <2>1, BatchesHold, HarshHolds
<1>3. Inv => WholeBatch BY BatchesHold, HarshHolds DEF WholeBatch
<1> HIDE DEF Inv
<1> QED BY <1>1, <1>2, <1>3, PTL DEF WorldSpec
=============================================================================
