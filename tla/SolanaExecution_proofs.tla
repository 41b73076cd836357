------------------------ MODULE SolanaExecution_proofs ------------------------
(***************************************************************************)
(* What the sidecar guarantees for every number of keys, legs, builds,     *)
(* restarts and requests: type correctness under all faults, and the       *)
(* safety of the send path under the faults it is built to survive.        *)
(***************************************************************************)
EXTENDS SolanaExecution, TLAPS

(***************************************************************************)
(* TypeOK is not inductive: a transaction is named by the build counter    *)
(* and the handler's leg, and a request is taken off the queue when it is  *)
(* answered.                                                               *)
(***************************************************************************)

\* Only a request that is in the queue has the lock; an answer is there only if nobody waits.
LockInv(k) ==
  /\ ~At(k, "idle") => queued[k] > 0
  /\ At(k, "idle") => handler[k].sigs = {}
  /\ reply[k].kind # "none" => queued[k] = 0

\* A handler that works on a transaction has built it.
PlaceInv(k) ==
  handler[k].at \in {"submit", "send", "rpc", "external"} => builds[k] >= 1 /\ handler[k].leg >= 1

TypeInv == TypeOK /\ \A k \in Keys : LockInv(k) /\ PlaceInv(k)

(***************************************************************************)
(* The faults the sidecar is built to survive: no failover between write   *)
(* endpoints, no swap through Jupiter V2, no timeout of a swap's send.     *)
(***************************************************************************)
Survivable ==
  \A s \in SideKinds :
    /\ <<s, "failover">> \notin Faults /\ <<s, "external">> \notin Faults
    /\ s = "swap" => <<s, "unknown">> \notin Faults

\* Where the request of a key is, what its record says.
StoreInv(k) ==
  /\ ~At(k, "idle") => store[k].phase \in {"reserved", "broadcast_started"}
  /\ handler[k].at \in {"send", "rpc"} =>
       store[k].phase = "broadcast_started" /\ Current(k) \in store[k].evidence

\* Signatures have been accepted exactly when the handler is past the first transaction.
SigsInv(k) ==
  /\ ~At(k, "external")
  /\ At(k, "build") => handler[k].sigs = {}
  /\ handler[k].at \in {"confirm", "sweep", "sale", "sold", "finish"} => handler[k].sigs # {}
  /\ handler[k].at \in {"submit", "send", "rpc"} /\ handler[k].leg = SweepLeg => handler[k].sigs # {}

\* While no signature was accepted nothing is exposed but the transaction just sent.
FirstInv(k) ==
  handler[k].sigs = {} =>
    /\ handler[k].at \in {"build", "submit", "send"} => Exposed(k) = {}
    /\ At(k, "rpc") => Exposed(k) \subseteq {Current(k)}

\* While the batch is sent everything exposed is of the current build; while a residual is being
\* sold the only sale exposed is the one just sent.
BuildInv(k) ==
  /\ handler[k].at \in {"submit", "send", "rpc"} /\ handler[k].leg # SweepLeg =>
       \A t \in Exposed(k) : t[2] # SweepLeg /\ t[1] = builds[k]
  /\ \/ handler[k].at \in {"submit", "send"} /\ handler[k].leg = SweepLeg
     \/ handler[k].at \in {"confirm", "sweep", "sale"}
     => \A t \in Exposed(k) : t[2] # SweepLeg
  /\ At(k, "rpc") /\ handler[k].leg = SweepLeg =>
       \A t \in Exposed(k) : t[2] = SweepLeg => t = Current(k)

\* The checked properties, key by key.
Covered(k) ==
  \A t \in Exposed(k) : store[k].phase \in {"broadcast_started", "submitted"} /\ t \in store[k].evidence
OneBuild(k) ==
  \A t, u \in Exposed(k) : (t[2] = SweepLeg <=> u[2] = SweepLeg) => t[1] = u[1]
FailedUnsent(k) == reply[k].kind = "failed" => Exposed(k) = {}

KeyInv(k) ==
  /\ StoreInv(k) /\ SigsInv(k) /\ FirstInv(k) /\ BuildInv(k)
  /\ Covered(k) /\ OneBuild(k) /\ FailedUnsent(k)

SafetyInv == TypeInv /\ \A k \in Keys : KeyInv(k)

-----------------------------------------------------------------------------
LEMMA TypeInit == ASSUME Init PROVE TypeInv
<1> USE ConstantsAssumption
<1>1. TypeOK
  BY DEF Init, TypeOK, SubmissionRecord, AbsentRecord, Record, Handler, Idle, Work, ReplyType, NoReply,
     Reply, Tx,
         TxState, SweepLeg
<1>2. ASSUME NEW k \in Keys PROVE LockInv(k) /\ PlaceInv(k)
  BY DEF Init, LockInv, PlaceInv, At, Idle, Work, NoReply, Reply
<1> QED BY <1>1, <1>2 DEF TypeInv

\* What the building blocks of the actions preserve.
Places == {"build", "submit", "send", "rpc", "external", "confirm", "sweep", "sale", "sold", "finish"}

LEMMA CurrentTyped ==
  ASSUME TypeInv, NEW k \in Keys, handler[k].at \in {"submit", "send", "rpc", "external"}
  PROVE Current(k) \in Tx
BY ConstantsAssumption DEF TypeInv, TypeOK, PlaceInv, Handler, SweepLeg, Current, Tx

\* The request that holds the lock moves on.
LEMMA MoveTyped ==
  ASSUME TypeInv, NEW k \in Keys, queued[k] > 0, NEW w \in Handler, w.at # "idle",
         handler' = [handler EXCEPT ![k] = w], UNCHANGED <<queued, reply>>
  PROVE handler' \in [Keys -> Handler] /\ \A j \in Keys : LockInv(j)'
BY DEF TypeInv, TypeOK, LockInv, At

LEMMA GotoTyped ==
  ASSUME TypeInv, NEW k \in Keys, queued[k] > 0, NEW p \in Places, Goto(k, p), UNCHANGED <<queued,
           reply>>
  PROVE handler' \in [Keys -> Handler] /\ \A j \in Keys : LockInv(j)'
<1>1. handler' \in [Keys -> Handler] BY DEF TypeInv, TypeOK, Goto, Handler, Places
<1>2. \A j \in Keys : LockInv(j)'
  <2> SUFFICES ASSUME NEW j \in Keys PROVE LockInv(j)' OBVIOUS
  <2>1. CASE j = k BY <2>1 DEF TypeInv, TypeOK, LockInv, At, Goto, Places, Handler
  <2>2. CASE j # k BY <2>2 DEF TypeInv, TypeOK, LockInv, At, Goto
  <2> QED BY <2>1, <2>2
<1> QED BY <1>1, <1>2

\* The request is answered and leaves the queue.
LEMMA AnswerTyped ==
  ASSUME TypeInv, NEW k \in Keys, queued[k] > 0, NEW a \in ReplyType, Answer(k, a)
  PROVE /\ handler' \in [Keys -> Handler] /\ queued' \in [Keys -> 0..MaxQueue]
        /\ reply' \in [Keys -> ReplyType] /\ \A j \in Keys : LockInv(j)'
        /\ \A j \in Keys : UNCHANGED builds => PlaceInv(j)'
<1> USE ConstantsAssumption
<1>1. Idle \in Handler BY DEF Idle, Work, Handler, SweepLeg
<1>2. handler' \in [Keys -> Handler] BY <1>1 DEF TypeInv, TypeOK, Answer
<1>3. queued' \in [Keys -> 0..MaxQueue] BY DEF TypeInv, TypeOK, Answer
<1>4. reply' \in [Keys -> ReplyType] BY DEF TypeInv, TypeOK, Answer
<1>5. \A j \in Keys : LockInv(j)'
  BY <1>1 DEF TypeInv, TypeOK, Answer, LockInv, At, Idle, Work
<1>6. \A j \in Keys : UNCHANGED builds => PlaceInv(j)'
  BY <1>1 DEF TypeInv, TypeOK, Answer, PlaceInv, Idle, Work
<1> QED BY <1>2, <1>3, <1>4, <1>5, <1>6

LEMMA FailTyped ==
  ASSUME TypeInv, NEW k \in Keys, queued[k] > 0, ReleaseAndFail(k), UNCHANGED <<side, instance, builds,
           chain>>
  PROVE TypeInv'
<1>1. Reply("failed", {}, FALSE) \in ReplyType BY DEF Reply, ReplyType
<1>2. AbsentRecord \in SubmissionRecord
  BY ConstantsAssumption DEF AbsentRecord, Record, SubmissionRecord
<1> QED BY <1>1, <1>2, AnswerTyped DEF TypeInv, TypeOK, ReleaseAndFail

LEMMA StopTyped ==
  ASSUME TypeInv, NEW k \in Keys, queued[k] > 0, StopPartial(k), UNCHANGED <<side, instance, builds,
           chain>>
  PROVE TypeInv'
<1> DEFINE w == Work("finish", handler[k].leg, handler[k].sigs, TRUE)
<1>1. w \in Handler /\ w.at = "finish" BY DEF TypeInv, TypeOK, Work, Handler
<1>2. handler' = [handler EXCEPT ![k] = w] BY DEF StopPartial, TypeInv, TypeOK
<1>3. \A j \in Keys : PlaceInv(j)' BY <1>1, <1>2 DEF TypeInv, TypeOK, PlaceInv
<1> HIDE DEF w
<1> QED BY <1>1, <1>2, <1>3, MoveTyped DEF TypeInv, TypeOK, StopPartial

\* A step of a request that changes only its place.
LEMMA GotoStep ==
  ASSUME TypeInv, NEW k \in Keys, queued[k] > 0, NEW p \in Places, Goto(k, p),
         UNCHANGED <<side, instance, store, builds, chain, queued, reply>>,
         p \in {"submit", "send", "rpc", "external"} => builds[k] >= 1 /\ handler[k].leg >= 1
  PROVE TypeInv'
<1>1. ASSUME NEW j \in Keys PROVE PlaceInv(j)'
  <2>1. CASE j = k BY <2>1 DEF TypeInv, TypeOK, PlaceInv, Goto, Handler
  <2>2. CASE j # k BY <2>2 DEF TypeInv, TypeOK, PlaceInv, Goto
  <2> QED BY <2>1, <2>2
<1> QED BY <1>1, GotoTyped DEF TypeInv, TypeOK

LEMMA TypeStep == ASSUME TypeInv, [Next]_vars PROVE TypeInv'
<1> USE ConstantsAssumption
<1>1. ASSUME NEW k \in Keys, Request(k) PROVE TypeInv'
  <2>1. reply' \in [Keys -> ReplyType] /\ queued' \in [Keys -> 0..MaxQueue]
    BY <1>1 DEF Request, TypeInv, TypeOK, ReplyType, NoReply, Reply
  <2>2. \A j \in Keys : LockInv(j)' BY <1>1 DEF Request, TypeInv, TypeOK, LockInv, At, NoReply, Reply
  <2>3. \A j \in Keys : PlaceInv(j)' BY <1>1 DEF Request, TypeInv, PlaceInv
  <2> QED BY <1>1, <2>1, <2>2, <2>3 DEF Request, TypeInv, TypeOK
<1>2. ASSUME NEW k \in Keys, ReserveNew(k) PROVE TypeInv'
  <2>1. Reservation(instance) \in SubmissionRecord
    BY DEF TypeInv, TypeOK, Reservation, Record, SubmissionRecord
  <2>2. store' \in [Keys -> SubmissionRecord] BY <1>2, <2>1 DEF ReserveNew, TypeInv, TypeOK
  <2>3. handler' \in [Keys -> Handler] /\ \A j \in Keys : LockInv(j)'
    BY <1>2, GotoTyped DEF ReserveNew, Lockable, Places
  <2>4. \A j \in Keys : PlaceInv(j)' BY <1>2 DEF ReserveNew, TypeInv, TypeOK, PlaceInv, Goto, Handler
  <2> QED BY <1>2, <2>2, <2>3, <2>4 DEF ReserveNew, TypeInv, TypeOK
<1>3. ASSUME NEW k \in Keys, TakeOver(k) PROVE TypeInv'
  <2>1. Record(store[k].phase, instance, store[k].evidence, store[k].result,
        store[k].partial) \in SubmissionRecord
    BY DEF TypeInv, TypeOK, Reservation, Record, SubmissionRecord
  <2>2. store' \in [Keys -> SubmissionRecord] BY <1>3, <2>1 DEF TakeOver, TypeInv, TypeOK
  <2>3. handler' \in [Keys -> Handler] /\ \A j \in Keys : LockInv(j)'
    BY <1>3, GotoTyped DEF TakeOver, Lockable, Places
  <2>4. \A j \in Keys : PlaceInv(j)' BY <1>3 DEF TakeOver, TypeInv, TypeOK, PlaceInv, Goto, Handler
  <2> QED BY <1>3, <2>2, <2>3, <2>4 DEF TakeOver, TypeInv, TypeOK
<1>4. ASSUME NEW k \in Keys, AnswerPending(k) PROVE TypeInv'
  <2> DEFINE a == IF store[k].evidence # {} THEN Reply("submitted", store[k].evidence, TRUE)
                ELSE Reply("pending", {}, FALSE)
  <2>1. a \in ReplyType BY DEF TypeInv, TypeOK, SubmissionRecord, Reply, ReplyType
  <2>2. Answer(k, a) BY <1>4 DEF AnswerPending
  <2> HIDE DEF a
  <2> QED BY <1>4, <2>1, <2>2, AnswerTyped DEF AnswerPending, Lockable, TypeInv, TypeOK
<1>5. ASSUME NEW k \in Keys, AnswerReplay(k) PROVE TypeInv'
  <2> DEFINE a == Reply("submitted", store[k].result, store[k].partial)
  <2>1. a \in ReplyType BY DEF TypeInv, TypeOK, SubmissionRecord, Reply, ReplyType
  <2>2. Answer(k, a) BY <1>5 DEF AnswerReplay
  <2> HIDE DEF a
  <2> QED BY <1>5, <2>1, <2>2, AnswerTyped DEF AnswerReplay, Lockable, TypeInv, TypeOK
<1>6. ASSUME NEW k \in Keys, BuildFails(k) PROVE TypeInv'
  BY <1>6, FailTyped DEF BuildFails, TypeInv, LockInv, At
<1>7. ASSUME NEW k \in Keys, Build(k) PROVE TypeInv'
  <2> DEFINE w == Work("submit", 1, handler[k].sigs, handler[k].partial)
  <2>1. w \in Handler /\ w.at = "submit" /\ w.leg = 1
    BY DEF TypeInv, TypeOK, Work, Handler, SweepLeg
  <2>2. handler' = [handler EXCEPT ![k] = w] BY <1>7 DEF Build, TypeInv, TypeOK
  <2>3. builds' \in [Keys -> 0..MaxBuilds] /\ builds'[k] >= 1 BY <1>7 DEF Build, TypeInv, TypeOK
  <2> HIDE DEF w
  <2>4. \A j \in Keys : PlaceInv(j)' BY <1>7, <2>1, <2>2, <2>3 DEF Build, TypeInv, TypeOK, PlaceInv
  <2> QED BY <1>7, <2>1, <2>2, <2>3, <2>4, MoveTyped DEF Build, TypeInv, TypeOK, LockInv, At
<1>8. ASSUME NEW k \in Keys, MarkStarted(k) PROVE TypeInv'
  <2>1. Record("broadcast_started", store[k].owner, store[k].evidence \cup {Current(k)}, store[k].result,
               store[k].partial) \in SubmissionRecord
    BY <1>8, CurrentTyped DEF MarkStarted, At, TypeInv, TypeOK, Record, SubmissionRecord
  <2>2. store' \in [Keys -> SubmissionRecord] BY <1>8, <2>1 DEF MarkStarted, TypeInv, TypeOK
  <2>3. handler' \in [Keys -> Handler] /\ \A j \in Keys : LockInv(j)'
    BY <1>8, GotoTyped DEF MarkStarted, TypeInv, LockInv, At, Places
  <2>4. \A j \in Keys : PlaceInv(j)'
    BY <1>8 DEF MarkStarted, TypeInv, TypeOK, PlaceInv, At, Goto, Handler
  <2> QED BY <1>8, <2>2, <2>3, <2>4 DEF MarkStarted, TypeInv, TypeOK
<1>9. ASSUME NEW k \in Keys, Send(k) PROVE TypeInv'
  <2>1. chain' \in [Keys -> [Tx -> TxState]] BY <1>9 DEF Send, SetTx, TypeInv, TypeOK, TxState
  <2>2. handler' \in [Keys -> Handler] /\ \A j \in Keys : LockInv(j)'
    BY <1>9, GotoTyped DEF Send, TypeInv, LockInv, At, Places
  <2>3. \A j \in Keys : PlaceInv(j)' BY <1>9 DEF Send, TypeInv, TypeOK, PlaceInv, At, Goto, Handler
  <2> QED BY <1>9, <2>1, <2>2, <2>3 DEF Send, TypeInv, TypeOK
<1>10. ASSUME NEW k \in Keys, RpcAccepts(k) PROVE TypeInv'
  <2> DEFINE place == AfterAccept(k)
             leg == IF place = "submit" THEN handler[k].leg + 1 ELSE handler[k].leg
             w == Work(place, leg, handler[k].sigs \cup {Current(k)}, handler[k].partial)
  <2>1. place \in {"sold", "submit", "confirm", "finish"}
    BY DEF AfterAccept
  <2>2. leg \in 1..SweepLeg
    BY <1>10 DEF RpcAccepts, At, TypeInv, TypeOK, PlaceInv, Handler, AfterAccept, LegsOf, SweepLeg
  <2>3. Current(k) \in Tx BY <1>10, CurrentTyped DEF RpcAccepts, At
  <2>4. handler' = [handler EXCEPT ![k] = w] BY <1>10 DEF RpcAccepts, TypeInv, TypeOK
  <2>5. builds[k] >= 1 BY <1>10 DEF RpcAccepts, At, TypeInv, PlaceInv
  <2> HIDE DEF place, leg
  <2>6. w \in Handler /\ w.at = place /\ w.leg = leg
    BY <2>1, <2>2, <2>3 DEF TypeInv, TypeOK, Work, Handler, SweepLeg
  <2> HIDE DEF w
  <2>7. \A j \in Keys : PlaceInv(j)'
    BY <1>10, <2>2, <2>4, <2>5, <2>6 DEF RpcAccepts, TypeInv, TypeOK, PlaceInv
  <2>8. queued[k] > 0 BY <1>10 DEF RpcAccepts, TypeInv, LockInv, At
  <2> QED BY <1>10, <2>1, <2>4, <2>6, <2>7, <2>8, MoveTyped DEF RpcAccepts, TypeInv, TypeOK
<1>11. ASSUME NEW k \in Keys, RpcRefuses(k) PROVE TypeInv'
  <2>1. queued[k] > 0 /\ UNCHANGED <<side, instance, builds, chain>>
    BY <1>11 DEF RpcRefuses, TypeInv, LockInv, At
  <2>2. CASE ReleaseAndFail(k) BY <2>1, <2>2, FailTyped
  <2>3. CASE StopPartial(k) BY <2>1, <2>3, StopTyped
  <2>4. CASE (Goto(k, "sale") \/ Goto(k, "finish") \/ Goto(k, "build"))
        /\ UNCHANGED <<store, queued, reply>>
    BY <2>1, <2>4, GotoStep DEF Places
  <2> QED BY <1>11, <2>2, <2>3, <2>4 DEF RpcRefuses
<1>12. ASSUME NEW k \in Keys, RpcTimesOut(k) PROVE TypeInv'
  <2>1. queued[k] > 0 /\ UNCHANGED <<side, instance, builds, chain>>
    BY <1>12 DEF RpcTimesOut, TypeInv, LockInv, At
  <2>2. CASE ReleaseAndFail(k) BY <2>1, <2>2, FailTyped
  <2>3. CASE StopPartial(k) BY <2>1, <2>3, StopTyped
  <2>4. CASE Goto(k, "finish") /\ UNCHANGED <<store, queued, reply>>
    BY <2>1, <2>4, GotoStep DEF Places
  <2>5. CASE Answer(k, Reply("unavailable", {}, FALSE)) /\ UNCHANGED store
    <3>1. Reply("unavailable", {}, FALSE) \in ReplyType BY DEF Reply, ReplyType
    <3> QED BY <2>1, <2>5, <3>1, AnswerTyped DEF TypeInv, TypeOK
  <2> QED BY <1>12, <2>2, <2>3, <2>4, <2>5 DEF RpcTimesOut
<1>13. ASSUME NEW k \in Keys, SendExternal(k) PROVE TypeInv'
  <2> DEFINE w == Work("external", SwapLeg(k), handler[k].sigs, handler[k].partial)
  <2>1. SwapLeg(k) \in 1..SweepLeg BY DEF SwapLeg, SweepLeg
  <2>2. w \in Handler /\ w.at = "external" /\ w.leg >= 1
    BY <2>1 DEF TypeInv, TypeOK, Work, Handler, SweepLeg
  <2>3. handler' = [handler EXCEPT ![k] = w] BY <1>13 DEF SendExternal, TypeInv, TypeOK
  <2>4. builds' \in [Keys -> 0..MaxBuilds] /\ builds'[k] >= 1 BY <1>13 DEF SendExternal, TypeInv, TypeOK
  <2>5. chain' \in [Keys -> [Tx -> TxState]] BY <1>13 DEF SendExternal, SetTx, TypeInv, TypeOK, TxState
  <2>6. queued[k] > 0 BY <1>13 DEF SendExternal, SwapOffered, TypeInv, LockInv, At
  <2> HIDE DEF w
  <2>7. \A j \in Keys : PlaceInv(j)'
    BY <1>13, <2>2, <2>3, <2>4 DEF SendExternal, TypeInv, TypeOK, PlaceInv
  <2> QED BY <1>13, <2>2, <2>3, <2>4, <2>5, <2>6, <2>7, MoveTyped DEF SendExternal, TypeInv, TypeOK
<1>14. ASSUME NEW k \in Keys, ExternalAccepts(k) PROVE TypeInv'
  <2> DEFINE place == AfterAccept(k)
             w == Work(place, handler[k].leg, handler[k].sigs \cup {Current(k)}, handler[k].partial)
  <2>1. place \in {"sold", "submit", "confirm", "finish"}
    BY DEF AfterAccept
  <2>2. handler[k].leg \in 1..SweepLeg
    BY <1>14 DEF ExternalAccepts, At, TypeInv, TypeOK, PlaceInv, Handler, SweepLeg
  <2>3. Current(k) \in Tx BY <1>14, CurrentTyped DEF ExternalAccepts, At
  <2>4. handler' = [handler EXCEPT ![k] = w] BY <1>14 DEF ExternalAccepts, TypeInv, TypeOK
  <2>5. builds[k] >= 1 BY <1>14 DEF ExternalAccepts, At, TypeInv, PlaceInv
  <2> HIDE DEF place
  <2>6. w \in Handler /\ w.at = place /\ w.leg = handler[k].leg
    BY <2>1, <2>2, <2>3 DEF TypeInv, TypeOK, Work, Handler, SweepLeg
  <2> HIDE DEF w
  <2>7. \A j \in Keys : PlaceInv(j)'
    BY <1>14, <2>2, <2>4, <2>5, <2>6 DEF ExternalAccepts, TypeInv, TypeOK, PlaceInv
  <2>8. queued[k] > 0 BY <1>14 DEF ExternalAccepts, TypeInv, LockInv, At
  <2> QED BY <1>14, <2>1, <2>4, <2>6, <2>7, <2>8, MoveTyped DEF ExternalAccepts, TypeInv, TypeOK
<1>15. ASSUME NEW k \in Keys, ExternalFails(k) PROVE TypeInv'
  BY <1>15, GotoStep DEF ExternalFails, TypeInv, LockInv, At, Places
<1>16. ASSUME NEW k \in Keys, Confirmed(k) PROVE TypeInv'
  BY <1>16, GotoStep DEF Confirmed, TypeInv, LockInv, At, Places
<1>17. ASSUME NEW k \in Keys, ListSellable(k) PROVE TypeInv'
  BY <1>17, GotoStep DEF ListSellable, TypeInv, LockInv, At, Places
<1>18. ASSUME NEW k \in Keys, SweepEnds(k) PROVE TypeInv'
  BY <1>18, GotoStep DEF SweepEnds, TypeInv, LockInv, At, Places
<1>19. ASSUME NEW k \in Keys, NotConfirmed(k) PROVE TypeInv'
  BY <1>19, StopTyped DEF NotConfirmed, TypeInv, LockInv, At
<1>20. ASSUME NEW k \in Keys, SellResidual(k) PROVE TypeInv'
  <2> DEFINE w == Work("submit", SweepLeg, handler[k].sigs, handler[k].partial)
  <2>1. w \in Handler /\ w.at = "submit" /\ w.leg >= 1
    BY DEF TypeInv, TypeOK, Work, Handler, SweepLeg
  <2>2. handler' = [handler EXCEPT ![k] = w] BY <1>20 DEF SellResidual, TypeInv, TypeOK
  <2>3. builds' \in [Keys -> 0..MaxBuilds] /\ builds'[k] >= 1 BY <1>20 DEF SellResidual, TypeInv, TypeOK
  <2> HIDE DEF w
  <2>4. \A j \in Keys : PlaceInv(j)'
    BY <1>20, <2>1, <2>2, <2>3 DEF SellResidual, TypeInv, TypeOK, PlaceInv
  <2> QED BY <1>20, <2>1, <2>2, <2>3, <2>4, MoveTyped DEF SellResidual, TypeInv, TypeOK, LockInv, At
<1>21. ASSUME NEW k \in Keys, ReadFails(k) PROVE TypeInv'
  <2>1. Reply("bad_request", {}, FALSE) \in ReplyType BY DEF Reply, ReplyType
  <2>2. queued[k] > 0 BY <1>21 DEF ReadFails, TypeInv, LockInv, At
  <2> QED BY <1>21, <2>1, <2>2, AnswerTyped DEF ReadFails, TypeInv, TypeOK
<1>22. ASSUME NEW k \in Keys, Complete(k) PROVE TypeInv'
  <2>1. Reply("submitted", handler[k].sigs, handler[k].partial) \in ReplyType
    BY DEF TypeInv, TypeOK, Handler, Reply, ReplyType
  <2>2. Record("submitted", store[k].owner, store[k].evidence, handler[k].sigs, handler[k].partial)
          \in SubmissionRecord
    BY DEF TypeInv, TypeOK, Handler, Record, SubmissionRecord
  <2>3. queued[k] > 0 BY <1>22 DEF Complete, TypeInv, LockInv, At
  <2> QED BY <1>22, <2>1, <2>2, <2>3, AnswerTyped DEF Complete, TypeInv, TypeOK
<1>23. CASE Restart
  <2>1. Idle \in Handler BY DEF Idle, Work, Handler, SweepLeg
  <2> QED BY <1>23, <2>1 DEF Restart, TypeInv, TypeOK, LockInv, PlaceInv, At, Idle, Work
<1>24. CASE Network
  <2>1. ASSUME NEW from, NEW to \in TxState, Becomes(from, to) PROVE TypeInv'
    <3>1. chain' \in [Keys -> [Tx -> TxState]] BY <2>1 DEF Becomes, SetTx, TypeInv, TypeOK
    <3> QED BY <2>1, <3>1 DEF Becomes, TypeInv, TypeOK, LockInv, PlaceInv, At
  <2> QED BY <1>24, <2>1 DEF Network, NetworkAccepts, NetworkRejects, Lands, FailsOnChain, TxState
<1>25. CASE UNCHANGED vars
  BY <1>25 DEF vars, TypeInv, TypeOK, LockInv, PlaceInv, At
<1> QED BY <1>1, <1>2, <1>3, <1>4, <1>5, <1>6, <1>7, <1>8, <1>9, <1>10, <1>11, <1>12, <1>13, <1>14,
           <1>15, <1>16, <1>17, <1>18, <1>19, <1>20, <1>21, <1>22, <1>23, <1>24, <1>25 DEF Next,
           Serve, Handle

\* Every state has the declared types, whatever fault may occur: records, handlers and answers name
\* only transactions that can exist, and no queue or counter leaves its bounds.
THEOREM Typing == Spec => []TypeOK
<1>1. Init => TypeInv BY TypeInit
<1>2. TypeInv /\ [Next]_vars => TypeInv' BY TypeStep
<1>3. TypeInv => TypeOK BY DEF TypeInv
<1> QED BY <1>1, <1>2, <1>3, PTL DEF Spec

-----------------------------------------------------------------------------
(* The send path.                                                          *)

USE ConstantsAssumption

\* A step of one request leaves the other keys alone.
Same(j) ==
  /\ store'[j] = store[j] /\ builds'[j] = builds[j] /\ chain'[j] = chain[j]
  /\ handler'[j] = handler[j] /\ reply'[j] = reply[j]

LEMMA SameKeepsInv == ASSUME NEW j \in Keys, KeyInv(j), Same(j) PROVE KeyInv(j)'
BY DEF Same, KeyInv, StoreInv, SigsInv, FirstInv, BuildInv, Covered, OneBuild, FailedUnsent, At,
     Current,
       Exposed

LEMMA ExposedSame == ASSUME NEW k \in Keys, chain'[k] = chain[k] PROVE Exposed(k)' = Exposed(k)
BY DEF Exposed

\* What the building blocks do to the request's handler and answer.
LEMMA GotoEffect ==
  ASSUME TypeInv, NEW k \in Keys, NEW p \in Places, Goto(k, p)
  PROVE /\ handler'[k].at = p /\ handler'[k].leg = handler[k].leg /\ handler'[k].sigs = handler[k].sigs
        /\ \A j \in Keys \ {k} : handler'[j] = handler[j]
BY DEF TypeInv, TypeOK, Goto, Handler

LEMMA AnswerEffect ==
  ASSUME TypeInv, NEW k \in Keys, NEW a, Answer(k, a)
  PROVE /\ handler'[k].at = "idle" /\ handler'[k].sigs = {}
        /\ reply'[k] \in {reply[k], a}
        /\ \A j \in Keys \ {k} : handler'[j] = handler[j] /\ reply'[j] = reply[j]
BY DEF TypeInv, TypeOK, Answer, Idle, Work

\* A request that is answered leaves nothing behind but the record.
LEMMA AnswerKeepsInv ==
  ASSUME TypeInv, NEW k \in Keys, KeyInv(k), NEW a, Answer(k, a), UNCHANGED <<builds, chain>>,
         a.kind = "failed" => Exposed(k) = {},
         \A t \in Exposed(k) :
           store'[k].phase \in {"broadcast_started", "submitted"} /\ t \in store'[k].evidence,
         \A j \in Keys \ {k} : store'[j] = store[j]
  PROVE KeyInv(k)' /\ \A j \in Keys \ {k} : Same(j)
<1>1. Exposed(k)' = Exposed(k) BY ExposedSame
<1>2. KeyInv(k)'
  BY <1>1, AnswerEffect DEF KeyInv, StoreInv, SigsInv, FirstInv, BuildInv, Covered, OneBuild,
                            FailedUnsent, At
<1>3. \A j \in Keys \ {k} : Same(j) BY AnswerEffect DEF Same
<1> QED BY <1>2, <1>3

LEMMA FailKeepsInv ==
  ASSUME TypeInv, NEW k \in Keys, KeyInv(k), Exposed(k) = {}, ReleaseAndFail(k), UNCHANGED <<builds,
           chain>>
  PROVE KeyInv(k)' /\ \A j \in Keys \ {k} : Same(j)
<1>1. \A j \in Keys \ {k} : store'[j] = store[j] BY DEF ReleaseAndFail, TypeInv, TypeOK
<1> QED BY <1>1, AnswerKeepsInv DEF ReleaseAndFail

LEMMA StopKeepsInv ==
  ASSUME TypeInv, NEW k \in Keys, KeyInv(k), handler[k].sigs # {}, ~At(k, "idle"), StopPartial(k),
         UNCHANGED <<builds, chain>>
  PROVE KeyInv(k)' /\ \A j \in Keys \ {k} : Same(j)
<1>1. Exposed(k)' = Exposed(k) BY ExposedSame
<1>2. /\ handler'[k].at = "finish" /\ handler'[k].sigs = handler[k].sigs
      /\ \A j \in Keys \ {k} : handler'[j] = handler[j]
  BY DEF StopPartial, TypeInv, TypeOK, Work
<1>3. store' = store /\ reply' = reply BY DEF StopPartial
<1>4. KeyInv(k)'
  BY <1>1, <1>2, <1>3 DEF KeyInv, StoreInv, SigsInv, FirstInv, BuildInv, Covered, OneBuild,
                          FailedUnsent, At
<1>5. \A j \in Keys \ {k} : Same(j) BY <1>2, <1>3 DEF Same
<1> QED BY <1>4, <1>5

\* A request that moves on, without sending, to a place whose conditions hold.
LEMMA GotoKeepsInv ==
  ASSUME TypeInv, NEW k \in Keys, KeyInv(k), NEW p \in Places, Goto(k, p), ~At(k, "idle"),
         UNCHANGED <<store, builds, chain, reply>>,
         p \in {"build", "confirm", "sweep", "sale", "sold", "finish"},
         p = "build" => handler[k].sigs = {} /\ Exposed(k) = {},
         p # "build" => handler[k].sigs # {},
         p \in {"confirm", "sweep", "sale"} => \A t \in Exposed(k) : t[2] # SweepLeg
  PROVE KeyInv(k)' /\ \A j \in Keys \ {k} : Same(j)
<1>1. Exposed(k)' = Exposed(k) BY ExposedSame
<1>2. KeyInv(k)'
  BY <1>1, GotoEffect DEF KeyInv, StoreInv, SigsInv, FirstInv, BuildInv, Covered, OneBuild,
                          FailedUnsent, At
<1>3. \A j \in Keys \ {k} : Same(j) BY GotoEffect DEF Same
<1> QED BY <1>2, <1>3

LEMMA SafetyInit == ASSUME Init PROVE SafetyInv
<1>1. \A k \in Keys : KeyInv(k)
  <2> SUFFICES ASSUME NEW k \in Keys PROVE KeyInv(k) OBVIOUS
  <2>1. Exposed(k) = {} BY DEF Init, Exposed
  <2>2. handler[k].at = "idle" /\ reply[k].kind = "none" BY DEF Init, Idle, Work, NoReply, Reply
  <2> QED BY <2>1, <2>2 DEF KeyInv, StoreInv, SigsInv, FirstInv, BuildInv, Covered, OneBuild,
     FailedUnsent,
                            At
<1> QED BY <1>1, TypeInit DEF SafetyInv

LEMMA RequestKeepsInv ==
  ASSUME TypeInv, NEW k \in Keys, KeyInv(k), Request(k)
  PROVE KeyInv(k)' /\ \A j \in Keys \ {k} : Same(j)
<1>1. Exposed(k)' = Exposed(k) BY ExposedSame DEF Request
<1>2. reply'[k].kind = "none" /\ \A j \in Keys \ {k} : reply'[j] = reply[j]
  BY DEF Request, TypeInv, TypeOK, NoReply, Reply
<1>3. KeyInv(k)' BY <1>1, <1>2 DEF Request, KeyInv, StoreInv, SigsInv, FirstInv, BuildInv, Covered,
     OneBuild, FailedUnsent, At, Current
<1> QED BY <1>2, <1>3 DEF Request, Same

LEMMA ReserveNewKeepsInv ==
  ASSUME TypeInv, NEW k \in Keys, KeyInv(k), ReserveNew(k)
  PROVE KeyInv(k)' /\ \A j \in Keys \ {k} : Same(j)
<1>1. Exposed(k) = {} BY DEF ReserveNew, KeyInv, Covered
<1>2. Exposed(k)' = Exposed(k) BY ExposedSame DEF ReserveNew
<1>3. /\ handler'[k].at = "build" /\ handler'[k].sigs = {}
      /\ \A j \in Keys \ {k} : handler'[j] = handler[j]
  BY GotoEffect DEF ReserveNew, Places, Lockable, TypeInv, LockInv
<1>4. store'[k].phase = "reserved" /\ \A j \in Keys \ {k} : store'[j] = store[j]
  BY DEF ReserveNew, TypeInv, TypeOK, Reservation, Record
<1>5. KeyInv(k)' BY <1>1, <1>2, <1>3, <1>4 DEF KeyInv, StoreInv, SigsInv, FirstInv, BuildInv,
     Covered, OneBuild, FailedUnsent, At, Current
<1> QED BY <1>3, <1>4, <1>5 DEF ReserveNew, Same

LEMMA TakeOverKeepsInv ==
  ASSUME TypeInv, NEW k \in Keys, KeyInv(k), TakeOver(k)
  PROVE KeyInv(k)' /\ \A j \in Keys \ {k} : Same(j)
<1>1. Exposed(k) = {} BY DEF TakeOver, KeyInv, Covered
<1>2. Exposed(k)' = Exposed(k) BY ExposedSame DEF TakeOver
<1>3. /\ handler'[k].at = "build" /\ handler'[k].sigs = {}
      /\ \A j \in Keys \ {k} : handler'[j] = handler[j]
  BY GotoEffect DEF TakeOver, Places, Lockable, TypeInv, LockInv
<1>4. store'[k].phase = "reserved" /\ \A j \in Keys \ {k} : store'[j] = store[j]
  BY DEF TakeOver, TypeInv, TypeOK, Reservation, Record
<1>5. KeyInv(k)' BY <1>1, <1>2, <1>3, <1>4 DEF KeyInv, StoreInv, SigsInv, FirstInv, BuildInv,
     Covered, OneBuild, FailedUnsent, At, Current
<1> QED BY <1>3, <1>4, <1>5 DEF TakeOver, Same

LEMMA AnswerPendingKeepsInv ==
  ASSUME TypeInv, NEW k \in Keys, KeyInv(k), AnswerPending(k)
  PROVE KeyInv(k)' /\ \A j \in Keys \ {k} : Same(j)
<1> DEFINE a == IF store[k].evidence # {} THEN Reply("submitted", store[k].evidence, TRUE)
                ELSE Reply("pending", {}, FALSE)
<1>1. Answer(k, a) /\ a.kind # "failed" BY DEF AnswerPending, Reply
<1> HIDE DEF a
<1> QED BY <1>1, AnswerKeepsInv DEF AnswerPending, KeyInv, Covered

LEMMA AnswerReplayKeepsInv ==
  ASSUME TypeInv, NEW k \in Keys, KeyInv(k), AnswerReplay(k)
  PROVE KeyInv(k)' /\ \A j \in Keys \ {k} : Same(j)
<1> DEFINE a == Reply("submitted", store[k].result, store[k].partial)
<1>1. Answer(k, a) /\ a.kind # "failed" BY DEF AnswerReplay, Reply
<1> HIDE DEF a
<1> QED BY <1>1, AnswerKeepsInv DEF AnswerReplay, KeyInv, Covered

LEMMA BuildFailsKeepsInv ==
  ASSUME TypeInv, NEW k \in Keys, KeyInv(k), BuildFails(k)
  PROVE KeyInv(k)' /\ \A j \in Keys \ {k} : Same(j)
<1>1. Exposed(k) = {} BY DEF BuildFails, At, KeyInv, SigsInv, FirstInv
<1> QED BY <1>1, FailKeepsInv DEF BuildFails

LEMMA BuildKeepsInv ==
  ASSUME TypeInv, NEW k \in Keys, KeyInv(k), Build(k)
  PROVE KeyInv(k)' /\ \A j \in Keys \ {k} : Same(j)
<1>1. Exposed(k) = {} BY DEF Build, At, KeyInv, SigsInv, FirstInv
<1>2. Exposed(k)' = Exposed(k) BY ExposedSame DEF Build
<1>3. /\ handler'[k].at = "submit" /\ handler'[k].leg = 1 /\ handler'[k].sigs = {}
      /\ \A j \in Keys \ {k} : handler'[j] = handler[j]
  BY DEF Build, Work, TypeInv, TypeOK, At, KeyInv, SigsInv
<1>4. 1 # SweepLeg BY DEF SweepLeg
<1>5. KeyInv(k)' BY <1>1, <1>2, <1>3, <1>4 DEF Build, KeyInv, StoreInv, SigsInv, FirstInv,
     BuildInv, Covered, OneBuild, FailedUnsent, At, Current
<1>6. \A j \in Keys \ {k} : builds'[j] = builds[j] BY DEF Build, TypeInv, TypeOK
<1> QED BY <1>3, <1>5, <1>6 DEF Build, Same

LEMMA MarkStartedKeepsInv ==
  ASSUME TypeInv, NEW k \in Keys, KeyInv(k), MarkStarted(k)
  PROVE KeyInv(k)' /\ \A j \in Keys \ {k} : Same(j)
<1>1. Exposed(k)' = Exposed(k) BY ExposedSame DEF MarkStarted
<1>2. /\ handler'[k].at = "send" /\ handler'[k].leg = handler[k].leg
      /\ handler'[k].sigs = handler[k].sigs
      /\ \A j \in Keys \ {k} : handler'[j] = handler[j]
  BY GotoEffect DEF MarkStarted, Places
<1>3. /\ store'[k].phase = "broadcast_started"
      /\ store'[k].evidence = store[k].evidence \cup {Current(k)}
      /\ \A j \in Keys \ {k} : store'[j] = store[j]
  BY DEF MarkStarted, TypeInv, TypeOK, Record
<1>4. Current(k)' = Current(k) BY <1>2 DEF MarkStarted, Current
<1>5. StoreInv(k)' BY <1>2, <1>3, <1>4 DEF StoreInv, At
<1>6. SigsInv(k)' /\ FirstInv(k)' /\ FailedUnsent(k)'
  BY <1>1, <1>2 DEF MarkStarted, KeyInv, SigsInv, FirstInv, FailedUnsent, At
<1>7. BuildInv(k)' /\ OneBuild(k)' BY <1>1, <1>2 DEF MarkStarted, KeyInv, BuildInv, OneBuild, At
<1>8. Covered(k)' BY <1>1, <1>3 DEF KeyInv, Covered
<1> QED BY <1>2, <1>3, <1>5, <1>6, <1>7, <1>8 DEF MarkStarted, Same, KeyInv

LEMMA SendKeepsInv ==
  ASSUME TypeInv, NEW k \in Keys, KeyInv(k), Send(k)
  PROVE KeyInv(k)' /\ \A j \in Keys \ {k} : Same(j)
<1>1. Current(k) \in Tx BY CurrentTyped DEF Send, At
<1>2. Exposed(k)' = Exposed(k) \cup {Current(k)} BY <1>1 DEF Send, SetTx, Exposed, TypeInv, TypeOK
<1>3. /\ handler'[k].at = "rpc" /\ handler'[k].leg = handler[k].leg
      /\ handler'[k].sigs = handler[k].sigs
      /\ \A j \in Keys \ {k} : handler'[j] = handler[j]
  BY GotoEffect DEF Send, Places
<1>4. \A j \in Keys \ {k} : chain'[j] = chain[j] BY DEF Send, SetTx, TypeInv, TypeOK
<1>5. reply[k].kind # "failed" BY DEF Send, At, TypeInv, TypeOK, LockInv
<1>6. (handler[k].leg = SweepLeg <=> Current(k)[2] = SweepLeg) /\ Current(k)[1] = builds[k] BY DEF
     Current
<1>7. StoreInv(k)' /\ SigsInv(k)' /\ FirstInv(k)' /\ Covered(k)' /\ FailedUnsent(k)'
  BY <1>2, <1>3, <1>5 DEF Send, KeyInv, StoreInv, SigsInv, FirstInv, BuildInv, Covered, OneBuild,
     FailedUnsent, At, Current
<1>8. BuildInv(k)' /\ OneBuild(k)' BY <1>2, <1>3, <1>6 DEF Send, KeyInv, StoreInv, SigsInv,
     FirstInv, BuildInv, Covered, OneBuild, FailedUnsent, At, Current
<1> QED BY <1>3, <1>4, <1>7, <1>8 DEF Send, Same, KeyInv

LEMMA RpcAcceptsKeepsInv ==
  ASSUME TypeInv, NEW k \in Keys, KeyInv(k), RpcAccepts(k)
  PROVE KeyInv(k)' /\ \A j \in Keys \ {k} : Same(j)
<1> DEFINE place == AfterAccept(k)
           leg == IF place = "submit" THEN handler[k].leg + 1 ELSE handler[k].leg
           sigs == handler[k].sigs \cup {Current(k)}
<1>1. Exposed(k)' = Exposed(k) BY ExposedSame DEF RpcAccepts
<1>2. /\ place \in {"sold", "submit", "confirm", "finish"}
      /\ place \in {"submit", "confirm"} => handler[k].leg # SweepLeg
      /\ place = "submit" => leg # SweepLeg
  BY DEF AfterAccept, LegsOf, SweepLeg, TypeInv, TypeOK, Handler
<1>3. sigs # {} OBVIOUS
<1> HIDE DEF place, leg, sigs
<1>4. /\ handler'[k].at = place /\ handler'[k].leg = leg /\ handler'[k].sigs = sigs
      /\ \A j \in Keys \ {k} : handler'[j] = handler[j]
  BY DEF RpcAccepts, Work, TypeInv, TypeOK, place, leg, sigs
<1>5. UNCHANGED <<store, builds, chain, reply>> /\ At(k, "rpc") BY DEF RpcAccepts
<1>6. StoreInv(k)' BY <1>2, <1>4, <1>5 DEF KeyInv, StoreInv, At
<1>7. SigsInv(k)' /\ FirstInv(k)' BY <1>2, <1>3, <1>4 DEF SigsInv, FirstInv, At
<1>8. BuildInv(k)'
  <2>1. handler[k].leg # SweepLeg => \A t \in Exposed(k) : t[2] # SweepLeg /\ t[1] = builds[k]
    BY <1>5 DEF KeyInv, BuildInv, At
  <2> QED BY <1>1, <1>2, <1>4, <1>5, <2>1 DEF BuildInv, AfterAccept, At, place
<1>9. Covered(k)' /\ OneBuild(k)' /\ FailedUnsent(k)'
  BY <1>1, <1>5 DEF KeyInv, Covered, OneBuild, FailedUnsent
<1> QED BY <1>4, <1>5, <1>6, <1>7, <1>8, <1>9 DEF KeyInv, Same

LEMMA RpcRefusesKeepsInv ==
  ASSUME Survivable, TypeInv, NEW k \in Keys, KeyInv(k), RpcRefuses(k)
  PROVE KeyInv(k)' /\ \A j \in Keys \ {k} : Same(j)
<1>1. At(k, "rpc") /\ UNCHANGED <<side, instance, builds, chain>> BY DEF RpcRefuses
<1>2. Current(k) \notin Exposed(k)
  BY DEF RpcRefuses, Refused, MayHit, Survivable, Exposed, TypeInv, TypeOK
<1>3. CASE handler[k].leg = SweepLeg
  <2>1. \A t \in Exposed(k) : t[2] # SweepLeg BY <1>1, <1>2, <1>3 DEF At, KeyInv, BuildInv
  <2> QED BY <1>1, <1>3, <2>1, GotoKeepsInv DEF RpcRefuses, KeyInv, SigsInv, At, Places
<1>4. CASE handler[k].leg # SweepLeg /\ handler[k].sigs # {}
  BY <1>1, <1>4, StopKeepsInv DEF RpcRefuses, At
<1>5. CASE handler[k].leg # SweepLeg /\ handler[k].sigs = {}
  <2>1. Exposed(k) = {} BY <1>1, <1>2, <1>5 DEF At, KeyInv, FirstInv
  <2>2. CASE ReleaseAndFail(k) BY <1>1, <2>1, <2>2, FailKeepsInv
  <2>3. CASE Goto(k, "build") /\ UNCHANGED <<store, queued, reply>>
    BY <1>1, <1>5, <2>1, <2>3, GotoKeepsInv DEF At, Places
  <2> QED BY <1>5, <2>2, <2>3 DEF RpcRefuses
<1> QED BY <1>3, <1>4, <1>5

LEMMA RpcTimesOutKeepsInv ==
  ASSUME Survivable, TypeInv, NEW k \in Keys, KeyInv(k), RpcTimesOut(k)
  PROVE KeyInv(k)' /\ \A j \in Keys \ {k} : Same(j)
<1>1. At(k, "rpc") /\ UNCHANGED <<side, instance, builds, chain>> BY DEF RpcTimesOut
<1>2. ~IsSwap(k) BY DEF RpcTimesOut, MayHit, Survivable, IsSwap, SideKinds
<1>3. CASE handler[k].leg = SweepLeg
  BY <1>1, <1>3, GotoKeepsInv DEF RpcTimesOut, KeyInv, SigsInv, At, Places
<1>4. CASE handler[k].leg # SweepLeg /\ handler[k].sigs # {}
  BY <1>1, <1>4, StopKeepsInv DEF RpcTimesOut, At
<1>5. CASE handler[k].leg # SweepLeg /\ handler[k].sigs = {}
  <2> DEFINE a == Reply("unavailable", {}, FALSE)
  <2>1. Answer(k, a) /\ UNCHANGED store /\ a.kind # "failed" BY <1>2, <1>5 DEF RpcTimesOut, Reply
  <2> HIDE DEF a
  <2> QED BY <1>1, <2>1, AnswerKeepsInv DEF KeyInv, Covered
<1> QED BY <1>3, <1>4, <1>5

LEMMA SendExternalKeepsInv ==
  ASSUME Survivable, TypeInv, NEW k \in Keys, KeyInv(k), SendExternal(k)
  PROVE KeyInv(k)' /\ \A j \in Keys \ {k} : Same(j)
BY DEF SendExternal, MayHit, Survivable, TypeInv, TypeOK

LEMMA ExternalAcceptsKeepsInv ==
  ASSUME TypeInv, NEW k \in Keys, KeyInv(k), ExternalAccepts(k)
  PROVE KeyInv(k)' /\ \A j \in Keys \ {k} : Same(j)
BY DEF ExternalAccepts, At, KeyInv, SigsInv

LEMMA ExternalFailsKeepsInv ==
  ASSUME TypeInv, NEW k \in Keys, KeyInv(k), ExternalFails(k)
  PROVE KeyInv(k)' /\ \A j \in Keys \ {k} : Same(j)
BY DEF ExternalFails, At, KeyInv, SigsInv

LEMMA ConfirmedKeepsInv ==
  ASSUME TypeInv, NEW k \in Keys, KeyInv(k), Confirmed(k)
  PROVE KeyInv(k)' /\ \A j \in Keys \ {k} : Same(j)
BY GotoKeepsInv DEF Confirmed, KeyInv, StoreInv, SigsInv, FirstInv, BuildInv, Covered, OneBuild,
     FailedUnsent, At, Current, Places

LEMMA NotConfirmedKeepsInv ==
  ASSUME TypeInv, NEW k \in Keys, KeyInv(k), NotConfirmed(k)
  PROVE KeyInv(k)' /\ \A j \in Keys \ {k} : Same(j)
BY StopKeepsInv DEF NotConfirmed, KeyInv, SigsInv, At

LEMMA ListSellableKeepsInv ==
  ASSUME TypeInv, NEW k \in Keys, KeyInv(k), ListSellable(k)
  PROVE KeyInv(k)' /\ \A j \in Keys \ {k} : Same(j)
BY GotoKeepsInv DEF ListSellable, KeyInv, StoreInv, SigsInv, FirstInv, BuildInv, Covered, OneBuild,
     FailedUnsent, At, Current, Places

LEMMA SellResidualKeepsInv ==
  ASSUME TypeInv, NEW k \in Keys, KeyInv(k), SellResidual(k)
  PROVE KeyInv(k)' /\ \A j \in Keys \ {k} : Same(j)
<1>1. Exposed(k)' = Exposed(k) BY ExposedSame DEF SellResidual
<1>2. /\ handler'[k].at = "submit" /\ handler'[k].leg = SweepLeg
      /\ handler'[k].sigs = handler[k].sigs
      /\ \A j \in Keys \ {k} : handler'[j] = handler[j]
  BY DEF SellResidual, Work, TypeInv, TypeOK
<1>3. KeyInv(k)' BY <1>1, <1>2 DEF SellResidual, KeyInv, StoreInv, SigsInv, FirstInv, BuildInv,
     Covered, OneBuild, FailedUnsent, At, Current
<1>4. \A j \in Keys \ {k} : builds'[j] = builds[j] BY DEF SellResidual, TypeInv, TypeOK
<1> QED BY <1>2, <1>3, <1>4 DEF SellResidual, Same

LEMMA SweepEndsKeepsInv ==
  ASSUME TypeInv, NEW k \in Keys, KeyInv(k), SweepEnds(k)
  PROVE KeyInv(k)' /\ \A j \in Keys \ {k} : Same(j)
BY GotoKeepsInv DEF SweepEnds, KeyInv, SigsInv, At, Places

LEMMA ReadFailsKeepsInv ==
  ASSUME TypeInv, NEW k \in Keys, KeyInv(k), ReadFails(k)
  PROVE KeyInv(k)' /\ \A j \in Keys \ {k} : Same(j)
<1> DEFINE a == Reply("bad_request", {}, FALSE)
<1>1. Answer(k, a) /\ a.kind # "failed" BY DEF ReadFails, Reply
<1> HIDE DEF a
<1> QED BY <1>1, AnswerKeepsInv DEF ReadFails, KeyInv, Covered

LEMMA CompleteKeepsInv ==
  ASSUME TypeInv, NEW k \in Keys, KeyInv(k), Complete(k)
  PROVE KeyInv(k)' /\ \A j \in Keys \ {k} : Same(j)
<1> DEFINE a == Reply("submitted", handler[k].sigs, handler[k].partial)
<1>1. Answer(k, a) /\ a.kind # "failed" BY DEF Complete, Reply
<1>2. /\ store'[k].phase = "submitted" /\ store'[k].evidence = store[k].evidence
      /\ \A j \in Keys \ {k} : store'[j] = store[j]
  BY DEF Complete, TypeInv, TypeOK, Record
<1> HIDE DEF a
<1> QED BY <1>1, <1>2, AnswerKeepsInv DEF Complete, KeyInv, Covered

\* The network never makes a transaction exposed that was not.
LEMMA NetworkKeepsInv ==
  ASSUME TypeInv, NEW k \in Keys, KeyInv(k), Network PROVE KeyInv(k)'
<1>1. Exposed(k)' \subseteq Exposed(k)
  <2>1. ASSUME NEW from \in {"sent", "live"}, NEW to, Becomes(from, to) PROVE Exposed(k)'
               \subseteq Exposed(k)
    BY <2>1 DEF Becomes, SetTx, Exposed, TypeInv, TypeOK
  <2> QED BY <2>1 DEF Network, NetworkAccepts, NetworkRejects, Lands, FailsOnChain
<1>2. UNCHANGED <<store, builds, handler, reply>>
  BY DEF Network, NetworkAccepts, NetworkRejects, Lands, FailsOnChain, Becomes
<1> QED BY <1>1, <1>2 DEF KeyInv, StoreInv, SigsInv, FirstInv, BuildInv, Covered, OneBuild,
     FailedUnsent, At, Current

LEMMA RestartKeepsInv ==
  ASSUME TypeInv, NEW k \in Keys, KeyInv(k), Restart PROVE KeyInv(k)'
<1>1. Exposed(k)' = Exposed(k) BY ExposedSame DEF Restart
<1>2. handler'[k].at = "idle" BY DEF Restart, Idle, Work
<1> QED BY <1>1, <1>2 DEF Restart, KeyInv, StoreInv, SigsInv, FirstInv, BuildInv, Covered,
     OneBuild, FailedUnsent, At, Current

LEMMA SafetyStep == ASSUME Survivable, SafetyInv, [Next]_vars PROVE SafetyInv'
<1>1. TypeInv' BY TypeStep DEF SafetyInv
<1>2. ASSUME NEW k \in Keys, Request(k) \/ Serve(k) PROVE KeyInv(k)' /\ \A j \in Keys \ {k} : Same(j)
  BY <1>2, RequestKeepsInv, ReserveNewKeepsInv, TakeOverKeepsInv, AnswerPendingKeepsInv,
     AnswerReplayKeepsInv, BuildFailsKeepsInv, BuildKeepsInv, MarkStartedKeepsInv, SendKeepsInv,
     RpcAcceptsKeepsInv, RpcRefusesKeepsInv, RpcTimesOutKeepsInv, SendExternalKeepsInv,
     ExternalAcceptsKeepsInv, ExternalFailsKeepsInv, ConfirmedKeepsInv, NotConfirmedKeepsInv,
     ListSellableKeepsInv, SellResidualKeepsInv, SweepEndsKeepsInv, ReadFailsKeepsInv,
     CompleteKeepsInv
     DEF SafetyInv, Serve, Handle
<1>3. \A j \in Keys : KeyInv(j)'
  <2>1. CASE \E k \in Keys : Request(k) \/ Serve(k) BY <1>2, <2>1, SameKeepsInv DEF SafetyInv
  <2>2. CASE Restart BY <2>2, RestartKeepsInv DEF SafetyInv
  <2>3. CASE Network BY <2>3, NetworkKeepsInv DEF SafetyInv
  <2>4. CASE UNCHANGED vars BY <2>4, SameKeepsInv DEF SafetyInv, Same, vars
  <2> QED BY <2>1, <2>2, <2>3, <2>4 DEF Next
<1> QED BY <1>1, <1>3 DEF SafetyInv

LEMMA SafetyAlways == ASSUME Survivable PROVE Spec => []SafetyInv
<1>1. Init => SafetyInv BY SafetyInit
<1>2. SafetyInv /\ [Next]_vars => SafetyInv' BY SafetyStep
<1> QED BY <1>1, <1>2, PTL DEF Spec

\* Under the faults the sidecar is built to survive, a transaction that may have had an effect on
\* the chain is named in the durable record of its key, whatever is retried, restarted or timed
\* out: its signature is stored before sendTransaction is called.
THEOREM EvidencePrecedesExposure ==
  ASSUME Survivable PROVE Spec => []EvidenceCoversExposure
<1>1. SafetyInv => EvidenceCoversExposure
  BY DEF SafetyInv, KeyInv, Covered, EvidenceCoversExposure
<1> QED BY SafetyAlways, <1>1, PTL

\* Under the same faults one intent is executed by one batch: no retry and no restart builds a
\* second one while transactions of the first may take effect.
THEOREM BuiltOnce == ASSUME Survivable PROVE Spec => []OneBuildPerIntent
<1>1. SafetyInv => OneBuildPerIntent BY DEF SafetyInv, KeyInv, OneBuild, OneBuildPerIntent
<1> QED BY SafetyAlways, <1>1, PTL

\* Under the same faults an answer "failed" means that nothing of the order is on its way, so the
\* daemon may drop it.
THEOREM FailedIsUnsent == ASSUME Survivable PROVE Spec => []FailedMeansNothingSent
<1>1. SafetyInv => FailedMeansNothingSent
  BY DEF SafetyInv, KeyInv, FailedUnsent, FailedMeansNothingSent
<1> QED BY SafetyAlways, <1>1, PTL

-----------------------------------------------------------------------------
(* Stored results.                                                         *)

\* The request that has the lock works on a record that is still pending.
BusyInv == \A k \in Keys : ~At(k, "idle") => store[k].phase \in {"reserved", "broadcast_started"}

\* What a step may do to key k while another key is served.
Apart(k) == store'[k] = store[k] /\ chain'[k] = chain[k] /\ handler'[k] = handler[k]

\* What a step may do to the key it serves.
Working(k) ==
  /\ handler'[k].at = "idle" \/ store'[k].phase \in {"reserved", "broadcast_started"}
  /\ store[k].phase = "submitted" => store'[k] = store[k] /\ chain'[k] = chain[k]

LEMMA ServeWorks ==
  ASSUME TypeInv, BusyInv, NEW k \in Keys, Serve(k)
  PROVE  Working(k) /\ \A j \in Keys \ {k} : Apart(j)
<1> USE DEF Working, Apart
<1>1. CASE ReserveNew(k)
  <2>1. store'[k].phase = "reserved" /\ \A j \in Keys \ {k} : store'[j] = store[j]
    BY <1>1 DEF ReserveNew, Reservation, Record, TypeInv, TypeOK
  <2> QED BY <1>1, <2>1, GotoEffect DEF ReserveNew, Places
<1>2. CASE TakeOver(k)
  <2>1. store'[k].phase = "reserved" /\ \A j \in Keys \ {k} : store'[j] = store[j]
    BY <1>2 DEF TakeOver, Record, TypeInv, TypeOK
  <2> QED BY <1>2, <2>1, GotoEffect DEF TakeOver, Places
<1>3. CASE AnswerPending(k)
  BY <1>3, AnswerEffect DEF AnswerPending
<1>4. CASE AnswerReplay(k)
  BY <1>4, AnswerEffect DEF AnswerReplay
<1>5. CASE BuildFails(k)
  <2>1. CASE ReleaseAndFail(k)
    <3>1. \A j \in Keys \ {k} : store'[j] = store[j] BY <2>1 DEF ReleaseAndFail, TypeInv, TypeOK
    <3> QED BY <1>5, <2>1, <3>1, AnswerEffect DEF ReleaseAndFail, BuildFails, BusyInv, At
  <2> QED BY <1>5, <2>1 DEF BuildFails
<1>6. CASE Build(k)
  <2>1. \A j \in Keys \ {k} : handler'[j] = handler[j] BY <1>6 DEF Build, TypeInv, TypeOK
  <2> QED BY <1>6, <2>1 DEF Build, BusyInv, At
<1>7. CASE MarkStarted(k)
  <2>1. store'[k].phase = "broadcast_started" /\ \A j \in Keys \ {k} : store'[j] = store[j]
    BY <1>7 DEF MarkStarted, Record, TypeInv, TypeOK
  <2> QED BY <1>7, <2>1, GotoEffect DEF MarkStarted, BusyInv, At, Places
<1>8. CASE Send(k)
  <2>1. \A j \in Keys \ {k} : chain'[j] = chain[j] BY <1>8 DEF Send, SetTx, TypeInv, TypeOK
  <2> QED BY <1>8, <2>1, GotoEffect DEF Send, BusyInv, At, Places
<1>9. CASE RpcAccepts(k)
  <2>1. \A j \in Keys \ {k} : handler'[j] = handler[j] BY <1>9 DEF RpcAccepts, TypeInv, TypeOK
  <2> QED BY <1>9, <2>1 DEF RpcAccepts, BusyInv, At
<1>10. CASE RpcRefuses(k)
  <2>1. CASE ReleaseAndFail(k)
    <3>1. \A j \in Keys \ {k} : store'[j] = store[j] BY <2>1 DEF ReleaseAndFail, TypeInv, TypeOK
    <3> QED BY <1>10, <2>1, <3>1, AnswerEffect DEF ReleaseAndFail, RpcRefuses, BusyInv, At
  <2>2. CASE StopPartial(k)
    <3>1. \A j \in Keys \ {k} : handler'[j] = handler[j] BY <2>2 DEF StopPartial, TypeInv, TypeOK
    <3> QED BY <1>10, <2>2, <3>1 DEF StopPartial, RpcRefuses, BusyInv, At
  <2>3. CASE (Goto(k, "sale") \/ Goto(k, "finish") \/ Goto(k, "build"))
        /\ UNCHANGED <<store, queued, reply>>
    BY <1>10, <2>3, GotoEffect DEF RpcRefuses, BusyInv, At, Places
  <2> QED BY <1>10, <2>1, <2>2, <2>3 DEF RpcRefuses
<1>11. CASE RpcTimesOut(k)
  <2>1. CASE ReleaseAndFail(k)
    <3>1. \A j \in Keys \ {k} : store'[j] = store[j] BY <2>1 DEF ReleaseAndFail, TypeInv, TypeOK
    <3> QED BY <1>11, <2>1, <3>1, AnswerEffect DEF ReleaseAndFail, RpcTimesOut, BusyInv, At
  <2>2. CASE StopPartial(k)
    <3>1. \A j \in Keys \ {k} : handler'[j] = handler[j] BY <2>2 DEF StopPartial, TypeInv, TypeOK
    <3> QED BY <1>11, <2>2, <3>1 DEF StopPartial, RpcTimesOut, BusyInv, At
  <2>3. CASE Goto(k, "finish") /\ UNCHANGED <<store, queued, reply>>
    BY <1>11, <2>3, GotoEffect DEF RpcTimesOut, BusyInv, At, Places
  <2>4. CASE Answer(k, Reply("unavailable", {}, FALSE)) /\ UNCHANGED store
    BY <1>11, <2>4, AnswerEffect DEF RpcTimesOut, BusyInv, At
  <2> QED BY <1>11, <2>1, <2>2, <2>3, <2>4 DEF RpcTimesOut
<1>12. CASE SendExternal(k)
  <2>1. \A j \in Keys \ {k} : handler'[j] = handler[j] /\ chain'[j] = chain[j]
    BY <1>12 DEF SendExternal, SetTx, TypeInv, TypeOK
  <2> QED BY <1>12, <2>1 DEF SendExternal, SwapOffered, BusyInv, At
<1>13. CASE ExternalAccepts(k)
  <2>1. \A j \in Keys \ {k} : handler'[j] = handler[j] BY <1>13 DEF ExternalAccepts, TypeInv, TypeOK
  <2> QED BY <1>13, <2>1 DEF ExternalAccepts, BusyInv, At
<1>14. CASE ExternalFails(k)
  BY <1>14, GotoEffect DEF ExternalFails, BusyInv, At, Places
<1>15. CASE Confirmed(k)
  BY <1>15, GotoEffect DEF Confirmed, BusyInv, At, Places
<1>16. CASE NotConfirmed(k)
  <2>1. CASE StopPartial(k)
    <3>1. \A j \in Keys \ {k} : handler'[j] = handler[j] BY <2>1 DEF StopPartial, TypeInv, TypeOK
    <3> QED BY <1>16, <2>1, <3>1 DEF StopPartial, NotConfirmed, BusyInv, At
  <2> QED BY <1>16, <2>1 DEF NotConfirmed
<1>17. CASE ListSellable(k)
  BY <1>17, GotoEffect DEF ListSellable, BusyInv, At, Places
<1>18. CASE SellResidual(k)
  <2>1. \A j \in Keys \ {k} : handler'[j] = handler[j] BY <1>18 DEF SellResidual, TypeInv, TypeOK
  <2> QED BY <1>18, <2>1 DEF SellResidual, BusyInv, At
<1>19. CASE SweepEnds(k)
  BY <1>19, GotoEffect DEF SweepEnds, BusyInv, At, Places
<1>20. CASE ReadFails(k)
  BY <1>20, AnswerEffect DEF ReadFails, BusyInv, At
<1>21. CASE Complete(k)
  <2>1. \A j \in Keys \ {k} : store'[j] = store[j] BY <1>21 DEF Complete, TypeInv, TypeOK
  <2> QED BY <1>21, <2>1, AnswerEffect DEF Complete, BusyInv, At
<1> QED BY <1>1, <1>2, <1>3, <1>4, <1>5, <1>6, <1>7, <1>8, <1>9, <1>10, <1>11, <1>12, <1>13, <1>14,
           <1>15, <1>16, <1>17, <1>18, <1>19, <1>20, <1>21 DEF Serve, Handle

Final(k) ==
  store[k].phase = "submitted" =>
    store'[k] = store[k] /\ \A t \in Tx : chain[k][t] = "none" => chain'[k][t] = "none"

LEMMA BusyStep ==
  ASSUME TypeInv, BusyInv, [Next]_vars
  PROVE  BusyInv' /\ \A k \in Keys : Final(k)
<1>1. ASSUME NEW k \in Keys, Serve(k) PROVE BusyInv' /\ \A j \in Keys : Final(j)
  BY <1>1, ServeWorks DEF BusyInv, Working, Apart, Final, At
<1>2. ASSUME NEW k \in Keys, Request(k) PROVE BusyInv' /\ \A j \in Keys : Final(j)
  BY <1>2 DEF Request, BusyInv, Final, At
<1>3. CASE Restart BY <1>3 DEF Restart, BusyInv, Final, At, Idle, Work
<1>4. CASE Network
  <2>1. ASSUME NEW from \in {"sent", "live"}, NEW to, Becomes(from, to)
        PROVE  BusyInv' /\ \A j \in Keys : Final(j)
    BY <2>1 DEF Becomes, SetTx, TypeInv, TypeOK, BusyInv, Final, At
  <2> QED BY <1>4, <2>1 DEF Network, NetworkAccepts, NetworkRejects, Lands, FailsOnChain
<1>5. CASE UNCHANGED vars BY <1>5 DEF vars, BusyInv, Final, At
<1> QED BY <1>1, <1>2, <1>3, <1>4, <1>5 DEF Next

\* Whatever fault may occur, a stored result is final: its record never changes and nothing more is
\* sent for its key, however often it is requested again and after any number of restarts.
THEOREM ResultIsFinal == Spec => SubmittedIsFinal
<1> DEFINE Inv == TypeInv /\ BusyInv
<1>1. Init => Inv BY TypeInit DEF Init, BusyInv, At, Idle, Work
<1>2. Inv /\ [Next]_vars => Inv' BY TypeStep, BusyStep
<1>3. Inv /\ [Next]_vars => [\A k \in Keys : Final(k)]_vars BY BusyStep
<1>4. [\A k \in Keys : Final(k)]_vars
        => [\A k \in Keys : store[k].phase = "submitted" =>
             /\ store'[k] = store[k]
             /\ \A t \in Tx : chain[k][t] = "none" => chain'[k][t] = "none"]_vars
  BY DEF Final
<1> HIDE DEF Inv
<1> QED BY <1>1, <1>2, <1>3, <1>4, PTL DEF Spec, SubmittedIsFinal
-----------------------------------------------------------------------------
(* Whole batches.                                                          *)

Accepted == {"live", "landed", "failed"}
\* A batch of so many legs, all of them in ids and in a good state on the chain.
WholeOf(onChain, legs, good, ids) ==
  \E b \in 1..MaxBuilds : \A leg \in 1..legs : <<b, leg>> \in ids /\ onChain[<<b, leg>>] \in good
Good(k) == IF IsExit(k) THEN {"landed"} ELSE Accepted
Whole(k, ids) == WholeOf(chain[k], LegsOf(k), Good(k), ids)

\* A transaction that has not been built yet, or not sent yet, is unknown to the network.
FreshInv(k) ==
  \A t \in Tx :
    \/ t[1] > builds[k]
    \/ handler[k].at \in {"submit", "send"} /\ t = Current(k)
    \/ handler[k].at \in {"submit", "send", "rpc"} /\ t[1] = builds[k] /\ t[2] > handler[k].leg
    => chain[k][t] = "none"

\* The handler works on a transaction of the batch, or on the sale of a residual.
Sending(k) == handler[k].at \in {"submit", "send", "rpc", "external"}
OnBatch(k) == Sending(k) /\ handler[k].leg # SweepLeg
OnSale(k) == handler[k].at \in {"sweep", "sale", "sold"} \/ (Sending(k) /\ handler[k].leg = SweepLeg)

\* What the handler has collected: the transactions before the one it works on, the whole batch
\* when it waits for it, and a landed batch when it sells what is left.
BatchInv(k) ==
  /\ \A t \in handler[k].sigs : chain[k][t] \in Accepted
  /\ OnBatch(k) =>
       /\ handler[k].leg <= LegsOf(k)
       /\ \A leg \in 1..(handler[k].leg - 1) : <<builds[k], leg>> \in handler[k].sigs
  /\ At(k, "confirm") =>
       IsExit(k) /\ \E b \in 1..MaxBuilds : \A leg \in 1..LegsOf(k) : <<b, leg>> \in handler[k].sigs
  /\ OnSale(k) => IsExit(k) /\ Whole(k, handler[k].sigs)
  /\ At(k, "external") => handler[k].leg = SwapLeg(k)
  /\ At(k, "finish") /\ ~handler[k].partial => Whole(k, handler[k].sigs)

\* A stored or answered result that is not partial is a whole batch.
ResultInv(k) ==
  /\ store[k].phase = "submitted" /\ ~store[k].partial => Whole(k, store[k].result)
  /\ reply[k].kind = "submitted" /\ ~reply[k].partial => Whole(k, reply[k].ids)

WholeInv(k) == FreshInv(k) /\ BatchInv(k) /\ ResultInv(k)

\* What the network may do to the transactions of a key, and a handler to those it sends.
Grows(before, after) ==
  \A t \in Tx :
    /\ before[t] \in Accepted => after[t] \in Accepted
    /\ before[t] = "landed" => after[t] = "landed"

LEMMA WholeGrows ==
  ASSUME NEW before, NEW after, Grows(before, after), NEW legs \in 1..Legs,
         NEW good \in {{"landed"}, Accepted}, NEW ids, NEW more, ids \subseteq more,
         WholeOf(before, legs, good, ids)
  PROVE  WholeOf(after, legs, good, more)
<1>1. PICK b \in 1..MaxBuilds : \A leg \in 1..legs : <<b, leg>> \in ids /\ before[<<b, leg>>] \in good
  BY DEF WholeOf
<1>2. ASSUME NEW leg \in 1..legs PROVE <<b, leg>> \in more /\ after[<<b, leg>>] \in good
  <2>1. <<b, leg>> \in Tx BY DEF Tx, SweepLeg
  <2> QED BY <1>1, <2>1 DEF Grows, Accepted
<1> QED BY <1>2 DEF WholeOf

LEMMA WholeStays ==
  ASSUME TypeInv, NEW k \in Keys, UNCHANGED side, Grows(chain[k], chain'[k]),
         NEW ids, NEW more, ids \subseteq more, Whole(k, ids)
  PROVE  WholeOf(chain'[k], LegsOf(k)', Good(k)', more)
<1>1. LegsOf(k) \in 1..Legs /\ Good(k) \in {{"landed"}, Accepted} BY DEF LegsOf, Good
<1>2. LegsOf(k)' = LegsOf(k) /\ Good(k)' = Good(k) BY DEF LegsOf, Good, IsSwap, IsExit
<1> QED BY <1>1, <1>2, WholeGrows DEF Whole

LEMMA OthersSame ==
  ASSUME TypeInv, NEW k \in Keys, Request(k) \/ Serve(k)
  PROVE  side' = side /\ \A j \in Keys \ {k} : Same(j)
<1> USE DEF TypeInv, TypeOK, Same
<1>1. CASE Request(k) BY <1>1 DEF Request
<1>2. CASE ReserveNew(k) BY <1>2 DEF ReserveNew, Goto
<1>3. CASE TakeOver(k) BY <1>3 DEF TakeOver, Goto
<1>4. CASE AnswerPending(k) BY <1>4 DEF AnswerPending, Answer
<1>5. CASE AnswerReplay(k) BY <1>5 DEF AnswerReplay, Answer
<1>6. CASE BuildFails(k) BY <1>6 DEF BuildFails, ReleaseAndFail, Answer
<1>7. CASE Build(k) BY <1>7 DEF Build
<1>8. CASE MarkStarted(k) BY <1>8 DEF MarkStarted, Goto
<1>9. CASE Send(k) BY <1>9 DEF Send, SetTx, Goto
<1>10. CASE RpcAccepts(k) BY <1>10 DEF RpcAccepts
<1>11. CASE RpcRefuses(k) BY <1>11 DEF RpcRefuses, ReleaseAndFail, Answer, StopPartial, Goto
<1>12. CASE RpcTimesOut(k) BY <1>12 DEF RpcTimesOut, ReleaseAndFail, Answer, StopPartial, Goto
<1>13. CASE SendExternal(k) BY <1>13 DEF SendExternal, SetTx
<1>14. CASE ExternalAccepts(k) BY <1>14 DEF ExternalAccepts
<1>15. CASE ExternalFails(k) BY <1>15 DEF ExternalFails, Goto
<1>16. CASE Confirmed(k) BY <1>16 DEF Confirmed, Goto
<1>17. CASE NotConfirmed(k) BY <1>17 DEF NotConfirmed, StopPartial
<1>18. CASE ListSellable(k) BY <1>18 DEF ListSellable, Goto
<1>19. CASE SellResidual(k) BY <1>19 DEF SellResidual
<1>20. CASE SweepEnds(k) BY <1>20 DEF SweepEnds, Goto
<1>21. CASE ReadFails(k) BY <1>21 DEF ReadFails, Answer
<1>22. CASE Complete(k) BY <1>22 DEF Complete, Answer
<1> QED BY <1>1, <1>2, <1>3, <1>4, <1>5, <1>6, <1>7, <1>8, <1>9, <1>10, <1>11, <1>12, <1>13, <1>14,
           <1>15, <1>16, <1>17, <1>18, <1>19, <1>20, <1>21, <1>22 DEF Serve, Handle

LEMMA SameKeepsWhole ==
  ASSUME NEW j \in Keys, WholeInv(j), Same(j), UNCHANGED side PROVE WholeInv(j)'
BY DEF Same, WholeInv, FreshInv, BatchInv, ResultInv, OnBatch, OnSale, Sending, At, Current, Whole,
       LegsOf, Good, IsSwap, IsExit, SwapLeg

\* While the network only moves on, a whole batch stays whole and may be named among others.
Lasts(k) ==
  \A ids, more : ids \subseteq more /\ Whole(k, ids) => WholeOf(chain'[k], LegsOf(k)', Good(k)', more)

LEMMA QuietGrows == ASSUME NEW k \in Keys, chain'[k] = chain[k] PROVE Grows(chain[k], chain'[k])
BY DEF Grows

LEMMA GrowsLasts ==
  ASSUME TypeInv, NEW k \in Keys, UNCHANGED side, Grows(chain[k], chain'[k]) PROVE Lasts(k)
BY WholeStays DEF Lasts

\* A request that is answered.
LEMMA AnswerKeepsWhole ==
  ASSUME TypeInv, NEW k \in Keys, WholeInv(k), NEW a, Answer(k, a), UNCHANGED <<side, builds, chain>>,
         a.kind = "submitted" /\ ~a.partial => Whole(k, a.ids),
         store'[k].phase = "submitted" /\ ~store'[k].partial => Whole(k, store'[k].result)
  PROVE  WholeInv(k)'
<1>1. Lasts(k) BY QuietGrows, GrowsLasts
<1>2. FreshInv(k)' BY AnswerEffect DEF WholeInv, FreshInv
<1>3. BatchInv(k)' BY AnswerEffect DEF BatchInv, OnBatch, OnSale, Sending, At
<1>4. ResultInv(k)'
  <2>1. CASE reply'[k] = a BY <1>1, <2>1 DEF ResultInv, Lasts, Whole
  <2>2. CASE reply'[k] = reply[k] BY <1>1, <2>2 DEF WholeInv, ResultInv, Lasts, Whole
  <2> QED BY <2>1, <2>2, AnswerEffect
<1> QED BY <1>2, <1>3, <1>4 DEF WholeInv

LEMMA FailKeepsWhole ==
  ASSUME TypeInv, NEW k \in Keys, WholeInv(k), ReleaseAndFail(k), UNCHANGED <<side, builds, chain>>
  PROVE  WholeInv(k)'
<1> DEFINE a == Reply("failed", {}, FALSE)
<1>1. Answer(k, a) /\ a.kind = "failed" BY DEF ReleaseAndFail, Reply
<1>2. store'[k].phase = "absent" BY DEF ReleaseAndFail, AbsentRecord, Record, TypeInv, TypeOK
<1> HIDE DEF a
<1> QED BY <1>1, <1>2, AnswerKeepsWhole

\* A request that moves on without sending.
LEMMA MoveKeepsWhole ==
  ASSUME TypeInv, NEW k \in Keys, WholeInv(k), UNCHANGED <<side, builds, chain, reply>>,
         store'[k] = store[k] \/ store'[k].phase # "submitted",
         handler'[k].at \notin {"submit", "send", "rpc", "external"},
         handler'[k].sigs = handler[k].sigs,
         handler'[k].at = "confirm" => At(k, "confirm"),
         \/ handler'[k].at \in {"sweep", "sale", "sold"}
         \/ handler'[k].at = "finish" /\ ~handler'[k].partial
         => IsExit(k) /\ Whole(k, handler[k].sigs)
  PROVE  WholeInv(k)'
<1>1. Lasts(k) BY QuietGrows, GrowsLasts
<1>2. FreshInv(k)' BY DEF WholeInv, FreshInv
<1>3. LegsOf(k)' = LegsOf(k) /\ IsExit(k)' = IsExit(k) BY DEF LegsOf, IsSwap, IsExit
<1>4. BatchInv(k)' BY <1>1, <1>3 DEF WholeInv, BatchInv, OnBatch, OnSale, Sending, At, Lasts, Whole
<1>5. ResultInv(k)' BY <1>1 DEF WholeInv, ResultInv, Lasts, Whole
<1> QED BY <1>2, <1>4, <1>5 DEF WholeInv

LEMMA GotoKeepsWhole ==
  ASSUME TypeInv, NEW k \in Keys, WholeInv(k), NEW p \in Places, Goto(k, p), UNCHANGED <<side, builds,
           chain, reply>>,
         store'[k] = store[k] \/ store'[k].phase # "submitted",
         p \in {"build", "sweep", "sale", "sold", "finish"},
         p # "build" => IsExit(k) /\ Whole(k, handler[k].sigs)
  PROVE  WholeInv(k)'
BY GotoEffect, MoveKeepsWhole

LEMMA StopKeepsWhole ==
  ASSUME TypeInv, NEW k \in Keys, WholeInv(k), StopPartial(k), UNCHANGED <<side, builds, chain>>
  PROVE  WholeInv(k)'
<1>1. handler'[k].at = "finish" /\ handler'[k].sigs = handler[k].sigs /\ handler'[k].partial
  BY DEF StopPartial, Work, TypeInv, TypeOK
<1> QED BY <1>1, MoveKeepsWhole DEF StopPartial

\* A request that takes up a freshly built transaction.
LEMMA TakeUpKeepsWhole ==
  ASSUME TypeInv, NEW k \in Keys, WholeInv(k), UNCHANGED <<side, store, chain, reply>>,
         builds'[k] = builds[k] + 1, handler'[k].at = "submit", handler'[k].sigs = handler[k].sigs,
         \/ handler'[k].leg = 1
         \/ handler'[k].leg = SweepLeg /\ IsExit(k) /\ Whole(k, handler[k].sigs)
  PROVE  WholeInv(k)'
<1>1. Lasts(k) BY QuietGrows, GrowsLasts
<1>2. builds[k] \in Nat BY DEF TypeInv, TypeOK
<1>3. FreshInv(k)' BY <1>2 DEF WholeInv, FreshInv, Current, Tx
<1>4. BatchInv(k)'
  <2>1. LegsOf(k)' >= 1 /\ 1 # SweepLeg BY DEF LegsOf, SweepLeg
  <2>2. CASE handler'[k].leg = 1
    BY <2>1, <2>2 DEF WholeInv, BatchInv, OnBatch, OnSale, Sending, At
  <2>3. CASE handler'[k].leg = SweepLeg /\ IsExit(k) /\ Whole(k, handler[k].sigs)
    BY <1>1, <2>3 DEF WholeInv, BatchInv, OnBatch, OnSale, Sending, At, Lasts, Whole, IsExit
  <2> QED BY <2>2, <2>3
<1>5. ResultInv(k)' BY <1>1 DEF WholeInv, ResultInv, Lasts, Whole
<1> QED BY <1>3, <1>4, <1>5 DEF WholeInv

LEMMA ReserveKeepsWhole ==
  ASSUME TypeInv, NEW k \in Keys, WholeInv(k), ReserveNew(k) \/ TakeOver(k) PROVE WholeInv(k)'
<1>1. store'[k].phase = "reserved" BY DEF ReserveNew, TakeOver, Reservation, Record, TypeInv, TypeOK
<1>2. Goto(k, "build") BY DEF ReserveNew, TakeOver
<1> QED BY <1>1, <1>2, GotoKeepsWhole DEF ReserveNew, TakeOver, Places

LEMMA AnswerPendingKeepsWhole ==
  ASSUME TypeInv, NEW k \in Keys, WholeInv(k), AnswerPending(k) PROVE WholeInv(k)'
<1> DEFINE a == IF store[k].evidence # {} THEN Reply("submitted", store[k].evidence, TRUE)
                ELSE Reply("pending", {}, FALSE)
<1>1. Answer(k, a) /\ (a.kind = "submitted" => a.partial) BY DEF AnswerPending, Reply
<1> HIDE DEF a
<1> QED BY <1>1, AnswerKeepsWhole DEF AnswerPending, WholeInv, ResultInv

LEMMA AnswerReplayKeepsWhole ==
  ASSUME TypeInv, NEW k \in Keys, WholeInv(k), AnswerReplay(k) PROVE WholeInv(k)'
<1> DEFINE a == Reply("submitted", store[k].result, store[k].partial)
<1>1. Answer(k, a) /\ a.ids = store[k].result /\ a.partial = store[k].partial
  BY DEF AnswerReplay, Reply
<1> HIDE DEF a
<1> QED BY <1>1, AnswerKeepsWhole DEF AnswerReplay, WholeInv, ResultInv

LEMMA BuildKeepsWhole ==
  ASSUME TypeInv, NEW k \in Keys, WholeInv(k), Build(k) \/ SellResidual(k) PROVE WholeInv(k)'
<1>1. /\ builds'[k] = builds[k] + 1 /\ handler'[k].at = "submit" /\ handler'[k].sigs = handler[k].sigs
      /\ handler'[k].leg = IF At(k, "build") THEN 1 ELSE SweepLeg
  BY DEF Build, SellResidual, Work, At, TypeInv, TypeOK
<1>2. At(k, "sale") => IsExit(k) /\ Whole(k, handler[k].sigs) BY DEF WholeInv, BatchInv, OnSale, At
<1> QED BY <1>1, <1>2, TakeUpKeepsWhole DEF Build, SellResidual, At

LEMMA MarkStartedKeepsWhole ==
  ASSUME TypeInv, NEW k \in Keys, WholeInv(k), MarkStarted(k) PROVE WholeInv(k)'
<1>1. Lasts(k) BY QuietGrows, GrowsLasts DEF MarkStarted
<1>2. store'[k].phase = "broadcast_started" BY DEF MarkStarted, TypeInv, TypeOK, Record
<1>3. /\ handler'[k].at = "send" /\ handler'[k].leg = handler[k].leg
      /\ handler'[k].sigs = handler[k].sigs
  BY GotoEffect DEF MarkStarted, Places
<1>4. FreshInv(k)' BY <1>3 DEF MarkStarted, WholeInv, FreshInv, Current, At
<1>5. BatchInv(k)'
  BY <1>1, <1>3 DEF MarkStarted, WholeInv, BatchInv, OnBatch, OnSale, Sending, At, Lasts, Whole, LegsOf,
                    IsSwap, IsExit
<1>6. ResultInv(k)' BY <1>1, <1>2 DEF MarkStarted, WholeInv, ResultInv, Lasts, Whole
<1> QED BY <1>4, <1>5, <1>6 DEF WholeInv

LEMMA SendKeepsWhole ==
  ASSUME TypeInv, NEW k \in Keys, WholeInv(k), Send(k) PROVE WholeInv(k)'
<1>1. Current(k) \in Tx /\ chain[k][Current(k)] = "none"
  BY CurrentTyped DEF Send, At, WholeInv, FreshInv
<1>2. \A t \in Tx : chain'[k][t] = IF t = Current(k) THEN "sent" ELSE chain[k][t]
  BY <1>1 DEF Send, SetTx, TypeInv, TypeOK
<1>3. Grows(chain[k], chain'[k]) BY <1>1, <1>2 DEF Grows, Accepted
<1>4. Lasts(k) BY <1>3, GrowsLasts DEF Send
<1>5. /\ handler'[k].at = "rpc" /\ handler'[k].leg = handler[k].leg
      /\ handler'[k].sigs = handler[k].sigs
  BY GotoEffect DEF Send, Places
<1>6. FreshInv(k)'
  <2>1. builds[k] \in Nat /\ handler[k].leg \in Nat BY DEF TypeInv, TypeOK, Handler
  <2>2. ASSUME NEW t \in Tx, t[1] > builds[k] \/ (t[1] = builds[k] /\ t[2] > handler[k].leg)
        PROVE  chain'[k][t] = "none"
    <3>1. t # Current(k) BY <2>1, <2>2 DEF Current
    <3>2. chain[k][t] = "none" BY <2>2 DEF WholeInv, FreshInv, Send, At
    <3> QED BY <1>2, <3>1, <3>2
  <2> QED BY <1>5, <2>2 DEF FreshInv, Send
<1>7. \A t \in handler[k].sigs : chain'[k][t] \in Accepted
  BY <1>3 DEF WholeInv, BatchInv, Grows, TypeInv, TypeOK, Handler
<1>8. BatchInv(k)'
  BY <1>4, <1>5, <1>7 DEF Send, WholeInv, BatchInv, OnBatch, OnSale, Sending, At, Lasts, Whole,
                          LegsOf, IsSwap, IsExit
<1>9. ResultInv(k)' BY <1>4 DEF Send, WholeInv, ResultInv, Lasts, Whole
<1> QED BY <1>6, <1>8, <1>9 DEF WholeInv

LEMMA RpcAcceptsKeepsWhole ==
  ASSUME TypeInv, NEW k \in Keys, WholeInv(k), RpcAccepts(k) PROVE WholeInv(k)'
<1> DEFINE place == AfterAccept(k)
           leg == IF place = "submit" THEN handler[k].leg + 1 ELSE handler[k].leg
           sigs == handler[k].sigs \cup {Current(k)}
<1> USE DEF RpcAccepts
<1>1. Lasts(k) BY QuietGrows, GrowsLasts
<1>2. /\ handler'[k].at = place /\ handler'[k].leg = leg /\ handler'[k].sigs = sigs
      /\ handler'[k].partial = handler[k].partial
  BY DEF Work, TypeInv, TypeOK
<1>3. Current(k) \in Tx /\ builds[k] \in 1..MaxBuilds /\ handler[k].leg \in 1..SweepLeg
  BY CurrentTyped DEF At, Tx, Current
<1>4. \A t \in sigs : chain[k][t] \in Accepted BY DEF WholeInv, BatchInv, Accepted
<1>5. LegsOf(k) \in 1..Legs /\ LegsOf(k)' = LegsOf(k) /\ IsExit(k)' = IsExit(k)
  BY DEF LegsOf, IsSwap, IsExit
<1>6. ResultInv(k)' BY <1>1 DEF WholeInv, ResultInv, Lasts, Whole
<1>7. CASE handler[k].leg = SweepLeg
  <2>1. place = "sold" BY <1>7 DEF AfterAccept
  <2>2. IsExit(k) /\ Whole(k, handler[k].sigs) BY <1>7 DEF WholeInv, BatchInv, OnSale, Sending, At
  <2>3. BatchInv(k)'
    BY <1>1, <1>2, <1>4, <1>5, <2>1, <2>2 DEF BatchInv, OnBatch, OnSale, Sending, At, Lasts, Whole
  <2>4. FreshInv(k)' BY <1>2, <2>1 DEF WholeInv, FreshInv
  <2> QED BY <1>6, <2>3, <2>4 DEF WholeInv
<1>8. CASE handler[k].leg # SweepLeg
  <2>1. handler[k].leg <= LegsOf(k) /\ \A l \in 1..handler[k].leg : <<builds[k], l>> \in sigs
    BY <1>3, <1>8 DEF WholeInv, BatchInv, OnBatch, Sending, At, Current
  <2>2. CASE handler[k].leg < LegsOf(k)
    <3>1. place = "submit" /\ leg = handler[k].leg + 1 /\ leg # SweepLeg
      BY <1>3, <1>5, <1>8, <2>2 DEF AfterAccept, SweepLeg
    <3>2. leg <= LegsOf(k) /\ \A l \in 1..(leg - 1) : <<builds[k], l>> \in sigs
      BY <1>3, <1>5, <2>1, <2>2, <3>1
    <3> HIDE DEF place, leg, sigs
    <3>3. BatchInv(k)' BY <1>2, <1>4, <1>5, <3>1, <3>2 DEF BatchInv, OnBatch, OnSale, Sending, At
    <3>4. FreshInv(k)'
      <4>1. ASSUME NEW t \in Tx, t[1] > builds[k] \/ (t[1] = builds[k] /\ t[2] > handler[k].leg)
            PROVE  chain[k][t] = "none"
        BY <4>1 DEF WholeInv, FreshInv, At
      <4>2. builds'[k] = builds[k] /\ chain'[k] = chain[k] /\ handler'[k].leg = handler[k].leg + 1
        BY <1>2, <3>1
      <4>3. handler[k].leg \in Nat BY DEF TypeInv, TypeOK, Handler
      <4>4. ASSUME NEW t \in Tx,
                   \/ t[1] > builds[k]
                   \/ t = <<builds[k], handler[k].leg + 1>>
                   \/ t[1] = builds[k] /\ t[2] > handler[k].leg + 1
            PROVE  t[1] > builds[k] \/ (t[1] = builds[k] /\ t[2] > handler[k].leg)
        <5>1. t[2] \in Nat BY DEF Tx, SweepLeg
        <5> QED BY <4>3, <4>4, <5>1
      <4> QED BY <4>1, <4>2, <4>4 DEF FreshInv, Current
    <3> QED BY <1>6, <3>3, <3>4 DEF WholeInv
  <2>3. CASE handler[k].leg = LegsOf(k)
    <3>1. place = IF IsExit(k) THEN "confirm" ELSE "finish" BY <1>5, <1>8, <2>3 DEF AfterAccept
    <3>2. ~IsExit(k) => WholeOf(chain[k], LegsOf(k), Good(k), sigs)
      BY <1>3, <1>4, <2>1, <2>3 DEF WholeOf, Good
    <3>3. ~IsExit(k) => WholeOf(chain'[k], LegsOf(k)', Good(k)', sigs)
      BY <3>2 DEF LegsOf, Good, IsExit, IsSwap
    <3>4. BatchInv(k)'
      BY <1>2, <1>3, <1>4, <1>5, <2>1, <2>3, <3>1, <3>3 DEF BatchInv, OnBatch, OnSale, Sending, At, Whole
    <3>5. FreshInv(k)' BY <1>2, <3>1 DEF WholeInv, FreshInv
    <3> QED BY <1>6, <3>4, <3>5 DEF WholeInv
  <2> QED BY <1>3, <1>5, <2>1, <2>2, <2>3
<1> QED BY <1>7, <1>8

LEMMA RpcEndsKeepsWhole ==
  ASSUME TypeInv, NEW k \in Keys, WholeInv(k), RpcRefuses(k) \/ RpcTimesOut(k) PROVE WholeInv(k)'
<1>1. At(k, "rpc") /\ UNCHANGED <<side, instance, builds, chain>> BY DEF RpcRefuses, RpcTimesOut
<1>2. CASE handler[k].leg = SweepLeg
  <2>1. IsExit(k) /\ Whole(k, handler[k].sigs) BY <1>1, <1>2 DEF WholeInv, BatchInv, OnSale, Sending, At
  <2>2. (Goto(k, "sale") \/ Goto(k, "finish")) /\ UNCHANGED <<store, queued, reply>>
    BY <1>2 DEF RpcRefuses, RpcTimesOut
  <2> QED BY <1>1, <2>1, <2>2, GotoKeepsWhole DEF Places
<1>3. CASE StopPartial(k) BY <1>1, <1>3, StopKeepsWhole
<1>4. CASE ReleaseAndFail(k) BY <1>1, <1>4, FailKeepsWhole
<1>5. CASE Goto(k, "build") /\ UNCHANGED <<store, queued, reply>>
  BY <1>1, <1>5, GotoKeepsWhole DEF Places
<1>6. CASE Answer(k, Reply("unavailable", {}, FALSE)) /\ UNCHANGED store
  <2> DEFINE a == Reply("unavailable", {}, FALSE)
  <2>1. Answer(k, a) /\ a.kind # "submitted" BY <1>6 DEF Reply
  <2> HIDE DEF a
  <2> QED BY <1>1, <1>6, <2>1, AnswerKeepsWhole DEF WholeInv, ResultInv
<1> QED BY <1>2, <1>3, <1>4, <1>5, <1>6 DEF RpcRefuses, RpcTimesOut

LEMMA SendExternalKeepsWhole ==
  ASSUME TypeInv, NEW k \in Keys, WholeInv(k), SendExternal(k) PROVE WholeInv(k)'
<1> DEFINE u == <<builds[k] + 1, SwapLeg(k)>>
<1> USE DEF SendExternal
<1>1. builds[k] \in Nat /\ u \in Tx /\ chain[k][u] = "none"
  BY DEF TypeInv, TypeOK, Tx, SwapLeg, SweepLeg, WholeInv, FreshInv
<1>2. \A t \in Tx : chain'[k][t] = IF t = u THEN "sent" ELSE chain[k][t]
  BY <1>1 DEF SetTx, TypeInv, TypeOK
<1>3. Grows(chain[k], chain'[k]) BY <1>1, <1>2 DEF Grows, Accepted
<1>4. Lasts(k) BY <1>3, GrowsLasts
<1>5. /\ handler'[k].at = "external" /\ handler'[k].leg = SwapLeg(k)
      /\ handler'[k].sigs = handler[k].sigs /\ builds'[k] = builds[k] + 1
  BY DEF Work, TypeInv, TypeOK
<1>6. FreshInv(k)'
  <2>1. ASSUME NEW t \in Tx, t[1] > builds[k] + 1 PROVE chain'[k][t] = "none"
    <3>1. t[1] > builds[k] /\ t # u BY <1>1, <2>1 DEF Tx
    <3>2. chain[k][t] = "none" BY <3>1 DEF WholeInv, FreshInv
    <3> QED BY <1>2, <3>1, <3>2
  <2> QED BY <1>5, <2>1 DEF FreshInv
<1>7. \A t \in handler[k].sigs : chain'[k][t] \in Accepted
  BY <1>3 DEF WholeInv, BatchInv, Grows, TypeInv, TypeOK, Handler
<1>8. SwapLeg(k)' = SwapLeg(k) /\ LegsOf(k)' = LegsOf(k) /\ IsExit(k)' = IsExit(k)
  BY DEF SwapLeg, LegsOf, IsSwap, IsExit
<1>9. SwapLeg(k) # SweepLeg => SwapLeg(k) = 1 /\ LegsOf(k) >= 1 BY DEF SwapLeg, LegsOf
<1>10. SwapLeg(k) = SweepLeg => IsExit(k) /\ Whole(k, handler[k].sigs)
  BY DEF SwapOffered, SwapLeg, SweepLeg, WholeInv, BatchInv, OnSale, At
<1>11. BatchInv(k)'
  BY <1>4, <1>5, <1>7, <1>8, <1>9, <1>10 DEF BatchInv, OnBatch, OnSale, Sending, At, Lasts, Whole
<1>12. ResultInv(k)' BY <1>4 DEF WholeInv, ResultInv, Lasts, Whole
<1> QED BY <1>6, <1>11, <1>12 DEF WholeInv

LEMMA ExternalAcceptsKeepsWhole ==
  ASSUME TypeInv, NEW k \in Keys, WholeInv(k), ExternalAccepts(k) PROVE WholeInv(k)'
<1> DEFINE sigs == handler[k].sigs \cup {Current(k)}
<1> USE DEF ExternalAccepts
<1>1. Lasts(k) BY QuietGrows, GrowsLasts
<1>2. handler'[k].at = AfterAccept(k) /\ handler'[k].sigs = sigs
  BY DEF Work, TypeInv, TypeOK
<1>3. \A t \in sigs : chain[k][t] \in Accepted BY DEF WholeInv, BatchInv, Accepted
<1>4. LegsOf(k)' = LegsOf(k) /\ IsExit(k)' = IsExit(k) BY DEF LegsOf, IsSwap, IsExit
<1>5. ResultInv(k)' BY <1>1 DEF WholeInv, ResultInv, Lasts, Whole
<1>6. CASE IsSwap(k)
  <2>1. handler[k].leg = 1 /\ AfterAccept(k) = "finish"
    BY <1>6 DEF WholeInv, BatchInv, SwapLeg, AfterAccept, LegsOf, SweepLeg, IsSwap, IsExit
  <2>2. builds[k] \in 1..MaxBuilds /\ <<builds[k], 1>> \in sigs
    BY <2>1, CurrentTyped DEF At, Tx, Current
  <2>3. WholeOf(chain'[k], LegsOf(k)', Good(k)', sigs)
    BY <1>3, <1>6, <2>2 DEF WholeOf, Good, LegsOf, IsSwap, IsExit
  <2>4. BatchInv(k)' BY <1>2, <1>3, <2>1, <2>3 DEF BatchInv, OnBatch, OnSale, Sending, At, Whole
  <2>5. FreshInv(k)' BY <1>2, <2>1 DEF WholeInv, FreshInv
  <2> QED BY <1>5, <2>4, <2>5 DEF WholeInv
<1>7. CASE ~IsSwap(k)
  <2>1. handler[k].leg = SweepLeg /\ AfterAccept(k) = "sold"
    BY <1>7 DEF WholeInv, BatchInv, SwapLeg, AfterAccept
  <2>2. IsExit(k) /\ Whole(k, handler[k].sigs) BY <2>1 DEF WholeInv, BatchInv, OnSale, Sending, At
  <2>3. BatchInv(k)'
    BY <1>1, <1>2, <1>3, <1>4, <2>1, <2>2 DEF BatchInv, OnBatch, OnSale, Sending, At, Lasts, Whole
  <2>4. FreshInv(k)' BY <1>2, <2>1 DEF WholeInv, FreshInv
  <2> QED BY <1>5, <2>3, <2>4 DEF WholeInv
<1> QED BY <1>6, <1>7

LEMMA ExternalFailsKeepsWhole ==
  ASSUME TypeInv, NEW k \in Keys, WholeInv(k), ExternalFails(k) PROVE WholeInv(k)'
<1>1. ~IsSwap(k) => IsExit(k) /\ Whole(k, handler[k].sigs)
  BY DEF ExternalFails, At, WholeInv, BatchInv, SwapLeg, OnSale, Sending
<1> QED BY <1>1, GotoKeepsWhole DEF ExternalFails, Places

LEMMA ConfirmedKeepsWhole ==
  ASSUME TypeInv, NEW k \in Keys, WholeInv(k), Confirmed(k) PROVE WholeInv(k)'
<1>1. IsExit(k) /\ Whole(k, handler[k].sigs) BY DEF Confirmed, WholeInv, BatchInv, Whole, WholeOf, Good
<1> QED BY <1>1, GotoKeepsWhole DEF Confirmed, Places

LEMMA SweepsKeepWhole ==
  ASSUME TypeInv, NEW k \in Keys, WholeInv(k), ListSellable(k) \/ SweepEnds(k) PROVE WholeInv(k)'
<1>1. IsExit(k) /\ Whole(k, handler[k].sigs)
  BY DEF ListSellable, SweepEnds, WholeInv, BatchInv, OnSale, At
<1> QED BY <1>1, GotoKeepsWhole DEF ListSellable, SweepEnds, Places

LEMMA ReadFailsKeepsWhole ==
  ASSUME TypeInv, NEW k \in Keys, WholeInv(k), ReadFails(k) PROVE WholeInv(k)'
<1> DEFINE a == Reply("bad_request", {}, FALSE)
<1>1. Answer(k, a) /\ a.kind # "submitted" BY DEF ReadFails, Reply
<1> HIDE DEF a
<1> QED BY <1>1, AnswerKeepsWhole DEF ReadFails, WholeInv, ResultInv

LEMMA CompleteKeepsWhole ==
  ASSUME TypeInv, NEW k \in Keys, WholeInv(k), Complete(k) PROVE WholeInv(k)'
<1> DEFINE a == Reply("submitted", handler[k].sigs, handler[k].partial)
<1>1. Answer(k, a) /\ a.ids = handler[k].sigs /\ a.partial = handler[k].partial
  BY DEF Complete, Reply
<1>2. store'[k].result = handler[k].sigs /\ store'[k].partial = handler[k].partial
  BY DEF Complete, Record, TypeInv, TypeOK
<1>3. ~handler[k].partial => Whole(k, handler[k].sigs) BY DEF Complete, At, WholeInv, BatchInv
<1> HIDE DEF a
<1> QED BY <1>1, <1>2, <1>3, AnswerKeepsWhole DEF Complete

LEMMA RequestKeepsWhole ==
  ASSUME TypeInv, NEW k \in Keys, WholeInv(k), Request(k) PROVE WholeInv(k)'
<1>1. reply'[k].kind = "none" BY DEF Request, NoReply, Reply, TypeInv, TypeOK
<1> QED BY <1>1 DEF Request, WholeInv, FreshInv, BatchInv, ResultInv, OnBatch, OnSale, Sending, At,
    Current,
                    Whole, LegsOf, Good, IsSwap, IsExit, SwapLeg

\* What the network does to a transaction.
Moves == {<<"sent", "live">>, <<"sent", "rejected">>, <<"live", "landed">>, <<"live", "failed">>}

LEMMA NetworkKeepsWhole ==
  ASSUME TypeInv, NEW k \in Keys, WholeInv(k), Network PROVE WholeInv(k)'
<1>1. /\ UNCHANGED <<side, store, builds, handler, reply>>
      /\ Grows(chain[k], chain'[k]) /\ \A t \in Tx : chain[k][t] = "none" => chain'[k][t] = "none"
  <2>1. ASSUME NEW from, NEW to, Becomes(from, to), <<from, to>> \in Moves
        PROVE  \A t \in Tx : chain'[k][t] = chain[k][t] \/ (chain[k][t] = from /\ chain'[k][t] = to)
    BY <2>1 DEF Becomes, SetTx, TypeInv, TypeOK
  <2>2. ASSUME NEW from, NEW to, Becomes(from, to), <<from, to>> \in Moves
        PROVE  Grows(chain[k], chain'[k]) /\ \A t \in Tx : chain[k][t] = "none" => chain'[k][t] = "none"
    BY <2>1, <2>2 DEF Grows, Accepted, Moves
  <2> QED BY <2>2 DEF Network, NetworkAccepts, NetworkRejects, Lands, FailsOnChain, Becomes, Moves
<1>2. Lasts(k) BY <1>1, GrowsLasts
<1>3. FreshInv(k)' BY <1>1 DEF WholeInv, FreshInv, Current
<1>4. \A t \in handler[k].sigs : chain'[k][t] \in Accepted
  BY <1>1 DEF WholeInv, BatchInv, Grows, TypeInv, TypeOK, Handler
<1>5. BatchInv(k)'
  BY <1>1, <1>2, <1>4 DEF WholeInv, BatchInv, OnBatch, OnSale, Sending, At, Lasts, Whole, LegsOf,
                          IsSwap, IsExit, SwapLeg
<1>6. ResultInv(k)' BY <1>1, <1>2 DEF WholeInv, ResultInv, Lasts, Whole
<1> QED BY <1>3, <1>5, <1>6 DEF WholeInv

LEMMA RestartKeepsWhole ==
  ASSUME TypeInv, NEW k \in Keys, WholeInv(k), Restart PROVE WholeInv(k)'
<1>1. handler'[k].at = "idle" /\ handler'[k].sigs = {} BY DEF Restart, Idle, Work
<1>2. Lasts(k) BY QuietGrows, GrowsLasts DEF Restart
<1>3. FreshInv(k)' BY <1>1 DEF Restart, WholeInv, FreshInv
<1>4. BatchInv(k)' BY <1>1 DEF BatchInv, OnBatch, OnSale, Sending, At
<1>5. ResultInv(k)' BY <1>2 DEF Restart, WholeInv, ResultInv, Lasts, Whole
<1> QED BY <1>3, <1>4, <1>5 DEF WholeInv

LEMMA WholeInit == ASSUME Init PROVE \A k \in Keys : WholeInv(k)
<1> SUFFICES ASSUME NEW k \in Keys PROVE WholeInv(k) OBVIOUS
<1>1. handler[k].at = "idle" /\ handler[k].sigs = {} /\ store[k].phase = "absent"
      /\ reply[k].kind = "none"
  BY DEF Init, Idle, Work, AbsentRecord, Record, NoReply, Reply
<1> QED BY <1>1 DEF Init, WholeInv, FreshInv, BatchInv, ResultInv, OnBatch, OnSale, Sending, At

LEMMA WholeStep ==
  ASSUME TypeInv, \A k \in Keys : WholeInv(k), [Next]_vars PROVE \A k \in Keys : WholeInv(k)'
<1>1. ASSUME NEW k \in Keys, Request(k) \/ Serve(k) PROVE WholeInv(k)'
  BY <1>1, RequestKeepsWhole, ReserveKeepsWhole, AnswerPendingKeepsWhole, AnswerReplayKeepsWhole,
     FailKeepsWhole, BuildKeepsWhole, MarkStartedKeepsWhole, SendKeepsWhole, RpcAcceptsKeepsWhole,
     RpcEndsKeepsWhole, SendExternalKeepsWhole, ExternalAcceptsKeepsWhole, ExternalFailsKeepsWhole,
     ConfirmedKeepsWhole, StopKeepsWhole, SweepsKeepWhole, ReadFailsKeepsWhole, CompleteKeepsWhole
     DEF Serve, Handle, BuildFails, NotConfirmed
<1>2. CASE \E k \in Keys : Request(k) \/ Serve(k) BY <1>1, <1>2, OthersSame, SameKeepsWhole
<1>3. CASE Restart BY <1>3, RestartKeepsWhole
<1>4. CASE Network BY <1>4, NetworkKeepsWhole
<1>5. CASE UNCHANGED vars BY <1>5, SameKeepsWhole DEF vars, Same
<1> QED BY <1>2, <1>3, <1>4, <1>5 DEF Next

BatchesInv == TypeInv /\ \A k \in Keys : WholeInv(k)

LEMMA BatchesHold ==
  /\ Init => BatchesInv
  /\ BatchesInv /\ [Next]_vars => BatchesInv'
  /\ BatchesInv => CompleteMeansWholeBatch
<1>1. Init => BatchesInv BY TypeInit, WholeInit DEF BatchesInv
<1>2. BatchesInv /\ [Next]_vars => BatchesInv' BY TypeStep, WholeStep DEF BatchesInv
<1>3. BatchesInv => CompleteMeansWholeBatch
  BY DEF BatchesInv, WholeInv, ResultInv, Whole, WholeOf, Good, Accepted, CompleteMeansWholeBatch
<1> QED BY <1>1, <1>2, <1>3

\* Whatever fault may occur, a submitted answer that is not marked partial names a whole batch that
\* the network has accepted, and for an exit one that has landed: for any number of legs, so that a
\* position is never recorded as opened or closed by a batch that stopped half-way.
THEOREM WholeBatches == Spec => []CompleteMeansWholeBatch
BY BatchesHold, PTL DEF Spec

-----------------------------------------------------------------------------
(***************************************************************************)
(* The sidecar as its client sees one order: when the order may still be   *)
(* executed, what an answer means for it, and that only a new request can  *)
(* bring an order back that is done.  LiveExecution_proofs builds on it.   *)
(***************************************************************************)

\* Whatever of the order may have had an effect is in ids, and ids is of one batch.
AllIn(exposed, kind, ids) ==
  /\ \A t, u \in ids : t[2] # SweepLeg /\ u[2] # SweepLeg => t[1] = u[1]
  /\ kind # "exit" => \A t \in ids : t[2] # SweepLeg
  /\ \A t \in exposed : t[2] = SweepLeg \/ t \in ids
AllOf(k, ids) == AllIn(Exposed(k), side[k], ids)

\* What the handler has collected, what it stores and what it answers is all there is.
CoverInv(k) ==
  /\ OnBatch(k) =>
       /\ \A t \in handler[k].sigs : t[2] # SweepLeg /\ t[1] = builds[k]
       /\ \A t \in Exposed(k) : t \in handler[k].sigs \/ t = Current(k)
  /\ At(k, "confirm") \/ OnSale(k) \/ (At(k, "finish") /\ ~handler[k].partial) => AllOf(k,
     handler[k].sigs)
  /\ store[k].phase = "submitted" /\ ~store[k].partial => AllOf(k, store[k].result)
  /\ reply[k].kind = "submitted" /\ ~reply[k].partial =>
       store[k].phase = "submitted" /\ ~store[k].partial /\ reply[k].ids = store[k].result

OrderInv == SafetyInv /\ \A k \in Keys : WholeInv(k) /\ CoverInv(k)

LEMMA AllLasts ==
  ASSUME NEW before, NEW after, after \subseteq before, NEW kind, NEW ids, AllIn(before, kind, ids)
  PROVE  AllIn(after, kind, ids)
BY DEF AllIn

LEMMA SameKeepsCover ==
  ASSUME NEW k \in Keys, CoverInv(k), Same(k), UNCHANGED side PROVE CoverInv(k)'
<1>1. Exposed(k)' = Exposed(k) BY ExposedSame DEF Same
<1> QED BY <1>1 DEF Same, CoverInv, OnBatch, OnSale, Sending, At, Current, AllOf

\* A request that is answered.
LEMMA AnswerKeepsCover ==
  ASSUME TypeInv, NEW k \in Keys, CoverInv(k), NEW a, Answer(k, a), queued[k] > 0, UNCHANGED <<side,
           builds, chain>>,
         a.kind = "submitted" /\ ~a.partial =>
           store'[k].phase = "submitted" /\ ~store'[k].partial /\ a.ids = store'[k].result,
         store'[k].phase = "submitted" /\ ~store'[k].partial => AllOf(k, store'[k].result)
  PROVE  CoverInv(k)'
<1>1. Exposed(k)' = Exposed(k) BY ExposedSame
<1>2. reply[k].kind = "none" BY DEF TypeInv, TypeOK, LockInv
<1> QED BY <1>1, <1>2, AnswerEffect DEF CoverInv, OnBatch, OnSale, Sending, At, AllOf

LEMMA FailKeepsCover ==
  ASSUME TypeInv, NEW k \in Keys, CoverInv(k), ReleaseAndFail(k), queued[k] > 0, UNCHANGED <<side,
           builds, chain>>
  PROVE  CoverInv(k)'
<1> DEFINE a == Reply("failed", {}, FALSE)
<1>1. Answer(k, a) /\ a.kind = "failed" BY DEF ReleaseAndFail, Reply
<1>2. store'[k].phase = "absent" BY DEF ReleaseAndFail, AbsentRecord, Record, TypeInv, TypeOK
<1> HIDE DEF a
<1> QED BY <1>1, <1>2, AnswerKeepsCover

\* A request that moves on without sending.
LEMMA MoveKeepsCover ==
  ASSUME TypeInv, NEW k \in Keys, CoverInv(k), UNCHANGED <<side, builds, chain, reply>>,
         queued[k] > 0, store'[k] = store[k] \/ store'[k].phase # "submitted",
         handler'[k].at \notin {"submit", "send", "rpc", "external"},
         \/ handler'[k].at \in {"confirm", "sweep", "sale", "sold"}
         \/ handler'[k].at = "finish" /\ ~handler'[k].partial
         => AllOf(k, handler'[k].sigs)
  PROVE  CoverInv(k)'
<1>1. Exposed(k)' = Exposed(k) BY ExposedSame
<1>2. reply[k].kind = "none" BY DEF TypeInv, TypeOK, LockInv
<1> QED BY <1>1, <1>2 DEF CoverInv, OnBatch, OnSale, Sending, At, AllOf

LEMMA GotoKeepsCover ==
  ASSUME TypeInv, NEW k \in Keys, CoverInv(k), NEW p \in Places, Goto(k, p), UNCHANGED <<side, builds,
           chain, reply>>,
         queued[k] > 0, store'[k] = store[k] \/ store'[k].phase # "submitted",
         p \in {"build", "sweep", "sale", "sold", "finish"},
         p # "build" => AllOf(k, handler[k].sigs)
  PROVE  CoverInv(k)'
BY GotoEffect, MoveKeepsCover

LEMMA StopKeepsCover ==
  ASSUME TypeInv, NEW k \in Keys, CoverInv(k), StopPartial(k), queued[k] > 0, UNCHANGED <<side, builds,
           chain>>
  PROVE  CoverInv(k)'
<1>1. handler'[k].at = "finish" /\ handler'[k].partial BY DEF StopPartial, Work, TypeInv, TypeOK
<1> QED BY <1>1, MoveKeepsCover DEF StopPartial

-----------------------------------------------------------------------------
LEMMA RequestKeepsCover ==
  ASSUME TypeInv, NEW k \in Keys, CoverInv(k), Request(k) PROVE CoverInv(k)'
<1>1. Exposed(k)' = Exposed(k) BY ExposedSame DEF Request
<1>2. reply'[k].kind = "none" BY DEF Request, NoReply, Reply, TypeInv, TypeOK
<1> QED BY <1>1, <1>2 DEF Request, CoverInv, OnBatch, OnSale, Sending, At, Current, AllOf

LEMMA ReserveKeepsCover ==
  ASSUME TypeInv, NEW k \in Keys, CoverInv(k), ReserveNew(k) \/ TakeOver(k) PROVE CoverInv(k)'
<1>1. store'[k].phase = "reserved" BY DEF ReserveNew, TakeOver, Reservation, Record, TypeInv, TypeOK
<1>2. Goto(k, "build") /\ queued[k] > 0 BY DEF ReserveNew, TakeOver, Lockable
<1> QED BY <1>1, <1>2, GotoKeepsCover DEF ReserveNew, TakeOver, Places

LEMMA AnswersKeepCover ==
  ASSUME TypeInv, NEW k \in Keys, CoverInv(k), AnswerPending(k) \/ AnswerReplay(k) PROVE CoverInv(k)'
<1> DEFINE p == IF store[k].evidence # {} THEN Reply("submitted", store[k].evidence, TRUE)
                ELSE Reply("pending", {}, FALSE)
           r == Reply("submitted", store[k].result, store[k].partial)
<1>1. queued[k] > 0 BY DEF AnswerPending, AnswerReplay, Lockable
<1>2. CASE AnswerPending(k)
  <2>1. Answer(k, p) /\ (p.kind = "submitted" => p.partial) BY <1>2 DEF AnswerPending, Reply
  <2> HIDE DEF p
  <2> QED BY <1>1, <1>2, <2>1, AnswerKeepsCover DEF AnswerPending, CoverInv
<1>3. CASE AnswerReplay(k)
  <2>1. Answer(k, r) /\ r.ids = store[k].result /\ r.partial = store[k].partial
    BY <1>3 DEF AnswerReplay, Reply
  <2> HIDE DEF r
  <2> QED BY <1>1, <1>3, <2>1, AnswerKeepsCover DEF AnswerReplay, CoverInv
<1> QED BY <1>2, <1>3

LEMMA BuildKeepsCover ==
  ASSUME TypeInv, NEW k \in Keys, KeyInv(k), CoverInv(k), Build(k) PROVE CoverInv(k)'
<1>1. handler[k].sigs = {} /\ Exposed(k) = {} /\ reply[k].kind = "none"
  BY DEF Build, At, KeyInv, SigsInv, FirstInv, TypeInv, TypeOK, LockInv
<1>2. handler'[k].at = "submit" /\ handler'[k].leg = 1 /\ handler'[k].sigs = {}
  BY <1>1 DEF Build, Work, TypeInv, TypeOK
<1>3. Exposed(k)' = {} BY <1>1, ExposedSame DEF Build
<1>4. 1 # SweepLeg BY DEF SweepLeg
<1> QED BY <1>1, <1>2, <1>3, <1>4 DEF Build, CoverInv, OnBatch, OnSale, Sending, At, AllOf

LEMMA SellResidualKeepsCover ==
  ASSUME TypeInv, NEW k \in Keys, CoverInv(k), SellResidual(k) PROVE CoverInv(k)'
<1>1. handler'[k].at = "submit" /\ handler'[k].leg = SweepLeg /\ handler'[k].sigs = handler[k].sigs
  BY DEF SellResidual, Work, TypeInv, TypeOK
<1>2. Exposed(k)' = Exposed(k) BY ExposedSame DEF SellResidual
<1>3. AllOf(k, handler[k].sigs) BY DEF SellResidual, CoverInv, OnSale, At
<1> QED BY <1>1, <1>2, <1>3 DEF SellResidual, CoverInv, OnBatch, OnSale, Sending, At, AllOf

LEMMA MarkStartedKeepsCover ==
  ASSUME TypeInv, NEW k \in Keys, CoverInv(k), MarkStarted(k) PROVE CoverInv(k)'
<1>1. store'[k].phase = "broadcast_started" BY DEF MarkStarted, TypeInv, TypeOK, Record
<1>2. /\ handler'[k].at = "send" /\ handler'[k].leg = handler[k].leg
      /\ handler'[k].sigs = handler[k].sigs
  BY GotoEffect DEF MarkStarted, Places
<1>3. Exposed(k)' = Exposed(k) BY ExposedSame DEF MarkStarted
<1>4. reply[k].kind = "none" BY DEF MarkStarted, At, TypeInv, TypeOK, LockInv
<1> QED BY <1>1, <1>2, <1>3, <1>4
        DEF MarkStarted, CoverInv, OnBatch, OnSale, Sending, At, Current, AllOf

LEMMA SendKeepsCover ==
  ASSUME TypeInv, NEW k \in Keys, KeyInv(k), CoverInv(k), Send(k) PROVE CoverInv(k)'
<1>1. Current(k) \in Tx BY CurrentTyped DEF Send, At
<1>2. Exposed(k)' = Exposed(k) \cup {Current(k)} BY <1>1 DEF Send, SetTx, Exposed, TypeInv, TypeOK
<1>3. /\ handler'[k].at = "rpc" /\ handler'[k].leg = handler[k].leg
      /\ handler'[k].sigs = handler[k].sigs
  BY GotoEffect DEF Send, Places
<1>4. store[k].phase = "broadcast_started" /\ reply[k].kind = "none"
  BY DEF Send, At, KeyInv, StoreInv, TypeInv, TypeOK, LockInv
<1>5. OnSale(k) => Current(k)[2] = SweepLeg BY DEF OnSale, Send, At, Current
<1> QED BY <1>2, <1>3, <1>4, <1>5
        DEF Send, CoverInv, OnBatch, OnSale, Sending, At, Current, AllOf, AllIn

LEMMA RpcAcceptsKeepsCover ==
  ASSUME TypeInv, NEW k \in Keys, KeyInv(k), WholeInv(k), CoverInv(k), RpcAccepts(k) PROVE CoverInv(k)'
<1> DEFINE place == AfterAccept(k)
           leg == IF place = "submit" THEN handler[k].leg + 1 ELSE handler[k].leg
           sigs == handler[k].sigs \cup {Current(k)}
<1>1. UNCHANGED <<side, store, builds, chain, reply>> /\ At(k, "rpc") BY DEF RpcAccepts
<1>2. Exposed(k)' = Exposed(k) BY <1>1, ExposedSame
<1>3. /\ handler'[k].at = place /\ handler'[k].leg = leg /\ handler'[k].sigs = sigs
  BY DEF RpcAccepts, Work, TypeInv, TypeOK
<1>4. store[k].phase = "broadcast_started" /\ reply[k].kind = "none"
  BY <1>1 DEF At, KeyInv, StoreInv, TypeInv, TypeOK, LockInv
<1>5. CASE handler[k].leg = SweepLeg
  <2>1. place = "sold" BY <1>5 DEF AfterAccept
  <2>2. side[k] = "exit" /\ AllOf(k, handler[k].sigs) /\ Current(k)[2] = SweepLeg
    BY <1>1, <1>5 DEF WholeInv, BatchInv, CoverInv, OnSale, Sending, At, IsExit, Current
  <2>3. AllIn(Exposed(k), side[k], sigs) BY <2>2 DEF AllOf, AllIn
  <2> QED BY <1>1, <1>2, <1>3, <1>4, <2>1, <2>3 DEF CoverInv, OnBatch, OnSale, Sending, At, AllOf
<1>6. CASE handler[k].leg # SweepLeg
  <2>1. /\ \A t \in sigs : t[2] # SweepLeg /\ t[1] = builds[k]
        /\ \A t \in Exposed(k) : t \in sigs
    BY <1>1, <1>6 DEF CoverInv, OnBatch, Sending, At, Current
  <2>2. place \in {"submit", "confirm", "finish"} /\ (place = "submit" => leg # SweepLeg)
    BY <1>6 DEF AfterAccept, LegsOf, SweepLeg, TypeInv, TypeOK, Handler
  <2>3. AllIn(Exposed(k), side[k], sigs) BY <2>1 DEF AllIn
  <2> HIDE DEF place, leg, sigs
  <2> QED BY <1>1, <1>2, <1>3, <1>4, <2>1, <2>2, <2>3
          DEF CoverInv, OnBatch, OnSale, Sending, At, Current, AllOf
<1> QED BY <1>5, <1>6

LEMMA RpcEndsKeepsCover ==
  ASSUME TypeInv, NEW k \in Keys, CoverInv(k), RpcRefuses(k) \/ RpcTimesOut(k) PROVE CoverInv(k)'
<1>1. At(k, "rpc") /\ UNCHANGED <<side, instance, builds, chain>> BY DEF RpcRefuses, RpcTimesOut
<1>2. queued[k] > 0 BY <1>1 DEF TypeInv, LockInv, At
<1>3. CASE handler[k].leg = SweepLeg
  <2>1. AllOf(k, handler[k].sigs) BY <1>1, <1>3 DEF CoverInv, OnSale, Sending, At
  <2>2. (Goto(k, "sale") \/ Goto(k, "finish")) /\ UNCHANGED <<store, queued, reply>>
    BY <1>3 DEF RpcRefuses, RpcTimesOut
  <2> QED BY <1>1, <1>2, <2>1, <2>2, GotoKeepsCover DEF Places
<1>4. CASE StopPartial(k) BY <1>1, <1>2, <1>4, StopKeepsCover
<1>5. CASE ReleaseAndFail(k) BY <1>1, <1>2, <1>5, FailKeepsCover
<1>6. CASE Goto(k, "build") /\ UNCHANGED <<store, queued, reply>>
  BY <1>1, <1>2, <1>6, GotoKeepsCover DEF Places
<1>7. CASE Answer(k, Reply("unavailable", {}, FALSE)) /\ UNCHANGED store
  <2> DEFINE a == Reply("unavailable", {}, FALSE)
  <2>1. Answer(k, a) /\ a.kind # "submitted" BY <1>7 DEF Reply
  <2> HIDE DEF a
  <2> QED BY <1>1, <1>2, <1>7, <2>1, AnswerKeepsCover DEF CoverInv
<1> QED BY <1>3, <1>4, <1>5, <1>6, <1>7 DEF RpcRefuses, RpcTimesOut

LEMMA SweepsKeepCover ==
  ASSUME TypeInv, NEW k \in Keys, CoverInv(k), Confirmed(k) \/ ListSellable(k) \/ SweepEnds(k)
  PROVE  CoverInv(k)'
<1>1. AllOf(k, handler[k].sigs) BY DEF Confirmed, ListSellable, SweepEnds, CoverInv, OnSale, At
<1>2. queued[k] > 0 BY DEF Confirmed, ListSellable, SweepEnds, TypeInv, LockInv, At
<1> QED BY <1>1, <1>2, GotoKeepsCover DEF Confirmed, ListSellable, SweepEnds, Places

LEMMA ReadFailsKeepsCover ==
  ASSUME TypeInv, NEW k \in Keys, CoverInv(k), ReadFails(k) PROVE CoverInv(k)'
<1> DEFINE a == Reply("bad_request", {}, FALSE)
<1>1. Answer(k, a) /\ a.kind # "submitted" /\ queued[k] > 0
  BY DEF ReadFails, Reply, TypeInv, LockInv, At
<1> HIDE DEF a
<1> QED BY <1>1, AnswerKeepsCover DEF ReadFails, CoverInv

LEMMA CompleteKeepsCover ==
  ASSUME TypeInv, NEW k \in Keys, CoverInv(k), Complete(k) PROVE CoverInv(k)'
<1> DEFINE a == Reply("submitted", handler[k].sigs, handler[k].partial)
<1>1. /\ Answer(k, a) /\ a.ids = handler[k].sigs /\ a.partial = handler[k].partial
      /\ queued[k] > 0
  BY DEF Complete, Reply, TypeInv, LockInv, At
<1>2. /\ store'[k].phase = "submitted" /\ store'[k].result = handler[k].sigs
      /\ store'[k].partial = handler[k].partial
  BY DEF Complete, Record, TypeInv, TypeOK
<1>3. ~handler[k].partial => AllOf(k, handler[k].sigs) BY DEF Complete, At, CoverInv
<1> HIDE DEF a
<1> QED BY <1>1, <1>2, <1>3, AnswerKeepsCover DEF Complete

LEMMA ShrinkKeepsCover ==
  ASSUME TypeInv, NEW k \in Keys, CoverInv(k), Exposed(k)' \subseteq Exposed(k),
         UNCHANGED <<side, store, builds, reply>>,
         handler'[k] = handler[k] \/ handler'[k].at = "idle"
  PROVE  CoverInv(k)'
BY AllLasts DEF CoverInv, OnBatch, OnSale, Sending, At, Current, AllOf

LEMMA EnvironmentKeepsCover ==
  ASSUME TypeInv, NEW k \in Keys, CoverInv(k), Network \/ Restart PROVE CoverInv(k)'
<1>1. CASE Network
  <2>1. ASSUME NEW from \in {"sent", "live"}, NEW to, Becomes(from, to) PROVE Exposed(k)'
               \subseteq Exposed(k)
    BY <2>1 DEF Becomes, SetTx, Exposed, TypeInv, TypeOK
  <2> QED BY <1>1, <2>1, ShrinkKeepsCover
          DEF Network, NetworkAccepts, NetworkRejects, Lands, FailsOnChain, Becomes
<1>2. CASE Restart BY <1>2, ExposedSame, ShrinkKeepsCover DEF Restart, Idle, Work
<1> QED BY <1>1, <1>2

LEMMA OrderInit == ASSUME Init PROVE OrderInv
<1>1. ASSUME NEW k \in Keys PROVE CoverInv(k)
  <2>1. handler[k].at = "idle" /\ store[k].phase = "absent" /\ reply[k].kind = "none"
    BY DEF Init, Idle, Work, AbsentRecord, Record, NoReply, Reply
  <2> QED BY <2>1 DEF CoverInv, OnBatch, OnSale, Sending, At
<1> QED BY <1>1, SafetyInit, WholeInit DEF OrderInv

LEMMA OrderStep == ASSUME Survivable, OrderInv, [Next]_vars PROVE OrderInv'
<1>1. SafetyInv' /\ \A k \in Keys : WholeInv(k)' BY SafetyStep, WholeStep DEF OrderInv, SafetyInv
<1>2. ASSUME NEW k \in Keys, Request(k) \/ Serve(k) PROVE CoverInv(k)'
  <2>1. TypeInv /\ KeyInv(k) /\ WholeInv(k) /\ CoverInv(k) BY DEF OrderInv, SafetyInv
  <2>2. ~At(k, "idle") => queued[k] > 0 BY <2>1 DEF TypeInv, LockInv
  <2>3. ~SendExternal(k) BY <2>1 DEF SendExternal, MayHit, Survivable, TypeInv, TypeOK
  <2>4. ~ExternalAccepts(k) /\ ~ExternalFails(k)
    BY <2>1 DEF ExternalAccepts, ExternalFails, At, KeyInv, SigsInv
  <2> QED
    BY <1>2, <2>1, <2>2, <2>3, <2>4, RequestKeepsCover, ReserveKeepsCover, AnswersKeepCover,
       FailKeepsCover,
       BuildKeepsCover, SellResidualKeepsCover, MarkStartedKeepsCover, SendKeepsCover,
       RpcAcceptsKeepsCover, RpcEndsKeepsCover, SweepsKeepCover, StopKeepsCover, ReadFailsKeepsCover,
       CompleteKeepsCover
       DEF Serve, Handle, BuildFails, NotConfirmed, At
<1>3. ASSUME NEW k \in Keys PROVE CoverInv(k)'
  <2>1. TypeInv /\ CoverInv(k) BY DEF OrderInv, SafetyInv
  <2>2. CASE \E j \in Keys : Request(j) \/ Serve(j) BY <1>2, <2>1, <2>2, OthersSame, SameKeepsCover
  <2>3. CASE Restart \/ Network BY <2>1, <2>3, EnvironmentKeepsCover
  <2>4. CASE UNCHANGED vars BY <2>1, <2>4, SameKeepsCover DEF vars, Same
  <2> QED BY <2>2, <2>3, <2>4 DEF Next
<1> QED BY <1>1, <1>3 DEF OrderInv

-----------------------------------------------------------------------------
(* One order.  The definitions are those of LiveExecution.                 *)

\* The only fault: sendTransaction of a Meteora transaction times out.
OnlyTimeouts == Faults \subseteq {"open", "exit"} \X {"unknown"}

OrderTx(k) == {t \in Tx : t[2] <= LegsOf(k)}
BatchLanded(k) == \E b \in 1..MaxBuilds : \A leg \in 1..LegsOf(k) : chain[k][<<b, leg>>] = "landed"
MaySend(k) ==
  /\ queued[k] > 0 /\ ~BatchLanded(k)
  /\ handler[k].at = "idle" => store[k].phase \in {"absent", "reserved"}
InFlight(k) == MaySend(k) \/ \E t \in OrderTx(k) : chain[k][t] \in {"sent", "live"}

\* The order will never be executed, and has not been.
Definite(k) == ~InFlight(k) /\ \A t \in OrderTx(k) : chain[k][t] # "landed"
\* No request of the order has ever been posted.
Untouched(k) ==
  store[k].phase = "absent" /\ queued[k] = 0 /\ reply[k].kind = "none"
    /\ \A t \in Tx : chain[k][t] = "none"

NoBadRequest(k) == reply[k].kind # "bad_request"
ClientInv == OrderInv /\ \A k \in Keys : NoBadRequest(k)

\* Any step of the sidecar but a request for k.
Calm(k) ==
  \/ \E j \in Keys \ {k} : Request(j)
  \/ \E j \in Keys : Serve(j)
  \/ Restart \/ Network \/ UNCHANGED vars

LEMMA TimeoutsSurvivable == ASSUME OnlyTimeouts PROVE Survivable
BY DEF OnlyTimeouts, Survivable, SideKinds

LEMMA ServeQueue ==
  ASSUME TypeInv, NEW k \in Keys, Serve(k)
  PROVE  \A j \in Keys \ {k} : queued'[j] = queued[j]
<1> USE DEF TypeInv, TypeOK
<1>1. ASSUME NEW a, Answer(k, a) PROVE \A j \in Keys \ {k} : queued'[j] = queued[j]
  BY <1>1 DEF Answer
<1>2. CASE ReserveNew(k) \/ TakeOver(k) BY <1>2 DEF ReserveNew, TakeOver
<1>3. CASE AnswerPending(k) \/ AnswerReplay(k) BY <1>1, <1>3 DEF AnswerPending, AnswerReplay
<1>4. CASE BuildFails(k) BY <1>1, <1>4 DEF BuildFails, ReleaseAndFail
<1>5. CASE Build(k) \/ MarkStarted(k) \/ Send(k) \/ RpcAccepts(k)
  BY <1>5 DEF Build, MarkStarted, Send, RpcAccepts
<1>6. CASE RpcRefuses(k) BY <1>1, <1>6 DEF RpcRefuses, StopPartial, ReleaseAndFail
<1>7. CASE RpcTimesOut(k) BY <1>1, <1>7 DEF RpcTimesOut, StopPartial, ReleaseAndFail
<1>8. CASE SendExternal(k) \/ ExternalAccepts(k) \/ ExternalFails(k)
  BY <1>8 DEF SendExternal, ExternalAccepts, ExternalFails
<1>9. CASE Confirmed(k) \/ NotConfirmed(k) \/ ListSellable(k) \/ SellResidual(k) \/ SweepEnds(k)
  BY <1>9 DEF Confirmed, NotConfirmed, StopPartial, ListSellable, SellResidual, SweepEnds
<1>10. CASE ReadFails(k) \/ Complete(k) BY <1>1, <1>10 DEF ReadFails, Complete
<1> QED BY <1>2, <1>3, <1>4, <1>5, <1>6, <1>7, <1>8, <1>9, <1>10 DEF Serve, Handle

\* No answer 400 without a failing read.
LEMMA ServeAnswer ==
  ASSUME TypeInv, OnlyTimeouts, NEW k \in Keys, NoBadRequest(k), Serve(k)
  PROVE  NoBadRequest(k)'
<1> USE DEF NoBadRequest
<1>1. ASSUME NEW a, Answer(k, a), a.kind # "bad_request" PROVE NoBadRequest(k)'
  BY <1>1, AnswerEffect
<1>2. CASE ReserveNew(k) \/ TakeOver(k) BY <1>2 DEF ReserveNew, TakeOver
<1>3. CASE AnswerPending(k) \/ AnswerReplay(k) BY <1>1, <1>3 DEF AnswerPending, AnswerReplay, Reply
<1>4. CASE BuildFails(k) BY <1>1, <1>4 DEF BuildFails, ReleaseAndFail, Reply
<1>5. CASE Build(k) \/ MarkStarted(k) \/ Send(k) \/ RpcAccepts(k)
  BY <1>5 DEF Build, MarkStarted, Send, RpcAccepts
<1>6. CASE RpcRefuses(k) BY <1>1, <1>6 DEF RpcRefuses, StopPartial, ReleaseAndFail, Reply
<1>7. CASE RpcTimesOut(k) BY <1>1, <1>7 DEF RpcTimesOut, StopPartial, ReleaseAndFail, Reply
<1>8. CASE SendExternal(k) \/ ExternalAccepts(k) \/ ExternalFails(k)
  BY <1>8 DEF SendExternal, ExternalAccepts, ExternalFails
<1>9. CASE Confirmed(k) \/ NotConfirmed(k) \/ ListSellable(k) \/ SellResidual(k) \/ SweepEnds(k)
  BY <1>9 DEF Confirmed, NotConfirmed, StopPartial, ListSellable, SellResidual, SweepEnds
<1>10. CASE Complete(k) BY <1>1, <1>10 DEF Complete, Reply
<1>11. ~ReadFails(k) BY DEF ReadFails, MayHit, OnlyTimeouts
<1> QED BY <1>2, <1>3, <1>4, <1>5, <1>6, <1>7, <1>8, <1>9, <1>10, <1>11 DEF Serve, Handle

LEMMA ClientInit == ASSUME Init PROVE ClientInv
BY OrderInit DEF Init, NoReply, Reply, ClientInv, NoBadRequest

LEMMA ClientStep == ASSUME OnlyTimeouts, ClientInv, [Next]_vars PROVE ClientInv'
<1>1. TypeInv BY DEF ClientInv, OrderInv, SafetyInv
<1>2. OrderInv' BY TimeoutsSurvivable, OrderStep DEF ClientInv
<1>3. ASSUME NEW k \in Keys PROVE NoBadRequest(k)'
  <2>1. ASSUME NEW j \in Keys, Serve(j) PROVE NoBadRequest(k)'
    BY <1>1, <2>1, ServeAnswer, OthersSame DEF ClientInv, Same, NoBadRequest
  <2>2. ASSUME NEW j \in Keys, Request(j) PROVE NoBadRequest(k)'
    BY <1>1, <2>2 DEF Request, ClientInv, NoBadRequest, NoReply, Reply, TypeInv, TypeOK
  <2>3. CASE UNCHANGED reply BY <2>3 DEF ClientInv, NoBadRequest
  <2> QED BY <2>1, <2>2, <2>3 DEF Next, vars, Restart, Network, NetworkAccepts, NetworkRejects, Lands,
                                  FailsOnChain, Becomes
<1> QED BY <1>2, <1>3 DEF ClientInv

-----------------------------------------------------------------------------
(* What the answers and the chain say of an order.                         *)

LEMMA OrderTxPlain == ASSUME NEW k \in Keys, NEW t \in OrderTx(k) PROVE t \in Tx /\ t[2] # SweepLeg
BY DEF OrderTx, Tx, LegsOf, SweepLeg

LEMMA UntouchedIsDefinite == ASSUME TypeInv, NEW k \in Keys, Untouched(k) PROVE Definite(k)
BY DEF Untouched, Definite, InFlight, MaySend, OrderTx

LEMMA FailedAnswer ==
  ASSUME ClientInv, NEW k \in Keys, reply[k].kind = "failed" PROVE Definite(k)
<1>1. Exposed(k) = {} /\ queued[k] = 0
  BY DEF ClientInv, OrderInv, SafetyInv, KeyInv, FailedUnsent, TypeInv, LockInv
<1> QED BY <1>1 DEF Definite, InFlight, MaySend, OrderTx, Exposed

LEMMA SubmittedAnswer ==
  ASSUME ClientInv, NEW k \in Keys, reply[k].kind = "submitted", ~reply[k].partial
  PROVE  store[k].phase = "submitted" /\ ~store[k].partial /\ store[k].result = reply[k].ids
BY DEF ClientInv, OrderInv, CoverInv

\* A batch that has landed is all that is executed of the order.
LEMMA LandedIsDone ==
  ASSUME ClientInv, NEW k \in Keys, BatchLanded(k) PROVE ~InFlight(k)
<1>1. PICK b \in 1..MaxBuilds : \A leg \in 1..LegsOf(k) : chain[k][<<b, leg>>] = "landed"
  BY DEF BatchLanded
<1>2. LegsOf(k) \in 1..Legs BY DEF LegsOf
<1>3. <<b, 1>> \in Exposed(k) /\ <<b, 1>>[2] # SweepLeg BY <1>1, <1>2 DEF Exposed, Tx, SweepLeg
<1>4. ASSUME NEW t \in OrderTx(k), chain[k][t] \in {"sent", "live"} PROVE FALSE
  <2>1. t \in Exposed(k) /\ t[2] # SweepLeg BY <1>4, OrderTxPlain DEF Exposed
  <2>2. t[1] = b BY <1>3, <2>1 DEF ClientInv, OrderInv, SafetyInv, KeyInv, OneBuild
  <2>3. t = <<b, t[2]>> /\ t[2] \in 1..LegsOf(k) BY <1>2, <2>2 DEF OrderTx, Tx, SweepLeg
  <2> QED BY <1>1, <1>4, <2>3
<1> QED BY <1>4 DEF InFlight, MaySend

\* A stored batch of one transaction, of which a transaction failed and none landed, is not executed.
LEMMA FailedResult ==
  ASSUME ClientInv, Legs = 1, NEW k \in Keys, store[k].phase = "submitted", ~store[k].partial,
         NEW t \in store[k].result, chain[k][t] = "failed",
         \A u \in store[k].result : chain[k][u] # "landed"
  PROVE  Definite(k)
<1> DEFINE ids == store[k].result
<1>1. LegsOf(k) = 1 /\ SweepLeg = 2 BY DEF LegsOf, SweepLeg
<1>2. AllOf(k, ids) /\ Whole(k, ids) BY DEF ClientInv, OrderInv, CoverInv, WholeInv, ResultInv
<1>3. PICK b \in 1..MaxBuilds : <<b, 1>> \in ids /\ chain[k][<<b, 1>>] \in Good(k)
  BY <1>1, <1>2 DEF Whole, WholeOf
<1>4. side[k] # "exit" BY <1>3 DEF Good, IsExit
<1>5. ids \subseteq Tx BY DEF ClientInv, OrderInv, SafetyInv, TypeInv, TypeOK, SubmissionRecord
<1>6. \A u \in ids : u = <<b, 1>>
  <2> SUFFICES ASSUME NEW u \in ids PROVE u = <<b, 1>> OBVIOUS
  <2>1. u[2] # SweepLeg /\ u[1] = b BY <1>1, <1>2, <1>3, <1>4 DEF AllOf, AllIn
  <2> QED BY <1>1, <1>5, <2>1 DEF Tx
<1>7. \A u \in Exposed(k) : u[2] = SweepLeg \/ u \in ids BY <1>2 DEF AllOf, AllIn
<1>8. \A u \in OrderTx(k) : chain[k][u] \notin {"sent", "live", "landed"}
  BY <1>6, <1>7, OrderTxPlain DEF Exposed
<1>9. ~MaySend(k) BY DEF MaySend, ClientInv, OrderInv, SafetyInv, KeyInv, StoreInv, At
<1> QED BY <1>8, <1>9 DEF Definite, InFlight

-----------------------------------------------------------------------------
(* An order that is done stays done until it is requested again.           *)

\* What a step of the sidecar may have executed of the order.
Still(k) == \A t \in OrderTx(k) : chain'[k][t] = "landed" <=> chain[k][t] = "landed"

LEMMA SidesStay == ASSUME [Next]_vars, TypeInv PROVE UNCHANGED side
<1>1. ASSUME NEW k \in Keys, Request(k) \/ Serve(k) PROVE UNCHANGED side BY <1>1, OthersSame
<1> QED BY <1>1 DEF Next, vars, Restart, Network, NetworkAccepts, NetworkRejects, Lands, FailsOnChain,
    Becomes

\* Only a request that waits is served.
LEMMA ServeWaits == ASSUME TypeInv, NEW k \in Keys, Serve(k) PROVE queued[k] > 0
BY DEF Serve, ReserveNew, TakeOver, AnswerPending, AnswerReplay, Lockable, Handle, BuildFails, Build,
   MarkStarted, Send, RpcAccepts, RpcRefuses, RpcTimesOut, SendExternal, SwapOffered, ExternalAccepts,
   ExternalFails, Confirmed, NotConfirmed, ListSellable, SellResidual, SweepEnds, ReadFails, Complete,
   At, TypeInv, LockInv

\* An order that is done is served by answers alone, or by the sale of its residual.
LEMMA ServeDone ==
  ASSUME OnlyTimeouts, ClientInv, NEW k \in Keys, ~InFlight(k), Serve(k)
  PROVE  ~InFlight(k)' /\ Still(k)
<1>1. TypeInv /\ KeyInv(k) /\ WholeInv(k) BY DEF ClientInv, OrderInv, SafetyInv
<1>2. queued[k] > 0 BY <1>1, ServeWaits
<1>3. UNCHANGED side BY <1>1, OthersSame
<1>4. LegsOf(k)' = LegsOf(k) /\ OrderTx(k)' = OrderTx(k) BY <1>3 DEF LegsOf, IsSwap, OrderTx
<1>5. CASE handler[k].at = "idle" /\ ~BatchLanded(k)
  <2>1. store[k].phase \notin {"absent", "reserved"} BY <1>2, <1>5 DEF InFlight, MaySend
  <2>2. AnswerPending(k) \/ AnswerReplay(k)
    BY <1>5, <2>1 DEF Serve, ReserveNew, TakeOver, Handle, BuildFails, Build,
       MarkStarted, Send, RpcAccepts, RpcRefuses, RpcTimesOut, SendExternal, SwapOffered,
         ExternalAccepts,
       ExternalFails, Confirmed, NotConfirmed, ListSellable, SellResidual, SweepEnds, ReadFails,
         Complete, At
  <2>3. chain' = chain /\ store' = store /\ handler'[k].at = "idle"
    BY <1>1, <2>2, AnswerEffect DEF AnswerPending, AnswerReplay
  <2> QED BY <1>4, <2>1, <2>3 DEF InFlight, MaySend, BatchLanded, Still
<1>6. CASE BatchLanded(k)
  <2>1. PICK b \in 1..MaxBuilds : \A leg \in 1..LegsOf(k) : chain[k][<<b, leg>>] = "landed"
    BY <1>6 DEF BatchLanded
  <2>2. LegsOf(k) \in 1..Legs BY DEF LegsOf
  <2>3. \A t \in OrderTx(k) : chain'[k][t] = chain[k][t]
    <3>1. CASE Send(k)
      <4>1. CASE handler[k].leg = SweepLeg
        <5>1. \A t \in OrderTx(k) : t # Current(k) BY <4>1, OrderTxPlain DEF Current
        <5> QED BY <1>1, <3>1, <5>1, OrderTxPlain DEF Send, SetTx, TypeInv, TypeOK
      <4>2. CASE handler[k].leg # SweepLeg
        <5>1. handler[k].leg \in 1..LegsOf(k)
          BY <1>1, <2>2, <3>1, <4>2 DEF Send, At, TypeInv, TypeOK, PlaceInv, Handler, WholeInv, BatchInv,
                                        OnBatch, Sending, SweepLeg
        <5>2. <<b, 1>> \in Exposed(k) BY <2>1, <2>2 DEF Exposed, Tx, SweepLeg
        <5>3. <<b, 1>>[1] = builds[k] BY <1>1, <3>1, <4>2, <5>2 DEF Send, At, KeyInv, BuildInv
        <5>4. Current(k) = <<b, handler[k].leg>> BY <5>3 DEF Current
        <5>5. chain[k][Current(k)] = "none"
          BY <1>1, <3>1, CurrentTyped DEF Send, At, WholeInv, FreshInv
        <5> QED BY <2>1, <5>1, <5>4, <5>5
      <4> QED BY <4>1, <4>2
    <3>2. ~SendExternal(k)
      BY <1>1, TimeoutsSurvivable DEF SendExternal, MayHit, Survivable, TypeInv, TypeOK
    <3>3. ~Send(k) => chain' = chain
      BY <3>2 DEF Serve, ReserveNew, TakeOver, AnswerPending, AnswerReplay, Handle, BuildFails, Build,
         MarkStarted, RpcAccepts, RpcRefuses, RpcTimesOut, ExternalAccepts,
         ExternalFails, Confirmed, NotConfirmed, ListSellable, SellResidual, SweepEnds, ReadFails,
           Complete
    <3> QED BY <3>1, <3>3
  <2>4. BatchLanded(k)'
    <3>1. \A leg \in 1..LegsOf(k) : <<b, leg>> \in OrderTx(k) BY <2>2 DEF OrderTx, Tx, SweepLeg
    <3> QED BY <1>4, <2>1, <2>3, <3>1 DEF BatchLanded
  <2> QED BY <1>4, <2>3, <2>4 DEF InFlight, MaySend, Still
<1>7. handler[k].at # "idle" => BatchLanded(k) BY <1>2 DEF InFlight, MaySend
<1> QED BY <1>5, <1>6, <1>7

\* A step for another key, or of nothing at all.
Elsewhere(k) ==
  /\ Same(k) /\ UNCHANGED side
  /\ queued'[k] = queued[k] \/ (queued'[k] = 0 /\ handler'[k].at = "idle")

LEMMA ElsewhereDone ==
  ASSUME TypeInv, NEW k \in Keys, ~InFlight(k), Elsewhere(k) PROVE ~InFlight(k)' /\ Still(k)
BY DEF Elsewhere, Same, InFlight, MaySend, BatchLanded, OrderTx, LegsOf, IsSwap, Still

\* What a calm step is for k.
LEMMA CalmCases ==
  ASSUME TypeInv, NEW k \in Keys, Calm(k)
  PROVE  Elsewhere(k) \/ Serve(k) \/ Restart \/ Network
<1>1. ASSUME NEW j \in Keys \ {k}, Request(j) \/ Serve(j) PROVE Elsewhere(k)
  <2>1. Same(k) /\ UNCHANGED side BY <1>1, OthersSame
  <2>2. queued'[k] = queued[k] BY <1>1, ServeQueue DEF Request, TypeInv, TypeOK
  <2> QED BY <2>1, <2>2 DEF Elsewhere
<1>2. CASE UNCHANGED vars BY <1>2 DEF vars, Elsewhere, Same
<1> QED BY <1>1, <1>2 DEF Calm

\* What the network may change for a key.
LEMMA NetworkEffect ==
  ASSUME TypeInv, NEW k \in Keys, Network
  PROVE  /\ UNCHANGED <<side, instance, store, builds, queued, handler, reply>>
         /\ \A t \in Tx : chain'[k][t] = chain[k][t] \/ <<chain[k][t], chain'[k][t]>> \in Moves
<1>1. ASSUME NEW from, NEW to, Becomes(from, to), <<from, to>> \in Moves
      PROVE  \A t \in Tx : chain'[k][t] = chain[k][t] \/ <<chain[k][t], chain'[k][t]>> \in Moves
  <2>1. PICK j \in Keys, u \in Tx : chain[j][u] = from /\ SetTx(j, u, to) BY <1>1 DEF Becomes
  <2> SUFFICES ASSUME NEW t \in Tx, ~(j = k /\ u = t) PROVE chain'[k][t] = chain[k][t]
    BY <1>1, <2>1 DEF SetTx, TypeInv, TypeOK
  <2> QED BY <2>1 DEF SetTx, TypeInv, TypeOK
<1> QED BY <1>1 DEF Network, NetworkAccepts, NetworkRejects, Lands, FailsOnChain, Becomes, Moves

LEMMA CalmDone ==
  ASSUME OnlyTimeouts, ClientInv, NEW k \in Keys, ~InFlight(k), Calm(k)
  PROVE  ~InFlight(k)' /\ Still(k)
<1>1. TypeInv BY DEF ClientInv, OrderInv, SafetyInv
<1>2. CASE Network
  <2>1. LegsOf(k)' = LegsOf(k) /\ OrderTx(k)' = OrderTx(k)
    BY <1>1, <1>2, NetworkEffect DEF LegsOf, IsSwap, OrderTx
  <2>2. \A t \in OrderTx(k) : chain'[k][t] = chain[k][t]
    BY <1>1, <1>2, NetworkEffect DEF InFlight, Moves, OrderTx
  <2>3. BatchLanded(k)' <=> BatchLanded(k)
    <3>1. LegsOf(k) \in 1..Legs BY DEF LegsOf
    <3>2. \A b \in 1..MaxBuilds, leg \in 1..LegsOf(k) : <<b, leg>> \in OrderTx(k)
      BY <3>1 DEF OrderTx, Tx, SweepLeg
    <3> QED BY <2>1, <2>2, <3>2 DEF BatchLanded
  <2> QED BY <1>1, <1>2, <2>1, <2>2, <2>3, NetworkEffect DEF InFlight, MaySend, Still
<1>3. CASE Restart
  <2>1. queued'[k] = 0 /\ UNCHANGED <<side, chain>> BY <1>3 DEF Restart
  <2> QED BY <2>1 DEF InFlight, MaySend, OrderTx, LegsOf, IsSwap, Still
<1> QED BY <1>1, <1>2, <1>3, CalmCases, ElsewhereDone, ServeDone

LEMMA OrderTxStays == ASSUME [Next]_vars, TypeInv, NEW k \in Keys PROVE OrderTx(k)' = OrderTx(k)
BY SidesStay DEF OrderTx, LegsOf, IsSwap

LEMMA CalmIsNext == ASSUME NEW k \in Keys, Calm(k) PROVE [Next]_vars
BY DEF Calm, Next

LEMMA CalmDefinite ==
  ASSUME OnlyTimeouts, ClientInv, NEW k \in Keys, Definite(k), Calm(k) PROVE Definite(k)'
<1>1. OrderTx(k)' = OrderTx(k) BY CalmIsNext, OrderTxStays DEF ClientInv, OrderInv, SafetyInv
<1> QED BY <1>1, CalmDone DEF Definite, Still

\* Requests of other orders do not touch an order that was never requested.
LEMMA CalmUntouched ==
  ASSUME ClientInv, NEW k \in Keys, Untouched(k), Calm(k) PROVE Untouched(k)'
<1>1. TypeInv BY DEF ClientInv, OrderInv, SafetyInv
<1>2. CASE Network BY <1>1, <1>2, NetworkEffect DEF Untouched, Moves
<1>3. CASE Restart BY <1>3 DEF Restart, Untouched
<1>4. ~Serve(k) BY <1>1, ServeWaits DEF Untouched
<1>5. CASE Elsewhere(k)
  BY <1>5 DEF Elsewhere, Same, Untouched
<1> QED BY <1>1, <1>2, <1>3, <1>4, <1>5, CalmCases

\* A landed batch stays, and so does a stored result.
LEMMA LandedStays ==
  ASSUME ClientInv, NEW k \in Keys, BatchLanded(k), [Next]_vars PROVE BatchLanded(k)'
<1>1. TypeInv /\ WholeInv(k) BY DEF ClientInv, OrderInv, SafetyInv
<1>2. \A t \in Tx : chain[k][t] = "landed" => chain'[k][t] = "landed"
  <2>1. ASSUME NEW j \in Keys, Serve(j) PROVE \A t \in Tx : chain[k][t] = "landed"
               => chain'[k][t] = "landed"
    <3>1. CASE j # k BY <1>1, <2>1, <3>1, OthersSame DEF Same
    <3>2. CASE j = k /\ Send(k)
      <4>1. chain[k][Current(k)] = "none" BY <1>1, <3>2, CurrentTyped DEF Send, At, WholeInv, FreshInv
      <4> QED BY <1>1, <3>2, <4>1 DEF Send, SetTx, TypeInv, TypeOK
    <3>3. CASE j = k /\ SendExternal(k)
      <4> DEFINE u == <<builds[k] + 1, SwapLeg(k)>>
      <4>1. u \in Tx => chain[k][u] = "none"
        BY <1>1 DEF WholeInv, FreshInv, TypeInv, TypeOK
      <4>2. \A t \in Tx : t # u => chain'[k][t] = chain[k][t]
        BY <1>1, <3>3 DEF SendExternal, SetTx, TypeInv, TypeOK
      <4> QED BY <4>1, <4>2
    <3>4. CASE j = k /\ ~Send(k) /\ ~SendExternal(k)
      BY <2>1, <3>4 DEF Serve, ReserveNew, TakeOver, AnswerPending, AnswerReplay, Handle, BuildFails,
         Build,
         MarkStarted, RpcAccepts, RpcRefuses, RpcTimesOut, ExternalAccepts,
         ExternalFails, Confirmed, NotConfirmed, ListSellable, SellResidual, SweepEnds, ReadFails,
           Complete
    <3> QED BY <3>1, <3>2, <3>3, <3>4
  <2>2. CASE Network BY <1>1, <2>2, NetworkEffect DEF Moves
  <2> QED BY <2>1, <2>2 DEF Next, Request, Restart, vars
<1>3. LegsOf(k)' = LegsOf(k) /\ LegsOf(k) \in 1..Legs BY <1>1, SidesStay DEF LegsOf, IsSwap
<1>4. \A b \in 1..MaxBuilds, leg \in 1..LegsOf(k) : <<b, leg>> \in Tx BY <1>3 DEF Tx, SweepLeg
<1> QED BY <1>2, <1>3, <1>4 DEF BatchLanded

LEMMA ResultStays ==
  ASSUME ClientInv, NEW k \in Keys, store[k].phase = "submitted", [Next]_vars PROVE store'[k] = store[k]
<1>1. TypeInv /\ BusyInv BY DEF ClientInv, OrderInv, SafetyInv, KeyInv, StoreInv, BusyInv
<1> QED BY <1>1, BusyStep DEF Final

-----------------------------------------------------------------------------
(* Executions.                                                             *)

\* Its first transaction is executed.
Executes(k) ==
  /\ InFlight(k) /\ \A t \in OrderTx(k) : chain[k][t] # "landed"
  /\ \E t \in OrderTx(k) : \A u \in OrderTx(k) : chain'[k][u] = "landed" <=> u = t

\* An order of one transaction is executed at most once, by the network and while it is in flight.
LEMMA LandingStep ==
  ASSUME OnlyTimeouts, Legs = 1, ClientInv, [Next]_vars
  PROVE  \/ \A k \in Keys : Still(k)
         \/ \E k \in Keys : Executes(k) /\ \A j \in Keys \ {k} : Still(j)
<1>1. TypeInv BY DEF ClientInv, OrderInv, SafetyInv
<1>2. CASE Lands
  <2>1. PICK k \in Keys, t \in Tx : chain[k][t] = "live" /\ SetTx(k, t, "landed")
    BY <1>2 DEF Lands, Becomes
  <2>2. \A j \in Keys \ {k} : Still(j) BY <1>1, <2>1 DEF SetTx, Still, TypeInv, TypeOK
  <2>3. \A u \in Tx : chain'[k][u] = IF u = t THEN "landed" ELSE chain[k][u]
    BY <1>1, <2>1 DEF SetTx, TypeInv, TypeOK
  <2>4. CASE t \in OrderTx(k)
    <3>1. t \in Exposed(k) /\ t[2] # SweepLeg /\ InFlight(k)
      BY <2>1, <2>4, OrderTxPlain DEF Exposed, InFlight
    <3>2. ASSUME NEW u \in OrderTx(k), chain[k][u] = "landed" PROVE FALSE
      <4>1. u \in Exposed(k) /\ u[2] # SweepLeg BY <3>2, OrderTxPlain DEF Exposed
      <4>2. u[1] = t[1] BY <3>1, <4>1 DEF ClientInv, OrderInv, SafetyInv, KeyInv, OneBuild
      <4>3. LegsOf(k) = 1 BY DEF LegsOf
      <4>4. u = <<u[1], 1>> /\ t = <<t[1], 1>> BY <2>4, <4>3 DEF OrderTx, Tx, SweepLeg
      <4> QED BY <2>1, <3>2, <4>2, <4>4
    <3>3. \A u \in OrderTx(k) : chain'[k][u] = "landed" <=> u = t
      BY <2>3, <3>2, OrderTxPlain
    <3> QED BY <2>2, <2>4, <3>1, <3>2, <3>3 DEF Executes
  <2>5. CASE t \notin OrderTx(k)
    BY <2>2, <2>3, <2>5, OrderTxPlain DEF Still
  <2> QED BY <2>4, <2>5
<1>3. CASE ~Lands
  <2> SUFFICES ASSUME NEW k \in Keys PROVE Still(k) OBVIOUS
  <2>1. CASE Network
    <3>1. ASSUME NEW from, NEW to, Becomes(from, to), from # "landed", to # "landed" PROVE Still(k)
      BY <1>1, <3>1, OrderTxPlain DEF Becomes, SetTx, Still, TypeInv, TypeOK
    <3> QED BY <1>3, <2>1, <3>1 DEF Network, NetworkAccepts, NetworkRejects, FailsOnChain
  <2>2. ASSUME NEW j \in Keys, Serve(j) PROVE Still(k)
    <3>1. CASE j # k BY <1>1, <2>2, <3>1, OthersSame DEF Same, Still
    <3>2. CASE j = k /\ Send(k)
      <4>1. chain[k][Current(k)] = "none"
        BY <1>1, <3>2, CurrentTyped DEF Send, At, ClientInv, OrderInv, WholeInv, FreshInv
      <4>2. \A t \in Tx : chain'[k][t] = IF t = Current(k) THEN "sent" ELSE chain[k][t]
        BY <1>1, <3>2 DEF Send, SetTx, TypeInv, TypeOK
      <4> QED BY <4>1, <4>2, OrderTxPlain DEF Still
    <3>3. ~SendExternal(k)
      BY <1>1, TimeoutsSurvivable DEF SendExternal, MayHit, Survivable, TypeInv, TypeOK
    <3>4. CASE j = k /\ ~Send(k)
      BY <2>2, <3>3, <3>4 DEF Serve, ReserveNew, TakeOver, AnswerPending, AnswerReplay, Handle,
         BuildFails,
         Build, MarkStarted, RpcAccepts, RpcRefuses, RpcTimesOut, ExternalAccepts, Still,
         ExternalFails, Confirmed, NotConfirmed, ListSellable, SellResidual, SweepEnds, ReadFails,
           Complete
    <3> QED BY <3>1, <3>2, <3>4
  <2> QED BY <2>1, <2>2 DEF Next, Request, Restart, vars, Still
<1> QED BY <1>2, <1>3
-----------------------------------------------------------------------------
(* What the client relies on.                                              *)

LEMMA ClientAlways == ASSUME OnlyTimeouts PROVE Spec => []ClientInv
<1>1. Init => ClientInv BY ClientInit
<1>2. ClientInv /\ [Next]_vars => ClientInv' BY ClientStep
<1> QED BY <1>1, <1>2, PTL DEF Spec

\* Under the faults the sidecar is built to survive, a complete answer "submitted" names every
\* transaction of the order that may have had an effect: the daemon polls these signatures and
\* nothing else to learn what became of its order.
NamesAll(k) ==
  reply[k].kind = "submitted" /\ ~reply[k].partial =>
    \A t \in Exposed(k) : t[2] = SweepLeg \/ t \in reply[k].ids
THEOREM AnswerNamesAll == ASSUME Survivable PROVE Spec => [](\A k \in Keys : NamesAll(k))
<1>1. Init => OrderInv BY OrderInit
<1>2. OrderInv /\ [Next]_vars => OrderInv' BY OrderStep
<1>3. OrderInv => \A k \in Keys : NamesAll(k) BY DEF OrderInv, CoverInv, AllOf, AllIn, NamesAll
<1> QED BY <1>1, <1>2, <1>3, PTL DEF Spec

\* An order that is done, be it executed, failed or never sent, is not reopened by the sidecar: no
\* restart, takeover, late answer or event of the network makes it executable again, only another
\* request with its key.  So the daemon may forget a key once it has been told the outcome.
THEOREM OnlyRequestsReopen ==
  ASSUME OnlyTimeouts
  PROVE  Spec => [][\A k \in Keys : ~InFlight(k) /\ InFlight(k)' => Request(k)]_vars
<1>1. ClientInv /\ [Next]_vars => [\A k \in Keys : ~InFlight(k) /\ InFlight(k)' => Request(k)]_vars
  <2> SUFFICES ASSUME ClientInv, [Next]_vars, NEW k \in Keys, ~InFlight(k), InFlight(k)'
               PROVE  Request(k)
    OBVIOUS
  <2>1. ~Calm(k) BY CalmDone
  <2> QED BY <2>1 DEF Calm, Next
<1> QED BY <1>1, ClientAlways, PTL DEF Spec

\* An order of one transaction is executed at most once, and only while it is in flight.
THEOREM ExecutedOnce ==
  ASSUME OnlyTimeouts, Legs = 1
  PROVE  Spec => [][\A k \in Keys : Still(k) \/ Executes(k)]_vars
<1>1. ClientInv /\ [Next]_vars => [\A k \in Keys : Still(k) \/ Executes(k)]_vars BY LandingStep
<1> QED BY <1>1, ClientAlways, PTL DEF Spec
=============================================================================
