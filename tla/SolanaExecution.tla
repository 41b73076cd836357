--------------------------- MODULE SolanaExecution ---------------------------
(***************************************************************************)
(* The execution sidecar of Lightld (src/src/execution/solana): the HTTP   *)
(* service that turns a signed order intent into Solana transactions.  The *)
(* daemon may send the same intent several times (it times out, crashes,   *)
(* replays its write-ahead file), so the sidecar keeps one durable record  *)
(* per idempotency key and serves the requests of a key one at a time.     *)
(*                                                                         *)
(* A key stands for one signed intent.  What a request does:               *)
(*   lock the key; read its record: replay a result, answer a pending one, *)
(*   or reserve the key; build transactions; for each one write its        *)
(*   signature to the record, then call sendTransaction; write the result. *)
(* The process may die between any two of these steps (Restart), and the   *)
(* network may take, refuse or lose a transaction independently of what    *)
(* the RPC client reports.                                                 *)
(***************************************************************************)
EXTENDS Naturals, FiniteSets

CONSTANTS
  Keys,          \* idempotency keys, one signed intent each
  Sides,         \* the kinds of intent that are sent, a subset of SideKinds
  Legs,          \* transactions of one Meteora batch
  MaxBuilds,     \* bound: transaction batches built for one key
  MaxInstances,  \* bound: processes of the sidecar, one after another
  MaxQueue,      \* bound: requests of one key the sidecar holds at once
  Faults         \* which environment fault may hit an intent of which kind

\* open: add-lp; exit: withdraw-lp or claim-fee that liquidates the residual token;
\* swap: buy or sell through the chain of swap providers.
SideKinds == {"open", "exit", "swap"}

\* unknown:  sendTransaction times out, the transaction's fate open
\* failover: one write endpoint takes the transaction and times out, the next one refuses it
\* read:     an RPC read fails after a transaction was accepted
\* external: Jupiter V2 executes a swap and its answer is lost
FaultKinds == {"unknown", "failover", "read", "external"}

ASSUME ConstantsAssumption ==
  /\ Sides \subseteq SideKinds
  /\ Legs \in Nat \ {0}
  /\ MaxBuilds \in Nat \ {0}
  /\ MaxInstances \in Nat \ {0}
  /\ MaxQueue \in Nat \ {0}
  /\ Faults \subseteq SideKinds \X FaultKinds

\* A transaction is named by its build and its place in the batch; the last place is the swap
\* that sells the residual token of an exit.
SweepLeg == Legs + 1
Tx == (1..MaxBuilds) \X (1..SweepLeg)

VARIABLES
  side,      \* the side of each key's intent; it never changes
  instance,  \* executionInstanceId of the running process
  store,     \* submissions.json: the durable record of each key
  builds,    \* batches built so far for each key (a fresh blockhash each: new signatures)
  chain,     \* what became of each transaction outside the sidecar
  queued,    \* requests of each key accepted and not yet answered
  handler,   \* the request of each key that holds the key's lock
  reply      \* the answer the client that waits last for a key has received

vars == <<side, instance, store, builds, chain, queued, handler, reply>>

\* none: unknown to the network; sent: on its way; live: accepted, may still execute;
\* landed: executed; failed: executed with an error; rejected: refused, never executes.
TxState == {"none", "sent", "live", "landed", "failed", "rejected"}

\* The transaction has had, or may still have, its effect.
Exposed(k) == {t \in Tx : chain[k][t] \in {"sent", "live", "landed"}}

Record(phase, owner, evidence, result, partial) ==
  [phase |-> phase, owner |-> owner, evidence |-> evidence, result |-> result, partial |-> partial]
AbsentRecord == Record("absent", 0, {}, {}, FALSE)
Reservation(owner) == Record("reserved", owner, {}, {}, FALSE)
SubmissionRecord ==
  [phase : {"absent", "reserved", "broadcast_started", "submitted"}, owner : 0..MaxInstances,
   evidence : SUBSET Tx, result : SUBSET Tx, partial : BOOLEAN]

Work(at, leg, sigs, partial) == [at |-> at, leg |-> leg, sigs |-> sigs, partial |-> partial]
Idle == Work("idle", 0, {}, FALSE)
Handler ==
  [at : {"idle", "build", "submit", "send", "rpc", "external", "confirm", "sweep", "sale", "sold",
         "finish"},
   leg : 0..SweepLeg, sigs : SUBSET Tx, partial : BOOLEAN]

Reply(kind, ids, partial) == [kind |-> kind, ids |-> ids, partial |-> partial]
NoReply == Reply("none", {}, FALSE)
ReplyType ==
  [kind : {"none", "submitted", "failed", "pending", "unavailable", "bad_request"},
   ids : SUBSET Tx, partial : BOOLEAN]

TypeOK ==
  /\ side \in [Keys -> Sides]
  /\ instance \in 1..MaxInstances
  /\ store \in [Keys -> SubmissionRecord]
  /\ builds \in [Keys -> 0..MaxBuilds]
  /\ chain \in [Keys -> [Tx -> TxState]]
  /\ queued \in [Keys -> 0..MaxQueue]
  /\ handler \in [Keys -> Handler]
  /\ reply \in [Keys -> ReplyType]

Init ==
  /\ side \in [Keys -> Sides]
  /\ instance = 1
  /\ store = [k \in Keys |-> AbsentRecord]
  /\ builds = [k \in Keys |-> 0]
  /\ chain = [k \in Keys |-> [t \in Tx |-> "none"]]
  /\ queued = [k \in Keys |-> 0]
  /\ handler = [k \in Keys |-> Idle]
  /\ reply = [k \in Keys |-> NoReply]

-----------------------------------------------------------------------------
(* Helpers of the handler.                                                 *)

IsExit(k) == side[k] = "exit"
IsSwap(k) == side[k] = "swap"
LegsOf(k) == IF IsSwap(k) THEN 1 ELSE Legs
MayHit(fault, k) == <<side[k], fault>> \in Faults
At(k, place) == handler[k].at = place
\* The transaction the handler is working on.
Current(k) == <<builds[k], handler[k].leg>>
Goto(k, place) == handler' = [handler EXCEPT ![k].at = place]
SetTx(k, t, state) == chain' = [chain EXCEPT ![k][t] = state]

\* Answer the request that holds the lock and let the next one in.  Earlier requests of the key
\* were given up by their client: only the last one's answer reaches anybody.
Answer(k, answer) ==
  /\ handler' = [handler EXCEPT ![k] = Idle]
  /\ queued' = [queued EXCEPT ![k] = @ - 1]
  /\ reply' = IF queued[k] = 1 THEN [reply EXCEPT ![k] = answer] ELSE reply

\* releaseIdempotencyReservation, then 200 {status: failed}.
ReleaseAndFail(k) ==
  /\ store' = [store EXCEPT ![k] = AbsentRecord]
  /\ Answer(k, Reply("failed", {}, FALSE))

-----------------------------------------------------------------------------
(* Requests and the idempotency record.                                    *)

\* A client posts the key's signed intent to /broadcast.
Request(k) ==
  /\ queued[k] < MaxQueue
  /\ queued' = [queued EXCEPT ![k] = @ + 1]
  /\ reply' = [reply EXCEPT ![k] = NoReply]
  /\ UNCHANGED <<side, instance, store, builds, chain, handler>>

Lockable(k) == At(k, "idle") /\ queued[k] > 0

\* Mutant: a finished key is reserved again.
ReserveAgain(k) ==
  /\ Lockable(k) /\ store[k].phase \in {"absent", "submitted"}
  /\ store' = [store EXCEPT ![k] = Reservation(instance)]
  /\ Goto(k, "build")
  /\ UNCHANGED <<side, instance, builds, chain, queued, reply>>

\* No record: reserve the key before anything is built.
ReserveNew(k) ==
  /\ Lockable(k) /\ store[k].phase = "absent"
  /\ store' = [store EXCEPT ![k] = Reservation(instance)]
  /\ Goto(k, "build")
  /\ UNCHANGED <<side, instance, builds, chain, queued, reply>>

\* Mutant: a request for a pending key starts a broadcast of its own.
TakeOverPending(k) ==
  /\ Lockable(k) /\ store[k].phase \in {"reserved", "broadcast_started"} /\ store[k].owner # instance
  /\ store' = [store EXCEPT ![k] =
       Record(@.phase, instance, @.evidence, @.result, @.partial)]
  /\ Goto(k, "build")
  /\ UNCHANGED <<side, instance, builds, chain, queued, reply>>

\* A reservation of a process that died before it sent anything is taken over.
TakeOver(k) ==
  /\ Lockable(k) /\ store[k].phase = "reserved" /\ store[k].owner # instance
  /\ store' = [store EXCEPT ![k] =
       Record(@.phase, instance, @.evidence, @.result, @.partial)]
  /\ Goto(k, "build")
  /\ UNCHANGED <<side, instance, builds, chain, queued, reply>>

\* A record that may have crossed the send boundary is never broadcast again: its signatures are
\* handed out for confirmation, or the caller is told that the key is pending.
AnswerPending(k) ==
  /\ Lockable(k)
  /\ \/ store[k].phase = "broadcast_started"
     \/ store[k].phase = "reserved" /\ store[k].owner = instance
  /\ Answer(k, IF store[k].evidence # {}
               THEN Reply("submitted", store[k].evidence, TRUE)
               ELSE Reply("pending", {}, FALSE))
  /\ UNCHANGED <<side, instance, store, builds, chain>>

\* The stored result is answered again.
AnswerReplay(k) ==
  /\ Lockable(k) /\ store[k].phase = "submitted"
  /\ Answer(k, Reply("submitted", store[k].result, store[k].partial))
  /\ UNCHANGED <<side, instance, store, builds, chain>>

-----------------------------------------------------------------------------
(* Building, sending and what the RPC client reports.                      *)

\* Quotes, balances, the Meteora SDK or the blockhash fail before anything is signed.
BuildFails(k) ==
  /\ At(k, "build")
  /\ ReleaseAndFail(k)
  /\ UNCHANGED <<side, instance, builds, chain>>

\* A batch (or a provider's swap) is built and its first transaction signed.
Build(k) ==
  /\ At(k, "build") /\ builds[k] < MaxBuilds
  /\ builds' = [builds EXCEPT ![k] = @ + 1]
  /\ handler' = [handler EXCEPT ![k] = Work("submit", 1, @.sigs, @.partial)]
  /\ UNCHANGED <<side, instance, store, chain, queued, reply>>

\* Mutant: the send boundary is recorded without the signature.
MarkStartedBare(k) ==
  /\ At(k, "submit")
  /\ store' = [store EXCEPT ![k].phase = "broadcast_started"]
  /\ Goto(k, "send")
  /\ UNCHANGED <<side, instance, builds, chain, queued, reply>>

\* markIdempotencyBroadcastStarted: the signature is durable before sendTransaction is called.
MarkStarted(k) ==
  /\ At(k, "submit")
  /\ store' = [store EXCEPT ![k] =
       Record("broadcast_started", @.owner, @.evidence \cup {Current(k)}, @.result, @.partial)]
  /\ Goto(k, "send")
  /\ UNCHANGED <<side, instance, builds, chain, queued, reply>>

Send(k) ==
  /\ At(k, "send")
  /\ SetTx(k, Current(k), "sent")
  /\ Goto(k, "rpc")
  /\ UNCHANGED <<side, instance, store, builds, queued, reply>>

\* Where the handler goes once the transaction `t` of the batch was accepted.
AfterAccept(k) ==
  IF handler[k].leg = SweepLeg THEN "sold"
  ELSE IF handler[k].leg < LegsOf(k) THEN "submit"
  ELSE IF IsExit(k) THEN "confirm" ELSE "finish"

\* sendTransaction returns a signature and it is recorded as accepted.
RpcAccepts(k) ==
  /\ At(k, "rpc") /\ chain[k][Current(k)] \in {"live", "landed"}
  /\ LET place == AfterAccept(k)
         leg == IF place = "submit" THEN handler[k].leg + 1 ELSE handler[k].leg
     IN handler' = [handler EXCEPT ![k] = Work(place, leg, @.sigs \cup {Current(k)}, @.partial)]
  /\ UNCHANGED <<side, instance, store, builds, chain, queued, reply>>

\* Mutant: a transaction still on its way counts as refused.
RefusedEarly(k) == chain[k][Current(k)] \in {"sent", "rejected", "failed"}

\* The handler learns that its transaction was refused (isDefiniteRpcSendRejection).
Refused(k) ==
  \/ chain[k][Current(k)] \in {"rejected", "failed"}
  \/ MayHit("failover", k) /\ chain[k][Current(k)] \in {"sent", "live", "landed"}

\* Mutant: a batch that stops early is stored as complete.
StopComplete(k) ==
  /\ handler' = [handler EXCEPT ![k].at = "finish"]
  /\ UNCHANGED <<store, queued, reply>>

\* A later transaction of a batch fails: the accepted ones are stored as a partial batch.
StopPartial(k) ==
  /\ handler' = [handler EXCEPT ![k] = Work("finish", @.leg, @.sigs, TRUE)]
  /\ UNCHANGED <<store, queued, reply>>

\* A transaction that already failed on the chain ends a chain of swap providers; a refusal
\* before that (a failed preflight) lets the next provider try.
NextProvider(k) == chain[k][Current(k)] # "failed"

\* A refusal of the first transaction ends the request as failed, unless an add-lp that missed its
\* bins is built again or another provider takes the swap.  A residual sale that no provider
\* makes is given up: the exit itself is complete.
RpcRefuses(k) ==
  /\ At(k, "rpc") /\ Refused(k)
  /\ IF handler[k].leg = SweepLeg
     THEN Goto(k, IF NextProvider(k) THEN "sale" ELSE "finish") /\ UNCHANGED <<store, queued, reply>>
     ELSE IF handler[k].sigs # {} THEN StopPartial(k)
     ELSE \/ ReleaseAndFail(k)
          \/ ~IsExit(k) /\ (IsSwap(k) => NextProvider(k)) /\ Goto(k, "build")
             /\ UNCHANGED <<store, queued, reply>>
  /\ UNCHANGED <<side, instance, builds, chain>>

\* sendTransaction times out.  The Meteora path keeps the record and answers 503.  The swap path
\* wraps the error in a SwapProviderChainError that no longer carries its kind, and its record is
\* released like that of a refusal.
RpcTimesOut(k) ==
  /\ At(k, "rpc") /\ MayHit("unknown", k)
  /\ IF handler[k].leg = SweepLeg THEN Goto(k, "finish") /\ UNCHANGED <<store, queued, reply>>
     ELSE IF handler[k].sigs # {} THEN StopPartial(k)
     ELSE IF IsSwap(k) THEN ReleaseAndFail(k)
     ELSE Answer(k, Reply("unavailable", {}, FALSE)) /\ UNCHANGED store
  /\ UNCHANGED <<side, instance, builds, chain>>

-----------------------------------------------------------------------------
(* Jupiter V2 sends the signed swap itself; nothing is written beforehand. *)

SwapOffered(k) == \/ At(k, "build") /\ IsSwap(k)
                  \/ At(k, "sale")
SwapLeg(k) == IF IsSwap(k) THEN 1 ELSE SweepLeg

SendExternal(k) ==
  /\ SwapOffered(k) /\ MayHit("external", k) /\ builds[k] < MaxBuilds
  /\ builds' = [builds EXCEPT ![k] = @ + 1]
  /\ SetTx(k, <<builds[k] + 1, SwapLeg(k)>>, "sent")
  /\ handler' = [handler EXCEPT ![k] = Work("external", SwapLeg(k), @.sigs, @.partial)]
  /\ UNCHANGED <<side, instance, store, queued, reply>>

ExternalAccepts(k) ==
  /\ At(k, "external") /\ chain[k][Current(k)] \in {"live", "landed"}
  /\ handler' = [handler EXCEPT ![k] =
       Work(AfterAccept(k), @.leg, @.sigs \cup {Current(k)}, @.partial)]
  /\ UNCHANGED <<side, instance, store, builds, chain, queued, reply>>

\* Any error of executeOrderV2, a lost answer included, lets the chain try its next provider.
ExternalFails(k) ==
  /\ At(k, "external")
  /\ Goto(k, IF IsSwap(k) THEN "build" ELSE "sale")
  /\ UNCHANGED <<side, instance, store, builds, chain, queued, reply>>

-----------------------------------------------------------------------------
(* Exits wait for confirmation and sell the residual token.                *)

Confirmed(k) ==
  /\ At(k, "confirm") /\ \A t \in handler[k].sigs : chain[k][t] = "landed"
  /\ Goto(k, "sweep")
  /\ UNCHANGED <<side, instance, store, builds, chain, queued, reply>>

NotConfirmed(k) ==
  /\ At(k, "confirm")
  /\ StopPartial(k)
  /\ UNCHANGED <<side, instance, builds, chain>>

\* The wallet holds a residual of the exited token: offer it to the swap providers.
ListSellable(k) ==
  /\ At(k, "sweep")
  /\ Goto(k, "sale")
  /\ UNCHANGED <<side, instance, store, builds, chain, queued, reply>>

SellResidual(k) ==
  /\ At(k, "sale") /\ builds[k] < MaxBuilds
  /\ builds' = [builds EXCEPT ![k] = @ + 1]
  /\ handler' = [handler EXCEPT ![k] = Work("submit", SweepLeg, @.sigs, @.partial)]
  /\ UNCHANGED <<side, instance, store, chain, queued, reply>>

\* Nothing (more) to sell: no residual, dust, no quote, no pre-exit balance, or sold.
SweepEnds(k) ==
  /\ handler[k].at \in {"sweep", "sale", "sold"}
  /\ Goto(k, "finish")
  /\ UNCHANGED <<side, instance, store, builds, chain, queued, reply>>

\* A status or balance read throws after transactions were accepted: the handler's catch rethrows
\* and the server answers 400.
ReadFails(k) ==
  /\ handler[k].at \in {"confirm", "sweep", "sold"} /\ MayHit("read", k)
  /\ Answer(k, Reply("bad_request", {}, FALSE))
  /\ UNCHANGED <<side, instance, store, builds, chain>>

\* Mutant: the batch status is stored as the phase of the record.
CompleteAsPartial(k) ==
  /\ At(k, "finish")
  /\ store' = [store EXCEPT ![k] =
       Record(IF handler[k].partial THEN "partial" ELSE "submitted", @.owner, @.evidence,
              handler[k].sigs, handler[k].partial)]
  /\ Answer(k, Reply("submitted", handler[k].sigs, handler[k].partial))
  /\ UNCHANGED <<side, instance, builds, chain>>

\* Mutant: the answer is written and the lock of the key is kept.
CompleteKeepsLock(k) ==
  /\ At(k, "finish")
  /\ store' = [store EXCEPT ![k] =
       Record("submitted", @.owner, @.evidence, handler[k].sigs, handler[k].partial)]
  /\ reply' = [reply EXCEPT ![k] = Reply("submitted", handler[k].sigs, handler[k].partial)]
  /\ UNCHANGED <<side, instance, builds, chain, queued, handler>>

\* completeIdempotencySubmission, then 200 {status: submitted}.
Complete(k) ==
  /\ At(k, "finish")
  /\ store' = [store EXCEPT ![k] =
       Record("submitted", @.owner, @.evidence, handler[k].sigs, handler[k].partial)]
  /\ Answer(k, Reply("submitted", handler[k].sigs, handler[k].partial))
  /\ UNCHANGED <<side, instance, builds, chain>>

-----------------------------------------------------------------------------
(* The process and the network.                                            *)

\* The sidecar dies and is started again: locks and requests are gone, the file stays.
Restart ==
  /\ instance < MaxInstances
  /\ instance' = instance + 1
  /\ handler' = [k \in Keys |-> Idle]
  /\ queued' = [k \in Keys |-> 0]
  /\ UNCHANGED <<side, store, builds, chain, reply>>

Becomes(from, to) ==
  /\ \E k \in Keys, t \in Tx : chain[k][t] = from /\ SetTx(k, t, to)
  /\ UNCHANGED <<side, instance, store, builds, queued, handler, reply>>

NetworkAccepts == Becomes("sent", "live")
NetworkRejects == Becomes("sent", "rejected")
Lands == Becomes("live", "landed")
FailsOnChain == Becomes("live", "failed")

Network == NetworkAccepts \/ NetworkRejects \/ Lands \/ FailsOnChain

\* The steps a request takes once it holds the key's lock.
Handle(k) ==
  \/ BuildFails(k) \/ Build(k) \/ MarkStarted(k) \/ Send(k)
  \/ RpcAccepts(k) \/ RpcRefuses(k) \/ RpcTimesOut(k)
  \/ SendExternal(k) \/ ExternalAccepts(k) \/ ExternalFails(k)
  \/ Confirmed(k) \/ NotConfirmed(k) \/ ListSellable(k) \/ SellResidual(k) \/ SweepEnds(k)
  \/ ReadFails(k)
  \/ Complete(k)

Serve(k) == ReserveNew(k) \/ TakeOver(k) \/ AnswerPending(k) \/ AnswerReplay(k) \/ Handle(k)

Next ==
  \/ \E k \in Keys : Request(k)
  \/ \E k \in Keys : Serve(k)
  \/ Restart
  \/ Network

\* The event loop of a running process serves what it accepted; the network decides.
Fairness == (\A k \in Keys : WF_vars(Serve(k))) /\ WF_vars(NetworkAccepts \/ NetworkRejects)

Spec == Init /\ [][Next]_vars /\ Fairness

-----------------------------------------------------------------------------
(* Properties.                                                             *)

\* Whatever may have an effect on the chain can be found again from the durable record: its
\* signature was written before sendTransaction was called and the record was not given up.
EvidenceCoversExposure ==
  \A k \in Keys : \A t \in Exposed(k) :
    store[k].phase \in {"broadcast_started", "submitted"} /\ t \in store[k].evidence

\* One signed intent is executed by one batch: however often it is requested, rebuilt or replayed
\* after a restart, the transactions of two builds never both get out, and neither do two sales
\* of one residual.
OneBuildPerIntent ==
  \A k \in Keys : \A t, u \in Exposed(k) :
    (t[2] = SweepLeg <=> u[2] = SweepLeg) => t[1] = u[1]

\* An answer "failed" lets the daemon free the capital and build a fresh order: nothing of the
\* failed one may be on its way.
FailedMeansNothingSent ==
  \A k \in Keys : reply[k].kind = "failed" => Exposed(k) = {}

\* A record that a process which died left as reserved proves that the send boundary was never
\* crossed, so that the next process may take it over and build a fresh transaction.
ReservedMeansNothingSent ==
  \A k \in Keys : store[k].phase = "reserved" /\ store[k].owner # instance => Exposed(k) = {}

\* A submitted answer that is not marked partial names a whole batch the network has accepted,
\* and for an exit a batch that has landed.
CompleteMeansWholeBatch ==
  \A k \in Keys : reply[k].kind = "submitted" /\ ~reply[k].partial =>
    \E b \in 1..MaxBuilds : \A leg \in 1..LegsOf(k) :
      /\ <<b, leg>> \in reply[k].ids
      /\ chain[k][<<b, leg>>] \in (IF IsExit(k) THEN {"landed"} ELSE {"live", "landed", "failed"})

\* Once a result is stored nothing more is sent for its key and the result never changes.
SubmittedIsFinal ==
  [][\A k \in Keys : store[k].phase = "submitted" =>
       /\ store'[k] = store[k]
       /\ \A t \in Tx : chain[k][t] = "none" => chain'[k][t] = "none"]_vars

\* Every request that gets a key's lock gives it back, so that the next one is served.
LockReleased == \A k \in Keys : ~At(k, "idle") ~> At(k, "idle")
=============================================================================
