------------------------------ MODULE SwapChain ------------------------------
(* execution/solana/swap-providers.ts: the chain of swap providers that the
   sidecar asks for a quote or a swap, one provider after the other, and what
   all its calls share: the cooldown of a provider, the routes a provider does
   not have, and the routes JupiterClient knows to be missing.

   Calls run concurrently (an order, the valuation of a residual, the account
   snapshots) and interleave at every await.  SolanaExecution has the handler
   around a swap and what it stores; here is which provider takes it.

   Faults names what a configuration lets happen:
     external  Jupiter V2 executes a swap and its answer is lost
     failover  a write endpoint takes a transaction and times out, and the
               next one refuses the copy in its preflight                  *)
EXTENDS Naturals, FiniteSets, SequencesExt

CONSTANTS
  Order,        \* the configured provider names; empty for the default
  Enabled,      \* the providers with a client or with credentials
  Calls,        \* concurrent calls of the chain
  Requests,     \* what they may ask for
  CooldownMs, NoRouteTtlMs, NegativeTtlMs,   \* in ticks
  MaxFailures,  \* bounds the failures the outside world may cause
  Faults

Providers == {"meteora-dlmm-direct", "jupiter-v2", "raydium", "okx", "jupiter-v1"}
Jupiter == {"jupiter-v1", "jupiter-v2"}
Pairs == {"sell", "buy"}

\* limited: maxImpactBps is given.  small: below Jupiter's minimal amount.
AllRequests ==
  [kind : {"quote", "execute"}, pair : Pairs, pool : BOOLEAN, small : BOOLEAN,
   limited : BOOLEAN, skipMeteora : BOOLEAN]

SwapAssumption ==
  /\ Order \in Seq(STRING)
  /\ Enabled \subseteq Providers /\ Requests \subseteq AllRequests
  /\ CooldownMs \in Nat /\ NoRouteTtlMs \in Nat /\ NegativeTtlMs \in Nat
  /\ MaxFailures \in Nat /\ Faults \subseteq {"external", "failover"}

VARIABLES
  providers,  \* the chain: fixed when it is constructed
  call,       \* call -> where it is, its request, its place in the chain, its answer
  tx,         \* call -> provider -> its transaction: refused if it never takes effect
  cooldown,   \* provider -> ticks until it is asked again
  noRoute,    \* provider and pair -> ticks until it is asked for that pair again
  negative,   \* JupiterClient.negativeRouteCache: pair -> ticks
  failures

vars == <<providers, call, tx, cooldown, noRoute, negative, failures>>

None == "none"
Idle == [at |-> "idle", req |-> None, index |-> 1, answer |-> None, by |-> None]
NothingSent == [p \in Providers |-> "none"]

SwapTypeOK ==
  /\ providers \in Seq(Providers)
  /\ call \in [Calls ->
       [at : {"next", "asked", "built", "sending", "answered"}, req : Requests,
        index : Nat \ {0}, answer : {None, "ok", "exhausted", "stopped"},
        by : Providers \cup {None}] \cup {Idle}]
  /\ \A c \in Calls : call[c].answer = "ok" <=> call[c].by # None
  /\ tx \in [Calls -> [Providers -> {"none", "sent", "refused", "live"}]]
  /\ cooldown \in [Providers -> 0..CooldownMs]
  /\ noRoute \in [Providers \X Pairs -> 0..NoRouteTtlMs]
  /\ negative \in [Pairs -> 0..NegativeTtlMs]
  /\ failures \in 0..MaxFailures

DEFAULT_PROVIDER_ORDER == <<"meteora-direct", "jupiter-v2", "raydium", "okx", "jupiter-v1">>
providerOrderKey(name) ==
  CASE name = "meteora-direct" -> "meteora-dlmm-direct"
    [] name \in Providers -> name
    [] OTHER -> None
\* Unknown names and second mentions are dropped.
Chain ==
  FoldLeft(LAMBDA chain, name :
             LET p == providerOrderKey(name)
             IN IF p = None \/ Contains(chain, p) THEN chain ELSE Append(chain, p),
           <<>>, IF Order = <<>> THEN DEFAULT_PROVIDER_ORDER ELSE Order)

Init ==
  /\ providers = Chain
  /\ call = [c \in Calls |-> Idle]
  /\ tx = [c \in Calls |-> NothingSent]
  /\ cooldown = [p \in Providers |-> 0]
  /\ noRoute = [r \in Providers \X Pairs |-> 0]
  /\ negative = [pair \in Pairs |-> 0]
  /\ failures = 0

---------------------------------------------------------------------------
\* The chain

At(c, stage) == call[c].at = stage
Request(c) == call[c].req
Current(c) == providers[call[c].index]
InChain(c) == call[c].index <= Len(providers)
Goto(c, stage) == call' = [call EXCEPT ![c].at = stage]
Answer(c, answer, by) ==
  call' = [call EXCEPT ![c].at = "answered", ![c].answer = answer, ![c].by = by]
NextProvider(c) == call' = [call EXCEPT ![c].at = "next", ![c].index = @ + 1]

readSkipReason(p, req) ==
  \/ p \notin Enabled
  \/ req.skipMeteora /\ p = "meteora-dlmm-direct"
  \/ cooldown[p] > 0
  \/ noRoute[p, req.pair] > 0

\* What a failure looks like.  A number such as 429 or 512 anywhere in its text
\* is read as an HTTP status, so any failure with a text from outside may look
\* like these two.
LikeStatus == {"limited", "timeout"}
Failures == {"mismatch", "simulation", "no_route", "other"} \cup LikeStatus

classifyFailure(p, failure) ==
  [cooldown |-> failure \in LikeStatus
                  \/ (failure = "simulation" /\ p = "meteora-dlmm-direct"),
   noRoute  |-> failure = "no_route"]

recordFailure(c, failure) ==
  LET p == Current(c)  class == classifyFailure(p, failure)
  IN /\ cooldown' = IF class.cooldown THEN [cooldown EXCEPT ![p] = CooldownMs] ELSE cooldown
     /\ noRoute' = IF class.noRoute
                   THEN [noRoute EXCEPT ![<<p, Request(c).pair>>] = NoRouteTtlMs] ELSE noRoute

\* The world may fail so often; what the program refuses by itself is not counted.
Hits == failures < MaxFailures /\ failures' = failures + 1

---------------------------------------------------------------------------
\* quoteExactIn and executeExactIn of the chain

Begin(c) ==
  /\ At(c, "idle")
  /\ \E req \in Requests : call' = [call EXCEPT ![c] = [Idle EXCEPT !.at = "next", !.req = req]]
  /\ tx' = [tx EXCEPT ![c] = NothingSent]
  /\ UNCHANGED <<providers, cooldown, noRoute, negative, failures>>

Skip(c) ==
  /\ At(c, "next") /\ InChain(c) /\ readSkipReason(Current(c), Request(c))
  /\ NextProvider(c)
  /\ UNCHANGED <<providers, tx, cooldown, noRoute, negative, failures>>

\* SwapProviderChainError
Exhausted(c) ==
  /\ At(c, "next") /\ ~InChain(c)
  /\ Answer(c, "exhausted", None)
  /\ UNCHANGED <<providers, tx, cooldown, noRoute, negative, failures>>

\* buildDirectSwap: only a token for SOL, and only with its pool.
Mismatch(p, req) == p = "meteora-dlmm-direct" /\ (req.pair = "buy" \/ ~req.pool)

\* JupiterClient refuses a small amount and a route it knows to be missing, the
\* chain takes either for a missing route of the pair, whatever the amount.
assertQuoteAmountAllowed(p, req) == p \in Jupiter => ~req.small
readNegativeRouteCache(p, req) == p \in Jupiter /\ negative[req.pair] > 0
NoRoute(p, req) == ~assertQuoteAmountAllowed(p, req) \/ readNegativeRouteCache(p, req)

Refuse(c) ==
  /\ At(c, "next") /\ InChain(c) /\ ~readSkipReason(Current(c), Request(c))
  /\ \/ Mismatch(Current(c), Request(c)) /\ recordFailure(c, "mismatch")
     \/ NoRoute(Current(c), Request(c)) /\ recordFailure(c, "no_route")
  /\ NextProvider(c)
  /\ UNCHANGED <<providers, tx, negative, failures>>

Ask(c) ==
  /\ At(c, "next") /\ InChain(c) /\ ~readSkipReason(Current(c), Request(c))
  /\ ~Mismatch(Current(c), Request(c)) /\ ~NoRoute(Current(c), Request(c))
  /\ Goto(c, "asked")
  /\ UNCHANGED <<providers, tx, cooldown, noRoute, negative, failures>>

---------------------------------------------------------------------------
\* What a provider does with a call that waits for it

Waits(c, p, stage) == At(c, stage) /\ InChain(c) /\ Current(c) = p

FailsWith(c, failure) ==
  /\ Hits /\ recordFailure(c, failure) /\ NextProvider(c)
  /\ UNCHANGED <<providers, tx>>

\* A quote ends the call; for a swap it must keep the signed impact, which a
\* quote without an impact does not.  A plain quote is not checked.
assertQuoteWithinExecutionLimits(c, impact) == Request(c).limited => impact = "low"
Quotes(c) ==
  \/ /\ Request(c).kind = "quote" /\ Answer(c, "ok", Current(c))
     /\ UNCHANGED <<providers, tx, cooldown, noRoute, failures>>
  \/ /\ Request(c).kind = "execute"
     /\ \E impact \in {"low", "high", "missing"} :
          \/ /\ assertQuoteWithinExecutionLimits(c, impact) /\ Goto(c, "built")
             /\ UNCHANGED <<providers, tx, cooldown, noRoute, failures>>
          \/ /\ ~assertQuoteWithinExecutionLimits(c, impact)
             /\ \E failure \in {"other"} \cup (IF impact = "high" THEN LikeStatus ELSE {}) :
                  FailsWith(c, failure)

\* swapTokenToSol builds the transaction and simulates it, then a blockhash is read.
MeteoraDirect(c) ==
  /\ \/ /\ Waits(c, "meteora-dlmm-direct", "asked")
        /\ Quotes(c) \/ \E failure \in Failures : FailsWith(c, failure)
     \/ /\ Waits(c, "meteora-dlmm-direct", "built")
        /\ \E failure \in LikeStatus \cup {"other"} : FailsWith(c, failure)
  /\ UNCHANGED negative

\* getQuote and getOrderV2: a missing route is remembered for both.
JupiterAnswers(c) ==
  \/ Quotes(c) /\ UNCHANGED negative
  \/ FailsWith(c, "no_route") /\ negative' = [negative EXCEPT ![Request(c).pair] = NegativeTtlMs]
  \/ \E failure \in LikeStatus \cup {"other"} : FailsWith(c, failure) /\ UNCHANGED negative

\* getOrderV2; an order without a transaction or an identity is refused.
JupiterV2(c) ==
  \/ Waits(c, "jupiter-v2", "asked") /\ JupiterAnswers(c)
  \/ Waits(c, "jupiter-v2", "built") /\ FailsWith(c, "other") /\ UNCHANGED negative

\* getQuote, then getSwapTransaction, whose missing route is not remembered.
JupiterV1(c) ==
  \/ Waits(c, "jupiter-v1", "asked") /\ JupiterAnswers(c)
  \/ /\ Waits(c, "jupiter-v1", "built") /\ UNCHANGED negative
     /\ \E failure \in Failures \ {"mismatch", "simulation"} : FailsWith(c, failure)

\* fetchQuote, then fetchTransactions: none or more than one is refused.
Raydium(c) ==
  /\ \/ Waits(c, "raydium", "asked") /\ Quotes(c)
     \/ /\ Waits(c, "raydium", "asked") \/ Waits(c, "raydium", "built")
        /\ \E failure \in Failures \ {"mismatch", "simulation"} : FailsWith(c, failure)
  /\ UNCHANGED negative

\* fetchOkxData, for a swap with the instructions, then lookup tables and a blockhash.
Okx(c) ==
  /\ \/ Waits(c, "okx", "asked") /\ Quotes(c)
     \/ /\ Waits(c, "okx", "asked") \/ Waits(c, "okx", "built")
        /\ \E failure \in Failures \ {"mismatch", "simulation"} : FailsWith(c, failure)
  /\ UNCHANGED negative

---------------------------------------------------------------------------
\* The transaction

\* sendRawTransaction, or executeOrderV2 with which Jupiter sends it itself.
Send(c) ==
  /\ At(c, "built") /\ Goto(c, "sending")
  /\ tx' = [tx EXCEPT ![c][Current(c)] = "sent"]
  /\ UNCHANGED <<providers, cooldown, noRoute, negative, failures>>

Becomes(c, fates) == \E fate \in fates : tx' = [tx EXCEPT ![c][Current(c)] = fate]
Unless(fault) == IF fault \in Faults THEN {"refused", "live"} ELSE {"refused"}

Accepted(c) ==
  /\ At(c, "sending") /\ Becomes(c, {"live"})
  /\ Answer(c, "ok", Current(c))
  /\ UNCHANGED <<providers, cooldown, noRoute, negative, failures>>

\* isPreBroadcastSubmissionFailure: nothing was sent, the next provider may try.
PreflightRefuses(c) ==
  /\ At(c, "sending") /\ Current(c) # "jupiter-v2" /\ Hits
  /\ Becomes(c, Unless("failover"))
  /\ \E failure \in {"simulation"} \cup LikeStatus : recordFailure(c, failure)
  /\ NextProvider(c)
  /\ UNCHANGED <<providers, negative>>

\* Mutant: the error of a submission is treated like any other of a provider.
SendFailsOver(c) ==
  /\ At(c, "sending") /\ Current(c) # "jupiter-v2" /\ Hits
  /\ Becomes(c, {"refused", "live"})
  /\ \E failure \in {"simulation", "other"} \cup LikeStatus : recordFailure(c, failure)
  /\ NextProvider(c)
  /\ UNCHANGED <<providers, negative>>

\* submitSignedTransaction: any other error of the send is terminal, the
\* transaction may be on its way.
SendFails(c) ==
  /\ At(c, "sending") /\ Current(c) # "jupiter-v2" /\ Hits
  /\ Becomes(c, {"refused", "live"})
  /\ \E failure \in {"simulation", "other"} \cup LikeStatus : recordFailure(c, failure)
  /\ Answer(c, "stopped", None)
  /\ UNCHANGED <<providers, negative>>

\* No error of executeOrderV2 is a submission error.
ExternalFails(c) ==
  /\ At(c, "sending") /\ Current(c) = "jupiter-v2" /\ Hits
  /\ Becomes(c, Unless("external"))
  /\ \E failure \in Failures \ {"mismatch", "simulation"} : recordFailure(c, failure)
  /\ NextProvider(c)
  /\ UNCHANGED <<providers, negative>>

---------------------------------------------------------------------------
\* The caller takes the answer; a later call may take its place.
Return(c) ==
  /\ At(c, "answered")
  /\ call' = [call EXCEPT ![c] = Idle] /\ tx' = [tx EXCEPT ![c] = NothingSent]
  /\ UNCHANGED <<providers, cooldown, noRoute, negative, failures>>

Less(n) == IF n = 0 THEN 0 ELSE n - 1
Tick ==
  /\ cooldown' = [p \in Providers |-> Less(cooldown[p])]
  /\ noRoute' = [r \in Providers \X Pairs |-> Less(noRoute[r])]
  /\ negative' = [pair \in Pairs |-> Less(negative[pair])]
  /\ UNCHANGED <<providers, call, tx, failures>>

Next ==
  \/ \E c \in Calls :
       \/ Begin(c) \/ Skip(c) \/ Exhausted(c) \/ Refuse(c) \/ Ask(c)
       \/ MeteoraDirect(c) \/ JupiterV2(c) \/ JupiterV1(c) \/ Raydium(c) \/ Okx(c)
       \/ Send(c) \/ Accepted(c) \/ PreflightRefuses(c) \/ SendFails(c) \/ ExternalFails(c)
       \/ Return(c)
  \/ Tick

Spec == Init /\ [][Next]_vars

---------------------------------------------------------------------------
MayTakeEffect(c) == {p \in Providers : tx[c][p] \in {"sent", "live"}}

\* At most one provider's transaction of a call may ever take effect, its name
\* is in the answer, and a call that says every provider refused has swapped
\* nothing (swap-providers.ts:452, 546).
SwapsOnce ==
  \A c \in Calls :
    /\ Cardinality(MayTakeEffect(c)) <= 1
    /\ call[c].answer = "ok" /\ Request(c).kind = "execute" =>
         MayTakeEffect(c) = {call[c].by}
    /\ call[c].answer = "exhausted" => MayTakeEffect(c) = {}
=============================================================================
