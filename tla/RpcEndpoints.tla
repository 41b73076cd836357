---------------------------- MODULE RpcEndpoints ----------------------------
(***************************************************************************)
(* RpcEndpointRegistry.runWithEndpoint                                     *)
(* (src/src/execution/rpc-endpoint-registry.ts): concurrent calls, each    *)
(* with its own list of candidate endpoints, share the cooldown, the       *)
(* pacing and the concurrency of every endpoint.                           *)
(*                                                                         *)
(* A call passes over its candidates once, comparing them with the clock   *)
(* it read when the pass began: an attempt on one endpoint may take long,  *)
(* and the rest of the pass goes on with the old reading.  Times are kept  *)
(* relative to the present, in ticks.                                      *)
(***************************************************************************)
EXTENDS Integers, Sequences, FiniteSets, FiniteSetsExt

CONSTANTS
  Endpoints,
  Candidates,        \* the candidate list of each call
  MaxConcurrency,    \* maxConcurrency of an endpoint
  MinInterval,       \* minRequestIntervalMs
  RateCooldown,      \* rateLimitedCooldownMs
  TimeoutCooldown,   \* timeoutCooldownMs; serverErrorCooldownMs is shorter still
  MaxWait,           \* maxWaitMs
  Decay,             \* rateLimitFailureDecayMs
  MaxMultiplier,     \* MAX_RATE_LIMIT_COOLDOWN_MULTIPLIER
  MaxRun             \* how long an attempt may take: the client's timeout

EndpointsAssumption ==
  /\ {MaxConcurrency, MaxMultiplier, MaxRun} \subseteq Nat \ {0}
  /\ {MinInterval, RateCooldown, TimeoutCooldown, MaxWait, Decay} \subseteq Nat
  /\ IsFiniteSet(Endpoints) /\ \A c \in DOMAIN Candidates : Candidates[c] \in Seq(Endpoints)
  \* no list names an endpoint twice (uniqueUrls, rpc-endpoint-policy.ts:35)
  /\ \A c \in DOMAIN Candidates : \A i, j \in DOMAIN Candidates[c] :
       Candidates[c][i] = Candidates[c][j] => i = j

Calls == DOMAIN Candidates
\* A pass is never older than an attempt on each candidate.
MaxAge == MaxRun * Cardinality(Endpoints)
Never == MaxWait + 1 + MaxMultiplier * RateCooldown + TimeoutCooldown + MinInterval

VARIABLES
  endpoint,   \* the state of each endpoint
  call,       \* where each call is
  idleFor     \* history: ticks since the last start on each endpoint

vars == <<endpoint, call, idleFor>>

Idle == [at |-> "idle", on |-> 0, age |-> 0, earliest |-> Never, left |-> 0, timer |-> 0]

TypeOK ==
  /\ endpoint \in [Endpoints -> [cooldown : -MaxAge..Never, next : -MaxAge..MinInterval, inFlight : 0..MaxConcurrency,
                                 strikes : 0..MaxMultiplier, struck : -1..Decay + 1]]
  /\ \A c \in Calls : call[c].at \in {"idle", "running", "waiting"} /\ call[c].age \in 0..MaxAge
                      /\ call[c].earliest \in 0..Never /\ call[c].left \in 0..MaxWait

Init ==
  /\ endpoint = [e \in Endpoints |-> [cooldown |-> -MaxAge, next |-> -MaxAge, inFlight |-> 0,
                                      strikes |-> 0, struck |-> -1]]
  /\ call = [c \in Calls |-> Idle]
  /\ idleFor = [e \in Endpoints |-> MinInterval]

-----------------------------------------------------------------------------
(* One pass over the candidates, from one of them on.                      *)

FromNow(t) == Max({0, t})

\* An endpoint can be used if it is neither cooling nor paced, by the clock of the pass, nor full.
Usable(s, age) == s.cooldown + age <= 0 /\ s.next + age <= 0 /\ s.inFlight < MaxConcurrency

ReadyIn(s, age) ==
  IF s.cooldown + age > 0 THEN FromNow(s.cooldown)
  ELSE IF s.next + age > 0 THEN FromNow(s.next)
  ELSE FromNow(1 - age)

\* Mutant: the pacing of a start is forgotten.
StartedUnpaced(s) == [s EXCEPT !.inFlight = @ + 1]

Started(s) == [s EXCEPT !.next = Max({@, MinInterval}), !.inFlight = @ + 1]

\* Mutant: a call whose deadline has passed waits on.
WaitOnly(c, until) == [c EXCEPT !.at = "waiting", !.timer = Max({1, until})]

\* The end of a pass that found nothing: sleep until the first endpoint may be ready or the
\* deadline comes, or give up if that is now.
WaitOrGiveUp(c, until) == IF until <= 0 THEN Idle ELSE [c EXCEPT !.at = "waiting", !.timer = until]

\* The pass of call c goes on at candidate `from`, with the endpoints as in es.
Pass(c, es, from, age, earliest, left) ==
  LET list == Candidates[c]
      usable == {i \in from..Len(list) : Usable(es[list[i]], age)}
      stop == Min(usable \cup {Len(list) + 1})
      seen == Min({earliest} \cup {ReadyIn(es[list[i]], age) : i \in from..stop - 1})
      now == [Idle EXCEPT !.age = age, !.earliest = seen, !.left = left]
  IN IF usable # {}
     THEN /\ endpoint' = [es EXCEPT ![list[stop]] = Started(@)]
          /\ call' = [call EXCEPT ![c] = [now EXCEPT !.at = "running", !.on = stop]]
          /\ idleFor' = [idleFor EXCEPT ![list[stop]] = 0]
     ELSE /\ endpoint' = es
          /\ call' = [call EXCEPT ![c] = WaitOrGiveUp(now, Min({seen, left}))]
          /\ UNCHANGED idleFor

Begin(c) == call[c].at = "idle" /\ Pass(c, endpoint, 1, 0, Never, MaxWait)
Wake(c) == call[c].at = "waiting" /\ call[c].timer = 0 /\ Pass(c, endpoint, 1, 0, Never, call[c].left)

-----------------------------------------------------------------------------
(* The end of an attempt.                                                  *)

Ended(s) == [s EXCEPT !.inFlight = @ - 1]
Succeeded(s) ==
  LET decayed == s.struck > Decay
  IN [Ended(s) EXCEPT !.cooldown = -MaxAge, !.strikes = IF decayed THEN 0 ELSE @,
                      !.struck = IF decayed THEN -1 ELSE @]
TimedOut(s) == [Ended(s) EXCEPT !.cooldown = Max({@, TimeoutCooldown})]
\* The cooldown grows with the strikes, up to a multiple (strikes beyond it are not told apart).
RateLimited(s) ==
  LET strikes == Min({MaxMultiplier, 1 + (IF s.struck > Decay THEN 0 ELSE s.strikes)})
  IN [Ended(s) EXCEPT !.strikes = strikes, !.struck = 0, !.cooldown = Max({@, strikes * RateCooldown})]

OnOf(c) == Candidates[c][call[c].on]

\* The result, or an error that is not retried, ends the call.
Return(c) ==
  /\ call[c].at = "running"
  /\ \E after \in {Ended(endpoint[OnOf(c)]), Succeeded(endpoint[OnOf(c)])} :
       endpoint' = [endpoint EXCEPT ![OnOf(c)] = after]
  /\ call' = [call EXCEPT ![c] = Idle]
  /\ UNCHANGED idleFor

\* A retryable error puts the endpoint on cooldown, and the same pass tries the next candidate.
Fail(c) ==
  /\ call[c].at = "running"
  /\ \E after \in {TimedOut(endpoint[OnOf(c)]), RateLimited(endpoint[OnOf(c)])} :
       Pass(c, [endpoint EXCEPT ![OnOf(c)] = after], call[c].on + 1,
            call[c].age, call[c].earliest, call[c].left)

Less(t, floor) == Max({floor, t - 1})

\* Time passes; no attempt outlives its timeout.
Tick ==
  /\ \A c \in Calls : call[c].at = "running" => call[c].timer < MaxRun
  /\ endpoint' = [e \in Endpoints |->
       [endpoint[e] EXCEPT !.cooldown = Less(@, -MaxAge), !.next = Less(@, -MaxAge),
                           !.struck = IF @ = -1 THEN -1 ELSE Min({@ + 1, Decay + 1})]]
  /\ call' = [c \in Calls |->
       CASE call[c].at = "idle" -> call[c]
         [] call[c].at = "running" ->
              [call[c] EXCEPT !.age = @ + 1, !.timer = @ + 1, !.left = Less(@, 0),
                              !.earliest = IF @ = Never THEN Never ELSE Less(@, 0)]
         [] call[c].at = "waiting" -> [call[c] EXCEPT !.timer = Less(@, 0), !.left = Less(@, 0)]]
  /\ idleFor' = [e \in Endpoints |-> Min({idleFor[e] + 1, MinInterval})]

Step(c) == Wake(c) \/ Return(c) \/ Fail(c)
Next == Tick \/ \E c \in Calls : Begin(c) \/ Step(c)

Spec == Init /\ [][Next]_vars

\* Time passes, timers fire, and an attempt ends.
Fairness == WF_vars(Tick) /\ \A c \in Calls : WF_vars(Step(c))
FairSpec == Spec /\ Fairness

-----------------------------------------------------------------------------
(* Properties.                                                             *)

\* Two calls never start on one endpoint closer together than the interval, whoever they are.
StartsArePaced ==
  [][\A e \in Endpoints : endpoint'[e].inFlight > endpoint[e].inFlight => idleFor[e] >= MinInterval]_vars

\* No call goes round its candidates for ever: it returns, fails or gives up.
CallsEnd == \A c \in Calls : []<>(call[c].at = "idle")
=============================================================================
