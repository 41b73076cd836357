------------------------- MODULE ComponentTypes_proofs -------------------------
(***************************************************************************)
(* Every component of MCComponents keeps the types of its state, whatever  *)
(* the values of the constants.                                            *)
(*                                                                         *)
(* Most bounds follow from the component's own invariant.  RpcEndpoints    *)
(* has two of its own: a pass of a call asks an endpoint at most once, so  *)
(* that its age is bounded, and inFlight counts the calls under way, so    *)
(* that it is neither negative nor above the limit.                        *)
(***************************************************************************)
EXTENDS Components_proofs, Records_proofs

-----------------------------------------------------------------------------
(* RpcEndpoints.                                                           *)

LEMMA ListsAreShort ==
  ASSUME NEW c \in Rpc!Calls
  PROVE /\ Candidates[c] \in Seq(Endpoints) /\ Len(Candidates[c]) \in Nat
        /\ Len(Candidates[c]) * MaxRun <= Rpc!MaxAge
<1> DEFINE list == Candidates[c]
           len == Len(list)
           n == Rpc!Cardinality(Endpoints)
<1>1. /\ IsFiniteSet(Endpoints) /\ list \in Seq(Endpoints)
      /\ \A i, j \in DOMAIN list : list[i] = list[j] => i = j
  BY Assumptions DEF Rpc!EndpointsAssumption, Rpc!IsFiniteSet, IsFiniteSet, Rpc!Calls
<1>2. n = Cardinality(Endpoints) BY DEF Rpc!Cardinality, Cardinality
<1>3. n \in Nat BY <1>1, <1>2, FS_CardinalityType
<1>4. list \in [1..len -> Endpoints] /\ len \in Nat /\ DOMAIN list = 1..len BY <1>1
<1>5. IsFiniteSet(1..len) /\ Cardinality(1..len) = len
  <2>1. 1 \in Int /\ len \in Int BY <1>4
  <2>2. IsFiniteSet(1..len) /\ Cardinality(1..len) = IF 1 > len THEN 0 ELSE len - 1 + 1 BY <2>1, FS_Interval
  <2> QED BY <1>4, <2>2
<1>6. len <= n
  <2> SUFFICES ASSUME n < len PROVE FALSE BY <1>3, <1>4
  <2>1. PICK x, y \in 1..len : x # y /\ list[x] = list[y]
    <3> HIDE DEF list, len, n
    <3> QED BY <1>1, <1>2, <1>4, <1>5, FS_PigeonHole
  <2> QED BY <1>1, <1>4, <2>1
<1>7. MaxRun \in Nat BY RpcConstants
<1>8. len * MaxRun <= MaxRun * n
  <2> HIDE DEF len, n
  <2> DEFINE d == n - len
  <2>1. d \in Nat /\ n = len + d BY <1>3, <1>4, <1>6
  <2> HIDE DEF d
  <2>2. d * MaxRun \in Nat BY <1>7, <2>1
  <2>3. MaxRun * n = len * MaxRun + d * MaxRun BY <1>7, <2>1, <1>4
  <2>4. len * MaxRun \in Nat BY <1>4, <1>7
  <2> QED BY <2>2, <2>3, <2>4
<1> QED BY <1>1, <1>4, <1>8 DEF Rpc!MaxAge

\* An endpoint's times and strikes are within their bounds.
Fits(s) ==
  /\ s.cooldown \in -Rpc!MaxAge..Rpc!Never /\ s.next \in -Rpc!MaxAge..MinInterval
  /\ s.strikes \in 0..MaxMultiplier /\ s.struck \in -1..Decay + 1

\* The calls that run on an endpoint.
RunsOn(d, c, e) == d.at = "running" /\ Candidates[c][d.on] = e
Running(e) == {c \in Rpc!Calls : RunsOn(e_call[c], c, e)}

\* A pass is as old as the attempts before the present one and this one together.
CallFits(c, d) ==
  /\ d.age \in 0..Rpc!MaxAge /\ d.earliest \in 0..Rpc!Never /\ d.left \in 0..MaxWait
  /\ d.at = "running" => d.timer <= MaxRun /\ d.age <= (d.on - 1) * MaxRun + d.timer

RpcFits ==
  /\ RpcInv
  /\ \A e \in Endpoints : Fits(e_endpoint[e]) /\ e_endpoint[e].inFlight <= MaxConcurrency
  /\ \A c \in Rpc!Calls : CallFits(c, e_call[c])
  /\ \A e \in Endpoints : IsFiniteSet(Running(e)) /\ Cardinality(Running(e)) = e_endpoint[e].inFlight

LEMMA MultipleFits ==
  ASSUME NEW n \in 0..MaxMultiplier PROVE n * RateCooldown \in 0..Rpc!Never
<1>1. /\ MinInterval \in Nat /\ RateCooldown \in Nat /\ TimeoutCooldown \in Nat
      /\ MaxWait \in Nat /\ MaxMultiplier \in Nat
  BY RpcConstants
<1>2. PICK d \in Nat : MaxMultiplier = n + d BY <1>1
<1>3. n * RateCooldown \in Nat /\ d * RateCooldown \in Nat BY <1>1, <1>2
<1>4. MaxMultiplier * RateCooldown = n * RateCooldown + d * RateCooldown BY <1>1, <1>2
<1> DEFINE a == n * RateCooldown
           b == d * RateCooldown
           top == MaxMultiplier * RateCooldown
<1>5. a \in Nat /\ b \in Nat /\ top = a + b BY <1>3, <1>4
<1>6. Rpc!Never = MaxWait + 1 + top + TimeoutCooldown + MinInterval BY DEF Rpc!Never
<1> HIDE DEF a, b, top
<1>7. a \in 0..Rpc!Never BY <1>1, <1>5, <1>6
<1> QED BY <1>7 DEF a

LEMMA NeverIsLate == TimeoutCooldown \in 0..Rpc!Never /\ MaxWait < Rpc!Never /\ 1 \in 0..MaxMultiplier
<1>1. 1 \in 0..MaxMultiplier
  <2>1. MaxMultiplier \in Nat \ {0} BY Assumptions DEF Rpc!EndpointsAssumption
  <2> QED BY <2>1
<1>2. /\ MinInterval \in Nat /\ RateCooldown \in Nat /\ TimeoutCooldown \in Nat
      /\ MaxWait \in Nat /\ MaxMultiplier \in Nat
  BY RpcConstants
<1> DEFINE top == MaxMultiplier * RateCooldown
<1>3. top \in Nat BY <1>2
<1>4. Rpc!Never = MaxWait + 1 + top + TimeoutCooldown + MinInterval BY DEF Rpc!Never
<1> HIDE DEF top
<1> QED BY <1>1, <1>2, <1>3, <1>4

\* What an attempt that ended makes of the times and strikes of its endpoint.
LEMMA AttemptFits ==
  ASSUME NEW s \in EndpointStates, Fits(s),
         NEW after \in {Rpc!Ended(s), Rpc!Succeeded(s), Rpc!TimedOut(s), Rpc!RateLimited(s)}
  PROVE Fits(after)
<1> DEFINE t == Rpc!Ended(s)
<1>1. /\ t \in EndpointStates /\ t.cooldown = s.cooldown /\ t.next = s.next
      /\ t.strikes = s.strikes /\ t.struck = s.struck
  BY DEF EndpointStates, Rpc!Ended
<1>2. Rpc!MaxAge \in Nat /\ Rpc!Never \in Nat /\ Decay \in Nat /\ MaxMultiplier \in Nat
      /\ MinInterval \in Nat /\ TimeoutCooldown \in Nat
  BY RpcConstants
<1> HIDE DEF t
<1>3. CASE after = Rpc!Ended(s) BY <1>1, <1>3 DEF Fits, t
<1>4. CASE after = Rpc!Succeeded(s)
  <2> DEFINE decayed == s.struck > Decay
             strikes == IF decayed THEN 0 ELSE t.strikes
             struck == IF decayed THEN -1 ELSE t.struck
             cool == -Rpc!MaxAge
  <2>1. strikes \in 0..MaxMultiplier /\ struck \in -1..Decay + 1 /\ cool \in -Rpc!MaxAge..Rpc!Never
    BY <1>1, <1>2 DEF Fits
  <2>2. after = [t EXCEPT !.cooldown = cool, !.strikes = strikes, !.struck = struck]
    BY <1>1, <1>4 DEF Rpc!Succeeded, t
  <2> HIDE DEF strikes, struck, cool
  <2>3. after.cooldown = cool /\ after.strikes = strikes /\ after.struck = struck /\ after.next = t.next
    BY <1>1, <2>2 DEF EndpointStates
  <2> QED BY <1>1, <2>1, <2>3 DEF Fits
<1>5. CASE after = Rpc!TimedOut(s)
  <2> DEFINE was == t.cooldown
             cool == Rpc!Max({was, TimeoutCooldown})
  <2>1. was \in -Rpc!MaxAge..Rpc!Never BY <1>1 DEF Fits
  <2>2. after = [t EXCEPT !.cooldown = cool] BY <1>1, <1>5 DEF Rpc!TimedOut, t, EndpointStates
  <2> HIDE DEF was
  <2>3. cool = IF was >= TimeoutCooldown THEN was ELSE TimeoutCooldown BY <1>2, <2>1, GreaterOfTwo
  <2>4. cool \in -Rpc!MaxAge..Rpc!Never BY <1>2, <2>1, <2>3, NeverIsLate
  <2> HIDE DEF cool
  <2>5. after.cooldown = cool /\ after.strikes = t.strikes /\ after.struck = t.struck /\ after.next = t.next
    BY <1>1, <2>2 DEF EndpointStates
  <2> QED BY <1>1, <2>4, <2>5 DEF Fits
<1>6. CASE after = Rpc!RateLimited(s)
  <2> DEFINE more == 1 + (IF s.struck > Decay THEN 0 ELSE s.strikes)
             strikes == Rpc!Min({MaxMultiplier, more})
             term == strikes * RateCooldown
             was == t.cooldown
             cool == Rpc!Max({was, term})
  <2>1. more \in 1..MaxMultiplier + 1 BY <1>2 DEF Fits
  <2>2. strikes \in 0..MaxMultiplier
    <3>1. \E x \in {MaxMultiplier, more} : \A y \in {MaxMultiplier, more} : x <= y
      BY <1>2, <2>1
    <3>2. strikes \in {MaxMultiplier, more} /\ \A y \in {MaxMultiplier, more} : strikes <= y
      BY <3>1, Zenon DEF Rpc!Min
    <3> HIDE DEF strikes, more
    <3> QED BY <1>2, <2>1, <3>2
  <2> HIDE DEF more
  <2>3. term \in 0..Rpc!Never
    <3> HIDE DEF strikes
    <3> QED BY <2>2, MultipleFits
  <2>4. was \in -Rpc!MaxAge..Rpc!Never BY <1>1 DEF Fits
  <2> HIDE DEF term, was
  <2>5. cool = IF was >= term THEN was ELSE term BY <1>2, <2>3, <2>4, GreaterOfTwo
  <2>6. cool \in -Rpc!MaxAge..Rpc!Never BY <1>2, <2>3, <2>4, <2>5
  <2>7. after = [t EXCEPT !.strikes = strikes, !.struck = 0, !.cooldown = cool]
    BY <1>1, <1>6 DEF Rpc!RateLimited, t, strikes, more, term, was, cool, EndpointStates
  <2> HIDE DEF strikes, cool
  <2>8. after.cooldown = cool /\ after.strikes = strikes /\ after.struck = 0 /\ after.next = t.next
    BY <1>1, <2>7 DEF EndpointStates
  <2>9. 0 \in -1..Decay + 1 BY <1>2
  <2> QED BY <1>1, <2>2, <2>6, <2>8, <2>9 DEF Fits
<1> QED BY <1>3, <1>4, <1>5, <1>6

\* What a start makes of its endpoint.
LEMMA StartFits ==
  ASSUME NEW s \in EndpointStates, Fits(s)
  PROVE Fits(Rpc!Started(s)) /\ Rpc!Started(s).inFlight = s.inFlight + 1
<1> DEFINE was == s.next
           next == Rpc!Max({was, MinInterval})
           n == s.inFlight + 1
<1>1. Rpc!MaxAge \in Nat /\ MinInterval \in Nat BY RpcConstants
<1>2. was \in -Rpc!MaxAge..MinInterval BY DEF Fits
<1> HIDE DEF was
<1>3. next = IF was >= MinInterval THEN was ELSE MinInterval BY <1>1, <1>2, GreaterOfTwo
<1>4. next \in -Rpc!MaxAge..MinInterval BY <1>1, <1>2, <1>3
<1>5. Rpc!Started(s) = [s EXCEPT !.next = next, !.inFlight = n]
  BY DEF Rpc!Started, was, EndpointStates
<1> HIDE DEF next
<1>6. /\ Rpc!Started(s).next = next /\ Rpc!Started(s).inFlight = n
      /\ Rpc!Started(s).cooldown = s.cooldown /\ Rpc!Started(s).strikes = s.strikes
      /\ Rpc!Started(s).struck = s.struck
  BY <1>5 DEF EndpointStates
<1> QED BY <1>4, <1>6 DEF Fits

LEMMA TimesGrow ==
  ASSUME NEW m \in Nat, NEW n \in Nat, m <= n, NEW k \in Nat PROVE m * k <= n * k
<1> DEFINE d == n - m
<1>1. d \in Nat /\ n = m + d OBVIOUS
<1> HIDE DEF d
<1>2. d * k \in Nat /\ m * k \in Nat BY <1>1
<1>3. n * k = m * k + d * k BY <1>1
<1> QED BY <1>2, <1>3

LEMMA ReadyLater ==
  ASSUME NEW s \in EndpointStates, NEW age \in Nat PROVE Rpc!ReadyIn(s, age) \in Nat
<1>1. \A t \in Int : Rpc!FromNow(t) \in Nat
  <2> SUFFICES ASSUME NEW t \in Int PROVE Rpc!FromNow(t) \in Nat OBVIOUS
  <2>1. Rpc!FromNow(t) = IF 0 >= t THEN 0 ELSE t BY GreaterOfTwo DEF Rpc!FromNow
  <2> QED BY <2>1
<1>2. s.cooldown \in Int /\ s.next \in Int /\ 1 - age \in Int BY DEF EndpointStates
<1>3. Rpc!FromNow(s.cooldown) \in Nat /\ Rpc!FromNow(s.next) \in Nat /\ Rpc!FromNow(1 - age) \in Nat
  BY <1>1, <1>2
<1> QED BY <1>3 DEF Rpc!ReadyIn

\* A pass leaves the endpoints, its call and the number of the calls that run within their bounds.
LEMMA PassFits ==
  ASSUME RpcFits, NEW c \in Rpc!Calls, NEW es \in [Endpoints -> EndpointStates],
         \A e \in Endpoints : es[e].next = e_endpoint[e].next,
         \A e \in Endpoints : Fits(es[e]) /\ es[e].inFlight <= MaxConcurrency,
         \A e \in Endpoints : /\ IsFiniteSet(Running(e) \ {c})
                             /\ Cardinality(Running(e) \ {c}) = es[e].inFlight,
         NEW from \in Nat \ {0}, from <= Len(Candidates[c]) + 1,
         NEW age \in Nat, age <= (from - 1) * MaxRun,
         NEW earliest \in 0..Rpc!Never, NEW left \in 0..MaxWait,
         Rpc!Pass(c, es, from, age, earliest, left)
  PROVE RpcFits'
<1> DEFINE list == Candidates[c]
           usable == {i \in from..Len(list) : Rpc!Usable(es[list[i]], age)}
           stop == Rpc!Min(usable \cup {Len(list) + 1})
           waits == {earliest} \cup {Rpc!ReadyIn(es[list[i]], age) : i \in from..stop - 1}
           seen == Rpc!Min(waits)
           passed == [Rpc!Idle EXCEPT !.age = age, !.earliest = seen, !.left = left]
<1>1. list \in Seq(Endpoints) /\ Len(list) \in Nat /\ Len(list) * MaxRun <= Rpc!MaxAge BY ListsAreShort
<1>2. usable \cup {Len(list) + 1} \in SUBSET Nat BY <1>1
<1>3. stop \in usable \cup {Len(list) + 1}
  <2> HIDE DEF usable
  <2> QED BY <1>2, LeastOfAll
<1>4. usable # {} => stop \in usable
  <2>1. \A i \in usable : stop <= i
    <3> HIDE DEF usable
    <3> QED BY <1>2, LeastOfAll
  <2> QED BY <1>1, <1>3, <2>1
<1>5. stop \in 1..Len(list) + 1 BY <1>1, <1>3
<1>6. \A i \in from..stop - 1 : list[i] \in Endpoints BY <1>1, <1>5
<1>7. \A s \in EndpointStates : Rpc!ReadyIn(s, age) \in Nat BY ReadyLater
<1>8. /\ MaxRun \in Nat /\ Rpc!MaxAge \in Nat /\ Rpc!Never \in Nat /\ MaxWait \in Nat
      /\ MaxConcurrency \in Nat
  BY RpcConstants
<1>9. age \in 0..Rpc!MaxAge
  <2> DEFINE m == from - 1
             len == Len(list)
             past == m * MaxRun
             whole == len * MaxRun
  <2>1. m \in Nat /\ len \in Nat /\ m <= len BY <1>1
  <2>2. age <= past /\ whole <= Rpc!MaxAge BY <1>1
  <2> HIDE DEF m, len
  <2>3. past <= whole /\ past \in Nat /\ whole \in Nat BY <1>8, <2>1, TimesGrow
  <2> HIDE DEF past, whole
  <2> QED BY <1>8, <2>2, <2>3
<1>10. usable # {} => age <= (stop - 1) * MaxRun
  <2> SUFFICES ASSUME usable # {} PROVE age <= (stop - 1) * MaxRun OBVIOUS
  <2> DEFINE m == from - 1
             n == stop - 1
  <2>1. m \in Nat /\ n \in Nat /\ m <= n BY <1>1, <1>4
  <2> HIDE DEF m, n
  <2>2. m * MaxRun <= n * MaxRun /\ m * MaxRun \in Nat /\ n * MaxRun \in Nat BY <1>8, <2>1, TimesGrow
  <2> QED BY <2>2 DEF m, n
<1> HIDE DEF usable, stop
<1>11. waits \in SUBSET Nat /\ waits # {} /\ earliest \in waits BY <1>6, <1>7, <1>8
<1>12. seen \in 0..Rpc!Never
  <2> HIDE DEF waits
  <2>1. seen \in Nat /\ seen <= earliest BY <1>11, LeastOfAll
  <2> QED BY <1>8, <2>1
<1> HIDE DEF waits, seen
<1>13. /\ passed \in CallStates /\ passed.age = age /\ passed.earliest = seen /\ passed.left = left
       /\ passed.timer = 0
  <2> DEFINE aged == [Rpc!Idle EXCEPT !.age = age]
             informed == [aged EXCEPT !.earliest = seen]
  <2>1. aged \in CallStates /\ aged.age = age /\ aged.timer = 0
    BY <1>8 DEF Rpc!Idle, CallStates
  <2> HIDE DEF aged
  <2>2. seen \in Nat /\ left \in Nat BY <1>8, <1>12
  <2>3. informed \in CallStates /\ informed.age = age /\ informed.timer = 0 /\ informed.earliest = seen
    BY <2>1, <2>2 DEF CallStates
  <2> HIDE DEF informed
  <2> DEFINE last == [informed EXCEPT !.left = left]
  <2>4. /\ last \in CallStates /\ last.age = age /\ last.timer = 0
        /\ last.earliest = seen /\ last.left = left
    BY <2>2, <2>3 DEF CallStates
  <2>5. passed = last BY DEF informed, aged
  <2> QED BY <2>4, <2>5
<1> HIDE DEF passed
<1>14. RpcInv'
  <2>1. earliest \in Nat /\ left \in Nat BY <1>8
  <2>2. RpcInv BY DEF RpcFits
  <2> QED BY <2>1, <2>2, PassKeeps
<1>15. e_call \in [Rpc!Calls -> CallStates] BY DEF RpcFits, RpcInv
<1>16. CASE usable # {}
  <2> DEFINE e == list[stop]
             to == [passed EXCEPT !.at = "running", !.on = stop]
  <2>1. /\ e_endpoint' = [es EXCEPT ![e] = Rpc!Started(@)] /\ e_call' = [e_call EXCEPT ![c] = to]
    BY <1>16 DEF Rpc!Pass, usable, stop, waits, seen, passed
  <2>2. stop \in 1..Len(list) /\ e \in Endpoints /\ Rpc!Usable(es[e], age)
    BY <1>1, <1>4, <1>16 DEF usable
  <2>3. /\ to.at = "running" /\ to.on = stop /\ to.age = age /\ to.earliest = seen /\ to.left = left
        /\ to.timer = 0
    BY <1>13 DEF CallStates
  <2>4. list[to.on] = e BY <2>3
  <2> HIDE DEF e, to
  <2>5. es[e] \in EndpointStates /\ Fits(es[e]) /\ es[e].inFlight < MaxConcurrency /\ es[e].inFlight \in Int
    BY <2>2 DEF Rpc!Usable, EndpointStates
  <2>6. Fits(Rpc!Started(es[e])) /\ Rpc!Started(es[e]).inFlight = es[e].inFlight + 1 BY <2>5, StartFits
  <2>7. e_endpoint'[e] = Rpc!Started(es[e]) /\ \A f \in Endpoints \ {e} : e_endpoint'[f] = es[f]
    BY <2>1, <2>2
  <2>8. \A f \in Endpoints : Fits(e_endpoint'[f]) /\ e_endpoint'[f].inFlight <= MaxConcurrency
    <3> SUFFICES ASSUME NEW f \in Endpoints
                 PROVE Fits(e_endpoint'[f]) /\ e_endpoint'[f].inFlight <= MaxConcurrency
      OBVIOUS
    <3>1. CASE f = e BY <1>8, <2>5, <2>6, <2>7, <3>1
    <3>2. CASE f # e BY <2>7, <3>2
    <3> QED BY <3>1, <3>2
  <2>9. CallFits(c, to) BY <1>8, <1>9, <1>10, <1>12, <1>16, <2>2, <2>3 DEF CallFits
  <2>10. \A d \in Rpc!Calls : CallFits(d, e_call'[d])
    BY <1>15, <2>1, <2>9 DEF RpcFits
  <2>11. ASSUME NEW f \in Endpoints
         PROVE Running(f)' = (Running(f) \ {c}) \cup IF f = e THEN {c} ELSE {}
    <3>1. e_call'[c] = to /\ \A d \in Rpc!Calls \ {c} : e_call'[d] = e_call[d] BY <1>15, <2>1
    <3>2. RunsOn(to, c, f) <=> f = e BY <2>3, <2>4 DEF RunsOn
    <3> QED BY <3>1, <3>2 DEF Running
  <2>12. ASSUME NEW f \in Endpoints
         PROVE IsFiniteSet(Running(f))' /\ Cardinality(Running(f))' = e_endpoint'[f].inFlight
    <3> DEFINE R == Running(f) \ {c}
    <3>1. IsFiniteSet(R) /\ Cardinality(R) = es[f].inFlight /\ c \notin R OBVIOUS
    <3>2. CASE f = e
      <4>1. Running(f)' = R \cup {c} BY <2>11, <3>2
      <4> HIDE DEF R
      <4>2. IsFiniteSet(R \cup {c}) /\ Cardinality(R \cup {c}) = Cardinality(R) + 1 BY <3>1, FS_AddElement
      <4>3. e_endpoint'[f].inFlight = es[f].inFlight + 1 BY <2>6, <2>7, <3>2
      <4> QED BY <3>1, <4>1, <4>2, <4>3
    <3>3. CASE f # e
      <4>1. Running(f)' = R BY <2>11, <3>3
      <4>2. e_endpoint'[f] = es[f] BY <2>7, <3>3
      <4> HIDE DEF R
      <4> QED BY <3>1, <4>1, <4>2
    <3> QED BY <3>2, <3>3
  <2> QED BY <1>14, <2>8, <2>10, <2>12 DEF RpcFits
<1>17. CASE usable = {}
  <2> DEFINE until == Rpc!Min({seen, left})
             to == Rpc!WaitOrGiveUp(passed, until)
  <2>1. e_endpoint' = es /\ e_call' = [e_call EXCEPT ![c] = to]
    BY <1>17 DEF Rpc!Pass, usable, stop, waits, seen, passed
  <2>2. CallFits(c, to) /\ to.at # "running"
    <3> HIDE DEF until
    <3> DEFINE waiting == [passed EXCEPT !.at = "waiting", !.timer = until]
    <3>1. /\ waiting.at = "waiting" /\ waiting.age = age /\ waiting.earliest = seen
          /\ waiting.left = left
      BY <1>13 DEF CallStates
    <3>2. /\ Rpc!Idle.at = "idle" /\ Rpc!Idle.age = 0 /\ Rpc!Idle.earliest = Rpc!Never
          /\ Rpc!Idle.left = 0
      BY DEF Rpc!Idle
    <3>3. to \in {Rpc!Idle, waiting} BY DEF Rpc!WaitOrGiveUp
    <3> HIDE DEF waiting, to
    <3> QED BY <1>8, <1>9, <1>12, <3>1, <3>2, <3>3 DEF CallFits
  <2> HIDE DEF to
  <2>3. \A d \in Rpc!Calls : CallFits(d, e_call'[d]) BY <1>15, <2>1, <2>2 DEF RpcFits
  <2>4. ASSUME NEW f \in Endpoints PROVE Running(f)' = Running(f) \ {c}
    <3>1. e_call'[c] = to /\ \A d \in Rpc!Calls \ {c} : e_call'[d] = e_call[d] BY <1>15, <2>1
    <3> QED BY <2>2, <3>1 DEF Running, RunsOn
  <2>5. ASSUME NEW f \in Endpoints
        PROVE IsFiniteSet(Running(f))' /\ Cardinality(Running(f))' = e_endpoint'[f].inFlight
    BY <2>1, <2>4
  <2> QED BY <1>14, <2>1, <2>3, <2>5 DEF RpcFits
<1> QED BY <1>16, <1>17

LEMMA FirstPassFits ==
  ASSUME RpcFits, NEW c \in Rpc!Calls, Rpc!Begin(c) \/ Rpc!Wake(c)
  PROVE RpcFits'
<1> DEFINE es == e_endpoint
           left == e_call[c].left
<1>1. es \in [Endpoints -> EndpointStates] BY DEF RpcFits, RpcInv
<1>2. MaxWait \in Nat /\ Rpc!Never \in Nat BY RpcConstants
<1>3. left \in 0..MaxWait /\ MaxWait \in 0..MaxWait /\ Rpc!Never \in 0..Rpc!Never
  BY <1>2 DEF RpcFits, CallFits
<1>4. \/ Rpc!Pass(c, es, 1, 0, Rpc!Never, MaxWait)
      \/ Rpc!Pass(c, es, 1, 0, Rpc!Never, left)
  BY DEF Rpc!Begin, Rpc!Wake
<1>5. /\ \A e \in Endpoints : es[e].next = e_endpoint[e].next
      /\ \A e \in Endpoints : Fits(es[e]) /\ es[e].inFlight <= MaxConcurrency
  BY DEF RpcFits
<1>6. \A e \in Endpoints : /\ IsFiniteSet(Running(e) \ {c})
                           /\ Cardinality(Running(e) \ {c}) = es[e].inFlight
  <2> SUFFICES ASSUME NEW e \in Endpoints
               PROVE /\ IsFiniteSet(Running(e) \ {c})
                     /\ Cardinality(Running(e) \ {c}) = es[e].inFlight
    OBVIOUS
  <2>1. c \notin Running(e) BY DEF Rpc!Begin, Rpc!Wake, Running, RunsOn
  <2>2. Running(e) \ {c} = Running(e) BY <2>1
  <2> QED BY <2>2 DEF RpcFits
<1>7. 1 \in Nat \ {0} /\ 1 <= Len(Candidates[c]) + 1 /\ 0 \in Nat /\ 0 <= (1 - 1) * MaxRun
  BY ListsAreShort, RpcConstants
<1> HIDE DEF left, es
<1>8. CASE Rpc!Pass(c, es, 1, 0, Rpc!Never, MaxWait)
  BY <1>1, <1>3, <1>5, <1>6, <1>7, <1>8, PassFits
<1>9. CASE Rpc!Pass(c, es, 1, 0, Rpc!Never, left)
  BY <1>1, <1>3, <1>5, <1>6, <1>7, <1>9, PassFits
<1> QED BY <1>4, <1>8, <1>9

\* The end of the attempt of a call on an endpoint: one call less runs there.
AttemptOver(c, es) ==
  /\ es \in [Endpoints -> EndpointStates]
  /\ \A e \in Endpoints : es[e].next = e_endpoint[e].next
  /\ \A e \in Endpoints : Fits(es[e]) /\ es[e].inFlight <= MaxConcurrency
  /\ \A e \in Endpoints : /\ IsFiniteSet(Running(e) \ {c})
                          /\ Cardinality(Running(e) \ {c}) = es[e].inFlight
Afters(s) == {Rpc!Ended(s), Rpc!Succeeded(s), Rpc!TimedOut(s), Rpc!RateLimited(s)}

LEMMA AttemptEnds ==
  ASSUME RpcFits, NEW c \in Rpc!Calls, e_call[c].at = "running",
         NEW after \in Afters(e_endpoint[Rpc!OnOf(c)])
  PROVE AttemptOver(c, [e_endpoint EXCEPT ![Rpc!OnOf(c)] = after])
<1> SUFFICES ASSUME NEW on, on = Rpc!OnOf(c), NEW s, s = e_endpoint[on],
                    NEW es, es = [e_endpoint EXCEPT ![on] = after]
             PROVE AttemptOver(c, es)
  OBVIOUS
<1>1. e_call[c].on \in 1..Len(Candidates[c]) /\ on \in Endpoints
  <2>1. e_call[c].on \in 1..Len(Candidates[c]) BY DEF RpcFits, RpcInv
  <2> QED BY <2>1, RpcConstants DEF Rpc!OnOf
<1>2. e_endpoint \in [Endpoints -> EndpointStates] BY DEF RpcFits, RpcInv
<1>3. s \in EndpointStates /\ Fits(s) /\ s.inFlight <= MaxConcurrency
  BY <1>1, <1>2 DEF RpcFits
<1>4. after \in EndpointStates /\ after.next = s.next /\ after.inFlight = s.inFlight - 1
      /\ s.inFlight \in Int /\ Fits(after)
  <2>1. after \in {Rpc!Ended(s), Rpc!Succeeded(s), Rpc!TimedOut(s), Rpc!RateLimited(s)} BY DEF Afters
  <2>2. s.inFlight \in Int BY <1>3 DEF EndpointStates
  <2> QED BY <1>3, <2>1, <2>2, AfterAttempt, AttemptFits
<1>5. es \in [Endpoints -> EndpointStates] BY <1>2, <1>4
<1>6. es[on] = after /\ \A e \in Endpoints \ {on} : es[e] = e_endpoint[e] BY <1>1, <1>2
<1>7. MaxConcurrency \in Nat BY RpcConstants
<1>8. \A e \in Endpoints : IsFiniteSet(Running(e)) /\ Cardinality(Running(e)) = e_endpoint[e].inFlight
  BY DEF RpcFits
<1>9. ASSUME NEW e \in Endpoints
      PROVE /\ es[e].next = e_endpoint[e].next
            /\ Fits(es[e]) /\ es[e].inFlight <= MaxConcurrency
            /\ IsFiniteSet(Running(e) \ {c}) /\ Cardinality(Running(e) \ {c}) = es[e].inFlight
  <2> DEFINE R == Running(e)
  <2>1. IsFiniteSet(R) /\ Cardinality(R) = e_endpoint[e].inFlight BY <1>8
  <2>2. c \in R <=> e = on BY DEF Running, RunsOn, Rpc!OnOf
  <2> HIDE DEF R
  <2>3. /\ IsFiniteSet(R \ {c})
        /\ Cardinality(R \ {c}) = IF c \in R THEN Cardinality(R) - 1 ELSE Cardinality(R)
    BY <2>1, FS_RemoveElement
  <2>4. CASE e = on BY <1>3, <1>4, <1>6, <1>7, <2>1, <2>2, <2>3, <2>4 DEF R
  <2>5. CASE e # on
    <3>1. es[e] = e_endpoint[e] BY <1>6, <2>5
    <3> QED BY <2>1, <2>2, <2>3, <2>5, <3>1 DEF R, RpcFits
  <2> QED BY <2>4, <2>5
<1> QED BY <1>5, <1>9 DEF AttemptOver

LEMMA FailFits == ASSUME RpcFits, NEW c \in Rpc!Calls, Rpc!Fail(c) PROVE RpcFits'
<1> DEFINE on == Rpc!OnOf(c)
           s == e_endpoint[on]
           d == e_call[c]
<1>1. PICK after \in {Rpc!TimedOut(s), Rpc!RateLimited(s)} :
        Rpc!Pass(c, [e_endpoint EXCEPT ![on] = after], d.on + 1, d.age, d.earliest, d.left)
  BY DEF Rpc!Fail
<1>2. e_call[c].at = "running" BY DEF Rpc!Fail
<1> DEFINE es == [e_endpoint EXCEPT ![on] = after]
<1>3. AttemptOver(c, es)
  <2>1. after \in Afters(e_endpoint[Rpc!OnOf(c)]) BY <1>1 DEF Afters
  <2> QED BY <1>2, <2>1, AttemptEnds
<1> DEFINE from == d.on + 1
           age == d.age
           earliest == d.earliest
           left == d.left
<1>4. Rpc!Pass(c, es, from, age, earliest, left) BY <1>1
<1>5. d \in CallStates /\ d.on \in 1..Len(Candidates[c]) /\ Len(Candidates[c]) \in Nat /\ CallFits(c, d)
  BY <1>2, ListsAreShort DEF RpcFits, RpcInv
<1>6. from \in Nat \ {0} /\ from <= Len(Candidates[c]) + 1 /\ from - 1 = d.on BY <1>5
<1>7. age \in Nat /\ earliest \in 0..Rpc!Never /\ left \in 0..MaxWait BY <1>5 DEF CallFits, CallStates
<1>8. age <= (from - 1) * MaxRun
  <2> DEFINE m == d.on - 1
             past == m * MaxRun
             next == d.on * MaxRun
  <2>1. m \in Nat /\ d.on = m + 1 /\ MaxRun \in Nat BY <1>5, RpcConstants
  <2>2. age <= past + d.timer /\ d.timer <= MaxRun /\ d.timer \in Nat
    BY <1>2, <1>5 DEF CallFits, CallStates
  <2>3. next = (m + 1) * MaxRun BY <2>1
  <2> HIDE DEF m
  <2>4. past \in Nat /\ (m + 1) * MaxRun = past + MaxRun BY <2>1
  <2>5. next = past + MaxRun BY <2>3, <2>4
  <2>6. (from - 1) * MaxRun = next BY <1>6
  <2> HIDE DEF past, next, from
  <2> QED BY <1>7, <2>1, <2>2, <2>4, <2>5, <2>6
<1> HIDE DEF es, from, age, earliest, left
<1> QED BY <1>3, <1>4, <1>6, <1>7, <1>8, PassFits DEF AttemptOver

LEMMA ReturnFits == ASSUME RpcFits, NEW c \in Rpc!Calls, Rpc!Return(c) PROVE RpcFits'
<1> DEFINE on == Rpc!OnOf(c)
           s == e_endpoint[on]
<1>1. PICK after \in {Rpc!Ended(s), Rpc!Succeeded(s)} :
        e_endpoint' = [e_endpoint EXCEPT ![on] = after]
  BY DEF Rpc!Return
<1>2. e_call[c].at = "running" /\ e_call' = [e_call EXCEPT ![c] = Rpc!Idle]
  BY DEF Rpc!Return
<1>3. AttemptOver(c, e_endpoint')
  <2>1. after \in Afters(e_endpoint[Rpc!OnOf(c)]) BY <1>1 DEF Afters
  <2> QED BY <1>1, <1>2, <2>1, AttemptEnds
<1>4. /\ e_call \in [Rpc!Calls -> CallStates]
      /\ e_call'[c] = Rpc!Idle /\ \A d \in Rpc!Calls \ {c} : e_call'[d] = e_call[d]
  BY <1>2 DEF RpcFits, RpcInv
<1>5. CallFits(c, Rpc!Idle) /\ Rpc!Idle.at = "idle"
  BY RpcConstants DEF CallFits, Rpc!Idle
<1>6. \A d \in Rpc!Calls : CallFits(d, e_call'[d]) BY <1>4, <1>5 DEF RpcFits
<1>7. \A e \in Endpoints : Running(e)' = Running(e) \ {c} BY <1>4, <1>5 DEF Running, RunsOn
<1>8. RpcInv' BY ReturnKeeps DEF RpcFits
<1> QED BY <1>3, <1>6, <1>7, <1>8 DEF RpcFits, AttemptOver

LEMMA LessIs ==
  ASSUME NEW t \in Int, NEW floor \in Int
  PROVE Rpc!Less(t, floor) = IF floor >= t - 1 THEN floor ELSE t - 1
<1>1. t - 1 \in Int OBVIOUS
<1> QED BY <1>1, GreaterOfTwo DEF Rpc!Less

LEMMA EndpointTicks ==
  ASSUME RpcFits, Rpc!Tick, NEW e \in Endpoints
  PROVE Fits(e_endpoint'[e]) /\ e_endpoint'[e].inFlight = e_endpoint[e].inFlight
<1> DEFINE s == e_endpoint[e]
           floor == -Rpc!MaxAge
           warm == s.cooldown
           soon == s.next
           more == s.struck + 1
           end == Decay + 1
           cooldown == Rpc!Less(warm, floor)
           next == Rpc!Less(soon, floor)
           struck == IF s.struck = -1 THEN -1 ELSE Rpc!Min({more, end})
<1>1. s \in EndpointStates /\ Fits(s) BY DEF RpcFits, RpcInv
<1>2. /\ warm \in floor..Rpc!Never /\ soon \in floor..MinInterval /\ s.struck \in -1..end
      /\ s.strikes \in 0..MaxMultiplier
  BY <1>1 DEF Fits
<1>3. /\ floor \in Int /\ floor <= 0 /\ Rpc!Never \in Nat /\ MinInterval \in Nat /\ end \in Nat
      /\ Decay \in Nat
  BY RpcConstants
<1>4. e_endpoint'[e] = [s EXCEPT !.cooldown = cooldown, !.next = next, !.struck = struck]
  BY <1>1 DEF Rpc!Tick, EndpointStates
<1>5. /\ e_endpoint'[e].cooldown = cooldown /\ e_endpoint'[e].next = next
      /\ e_endpoint'[e].struck = struck /\ e_endpoint'[e].strikes = s.strikes
      /\ e_endpoint'[e].inFlight = s.inFlight
  <2> HIDE DEF cooldown, next, struck, s
  <2> QED BY <1>1, <1>4 DEF EndpointStates
<1>6. cooldown \in floor..Rpc!Never /\ next \in floor..MinInterval
  <2> HIDE DEF warm, soon, floor
  <2>1. warm \in Int /\ soon \in Int BY <1>2, <1>3
  <2>2. /\ cooldown = IF floor >= warm - 1 THEN floor ELSE warm - 1
        /\ next = IF floor >= soon - 1 THEN floor ELSE soon - 1
    BY <1>3, <2>1, LessIs
  <2> HIDE DEF cooldown, next
  <2> QED BY <1>2, <1>3, <2>1, <2>2
<1>7. struck \in -1..end
  <2>1. more \in 0..end + 1 /\ end \in Int /\ more \in Int BY <1>2, <1>3
  <2> DEFINE least == Rpc!Min({more, end})
  <2> HIDE DEF more, end
  <2>2. least = IF more <= end THEN more ELSE end BY <2>1, LesserOfTwo
  <2> HIDE DEF least
  <2>3. least \in 0..end BY <1>3, <2>1, <2>2
  <2>4. struck = IF s.struck = -1 THEN -1 ELSE least BY DEF least
  <2> HIDE DEF struck
  <2> QED BY <1>3, <2>3, <2>4
<1> HIDE DEF cooldown, next, struck, s
<1> QED BY <1>2, <1>5, <1>6, <1>7 DEF Fits, floor, end, s

LEMMA CallAges ==
  ASSUME RpcFits, Rpc!Tick, NEW c \in Rpc!Calls
  PROVE CallFits(c, e_call'[c])
<1> DEFINE s == e_call[c]
           older == s.age + 1
           longer == s.timer + 1
           left == Rpc!Less(s.left, 0)
           earliest == IF s.earliest = Rpc!Never THEN Rpc!Never ELSE Rpc!Less(s.earliest, 0)
           timer == Rpc!Less(s.timer, 0)
<1>1. s \in CallStates /\ CallFits(c, s) BY DEF RpcFits, RpcInv
<1>2. /\ s.age \in 0..Rpc!MaxAge /\ s.timer \in Nat /\ s.left \in 0..MaxWait
      /\ s.earliest \in 0..Rpc!Never /\ s.at \in {"idle", "running", "waiting"}
  BY <1>1 DEF CallStates, CallFits
<1>3. Rpc!Never \in Nat /\ MaxWait \in Nat /\ Rpc!MaxAge \in Nat /\ MaxRun \in Nat BY RpcConstants
<1>4. \A n \in Nat : \A t \in 0..n : Rpc!Less(t, 0) \in 0..n
  <2> SUFFICES ASSUME NEW n \in Nat, NEW t \in 0..n PROVE Rpc!Less(t, 0) \in 0..n OBVIOUS
  <2>1. t \in Int /\ 0 \in Int OBVIOUS
  <2>2. Rpc!Less(t, 0) = IF 0 >= t - 1 THEN 0 ELSE t - 1 BY <2>1, LessIs
  <2> QED BY <2>2
<1>5. left \in 0..MaxWait /\ earliest \in 0..Rpc!Never
  <2>1. Rpc!Less(s.left, 0) \in 0..MaxWait /\ Rpc!Less(s.earliest, 0) \in 0..Rpc!Never BY <1>2, <1>3, <1>4
  <2>2. Rpc!Never \in 0..Rpc!Never BY <1>3
  <2> QED BY <2>1, <2>2
<1>6. e_call'[c] =
        CASE s.at = "idle" -> s
          [] s.at = "running" ->
               [s EXCEPT !.age = @ + 1, !.timer = @ + 1, !.left = Rpc!Less(@, 0),
                         !.earliest = IF @ = Rpc!Never THEN Rpc!Never ELSE Rpc!Less(@, 0)]
          [] s.at = "waiting" -> [s EXCEPT !.timer = Rpc!Less(@, 0), !.left = Rpc!Less(@, 0)]
  BY DEF Rpc!Tick
<1>7. CASE s.at = "idle" BY <1>1, <1>6, <1>7
<1>8. CASE s.at = "running"
  <2>1. e_call'[c] = [s EXCEPT !.age = older, !.timer = longer, !.left = left, !.earliest = earliest]
    BY <1>1, <1>6, <1>8 DEF CallStates
  <2>2. s.timer < MaxRun BY <1>8 DEF Rpc!Tick
  <2>3. s.age <= (s.on - 1) * MaxRun + s.timer BY <1>1, <1>8 DEF CallFits
  <2>4. s.on \in 1..Len(Candidates[c]) BY <1>8 DEF RpcFits, RpcInv
  <2>5. Len(Candidates[c]) \in Nat /\ Len(Candidates[c]) * MaxRun <= Rpc!MaxAge BY ListsAreShort
  <2> HIDE DEF older, longer, left, earliest, s
  <2>6. /\ e_call'[c].age = older /\ e_call'[c].timer = longer /\ e_call'[c].left = left
        /\ e_call'[c].earliest = earliest /\ e_call'[c].on = s.on
    BY <1>1, <2>1 DEF CallStates
  <2>7. /\ s.age \in Nat /\ s.timer \in Nat /\ older = s.age + 1 /\ longer = s.timer + 1
    BY <1>2 DEF older, longer
  <2> DEFINE m == s.on - 1
             past == m * MaxRun
             upto == s.on * MaxRun
             whole == Len(Candidates[c]) * MaxRun
  <2>8. m \in Nat /\ s.on = m + 1 /\ s.on \in Nat BY <2>4, <2>5
  <2>9. past \in Nat /\ upto = past + MaxRun
    <3> HIDE DEF m
    <3>1. m * MaxRun \in Nat /\ (m + 1) * MaxRun = m * MaxRun + MaxRun BY <1>3, <2>8
    <3> QED BY <2>8, <3>1
  <2>10. upto <= whole BY <1>3, <2>4, <2>5, <2>8, TimesGrow
  <2>11. whole \in Nat /\ whole <= Rpc!MaxAge BY <1>3, <2>5
  <2>12. s.age <= past + s.timer BY <2>3
  <2> HIDE DEF past, upto, whole, m
  <2>13. older \in 0..Rpc!MaxAge /\ longer <= MaxRun /\ older <= past + longer
    BY <1>3, <2>2, <2>7, <2>9, <2>10, <2>11, <2>12
  <2>14. older <= (s.on - 1) * MaxRun + longer BY <2>13 DEF past, m
  <2> QED BY <1>5, <2>6, <2>13, <2>14 DEF CallFits
<1>9. CASE s.at = "waiting"
  <2>1. e_call'[c] = [s EXCEPT !.timer = timer, !.left = left] BY <1>1, <1>6, <1>9 DEF CallStates
  <2> HIDE DEF timer, left, s
  <2>2. /\ e_call'[c].age = s.age /\ e_call'[c].left = left
        /\ e_call'[c].earliest = s.earliest /\ e_call'[c].at = "waiting"
    BY <1>1, <1>9, <2>1 DEF CallStates
  <2> QED BY <1>2, <1>5, <2>2 DEF CallFits
<1> QED BY <1>2, <1>7, <1>8, <1>9

LEMMA TickFits == ASSUME RpcFits, Rpc!Tick PROVE RpcFits'
<1>1. RpcInv' BY TickPaces DEF RpcFits
<1>2. \A e \in Endpoints : Fits(e_endpoint'[e]) /\ e_endpoint'[e].inFlight = e_endpoint[e].inFlight
  BY EndpointTicks
<1>3. \A c \in Rpc!Calls : CallFits(c, e_call'[c]) BY CallAges
<1>4. \A c \in Rpc!Calls : e_call'[c].at = e_call[c].at /\ e_call'[c].on = e_call[c].on
  BY CallTicks DEF RpcFits
<1>5. \A e \in Endpoints : Running(e)' = Running(e) BY <1>4 DEF Running, RunsOn
<1> QED BY <1>1, <1>2, <1>3, <1>5 DEF RpcFits

LEMMA RpcFitsFirst == ASSUME Rpc!Init PROVE RpcFits
<1>1. RpcInv BY RpcStarts
<1>2. \A c \in Rpc!Calls : e_call[c].at = "idle" /\ e_call[c].age = 0 /\ e_call[c].earliest = Rpc!Never
                           /\ e_call[c].left = 0
  BY DEF Rpc!Init, Rpc!Idle
<1>3. \A c \in Rpc!Calls : CallFits(c, e_call[c]) BY <1>2, RpcConstants DEF CallFits
<1>4. \A e \in Endpoints : /\ e_endpoint[e].cooldown = -Rpc!MaxAge /\ e_endpoint[e].next = -Rpc!MaxAge
                           /\ e_endpoint[e].inFlight = 0 /\ e_endpoint[e].strikes = 0
                           /\ e_endpoint[e].struck = -1
  BY DEF Rpc!Init
<1>5. \A e \in Endpoints : Fits(e_endpoint[e]) /\ e_endpoint[e].inFlight <= MaxConcurrency
  BY <1>4, RpcConstants DEF Fits
<1>6. \A e \in Endpoints : Running(e) = {} BY <1>2 DEF Running, RunsOn
<1>7. IsFiniteSet({}) /\ Cardinality({}) = 0 BY FS_EmptySet
<1> QED BY <1>1, <1>3, <1>4, <1>5, <1>6, <1>7 DEF RpcFits

LEMMA RpcFitsStays == ASSUME RpcFits, [part = "rpc" /\ Rpc!Next]_rpcVars PROVE RpcFits'
<1>1. CASE UNCHANGED rpcVars
  <2>1. \A e \in Endpoints : Running(e)' = Running(e) BY <1>1 DEF Running, RunsOn, rpcVars
  <2>2. RpcInv' BY RpcStep DEF RpcFits
  <2> QED BY <1>1, <2>1, <2>2 DEF RpcFits, rpcVars
<1>2. CASE Rpc!Tick BY <1>2, TickFits
<1>3. ASSUME NEW c \in Rpc!Calls, Rpc!Begin(c) \/ Rpc!Step(c) PROVE RpcFits'
  BY <1>3, FirstPassFits, ReturnFits, FailFits DEF Rpc!Step
<1> QED BY <1>1, <1>2, <1>3 DEF Rpc!Next

LEMMA RpcFitsAlways == CompSpec => []RpcFits
<1>1. CompInit => RpcFits BY RpcFitsFirst DEF CompInit
<1>2. RpcFits /\ [CompNext]_all => RpcFits' BY OthersStutter, RpcFitsStays
<1> QED BY <1>1, <1>2, PTL DEF CompSpec

\* An endpoint never runs more calls than its maxConcurrency, however calls wait, fail over to it,
\* return or overtake each other, and its counter inFlight, which is what its use is decided by,
\* counts exactly the calls that run on it: no way out of an attempt loses or returns a place twice.
THEOREM InFlightCounts ==
  CompSpec => [](\A e \in Endpoints :
    /\ IsFiniteSet(Running(e)) /\ Cardinality(Running(e)) = e_endpoint[e].inFlight
    /\ e_endpoint[e].inFlight <= MaxConcurrency)
<1> DEFINE Counts == \A e \in Endpoints :
             /\ IsFiniteSet(Running(e)) /\ Cardinality(Running(e)) = e_endpoint[e].inFlight
             /\ e_endpoint[e].inFlight <= MaxConcurrency
<1>1. RpcFits => Counts BY DEF RpcFits
<1> HIDE DEF Counts
<1>2. CompSpec => []Counts BY <1>1, RpcFitsAlways, PTL
<1> QED BY <1>2 DEF Counts

LEMMA RpcTyped == RpcFits => Rpc!TypeOK
<1> SUFFICES ASSUME RpcFits PROVE Rpc!TypeOK OBVIOUS
<1> DEFINE States == [cooldown : -Rpc!MaxAge..Rpc!Never, next : -Rpc!MaxAge..MinInterval,
                      inFlight : 0..MaxConcurrency, strikes : 0..MaxMultiplier, struck : -1..Decay + 1]
<1>1. e_endpoint \in [Endpoints -> EndpointStates] BY DEF RpcFits, RpcInv
<1>2. ASSUME NEW e \in Endpoints PROVE e_endpoint[e] \in States
  <2> DEFINE s == e_endpoint[e]
  <2>1. s \in EndpointStates /\ Fits(s) BY <1>1 DEF RpcFits
  <2>2. s.inFlight \in 0..MaxConcurrency
    <3> DEFINE n == Cardinality(Running(e))
    <3>1. IsFiniteSet(Running(e)) /\ n = s.inFlight /\ s.inFlight <= MaxConcurrency BY DEF RpcFits
    <3>2. n \in Nat BY <3>1, FS_CardinalityType
    <3> HIDE DEF n, s
    <3> QED BY <3>1, <3>2, RpcConstants
  <2>3. s = [cooldown |-> s.cooldown, next |-> s.next, inFlight |-> s.inFlight,
             strikes |-> s.strikes, struck |-> s.struck]
    BY <2>1 DEF EndpointStates
  <2>4. /\ s.cooldown \in -Rpc!MaxAge..Rpc!Never /\ s.next \in -Rpc!MaxAge..MinInterval
        /\ s.strikes \in 0..MaxMultiplier /\ s.struck \in -1..Decay + 1
    BY <2>1 DEF Fits
  <2> HIDE DEF s
  <2>5. s \in States BY <2>2, <2>3, <2>4
  <2> QED BY <2>5 DEF s
<1>3. e_endpoint \in [Endpoints -> States]
  <2> HIDE DEF States
  <2> QED BY <1>1, <1>2
<1>4. \A c \in Rpc!Calls : /\ e_call[c].at \in {"idle", "running", "waiting"}
                           /\ e_call[c].age \in 0..Rpc!MaxAge
                           /\ e_call[c].earliest \in 0..Rpc!Never /\ e_call[c].left \in 0..MaxWait
  BY DEF RpcFits, RpcInv, CallStates, CallFits
<1> QED BY <1>3, <1>4 DEF Rpc!TypeOK

-----------------------------------------------------------------------------
(* RuntimeModes, LiveCycle, SpotInventory.                                 *)

LEMMA ModesTyped == ModesInv => Modes!TypeOK
<1> SUFFICES ASSUME ModesInv PROVE Modes!TypeOK OBVIOUS
<1>1. ModeStates = Modes!RuntimeStates /\ HealthStates = Modes!Healths
  BY DEF ModeStates, Modes!RuntimeStates, HealthStates, Modes!Healths
<1>2. d_tick \in TickStates BY DEF ModesInv, ModeTypes
<1>3. /\ d_tick.at \in Stages /\ d_tick.start \in ModeStates /\ d_tick.prev \in Modes!Modes
      /\ d_tick.had \in BOOLEAN /\ d_tick.closes \in BOOLEAN /\ d_tick.caught \in BOOLEAN
  BY <1>2 DEF TickStates
<1> QED BY <1>1, <1>3 DEF ModesInv, ModeTypes, Modes!TypeOK, Stages

\* What the cycle keeps beside CycleInv: its lifecycle, its order and how it ends.
CycleShape(on) ==
  /\ c_life \in Cycle(on)!Lifecycles /\ c_pending \in {"none", "open", "exit"}
  /\ c_action.do \in Cycle(on)!Opens \cup Cycle(on)!Exits \cup Cycle(on)!Maintains \cup {"hold"}
  /\ c_at = "done" => c_result.next \in Cycle(on)!Lifecycles

CycleTyped(on) == CycleInv(on) /\ CycleShape(on)

\* The cycle goes on as it was, or it stops.
Onward == c_at' # "done" /\ UNCHANGED <<c_life, c_pending, c_action>>
Stopped(on) == \E why : Cycle(on)!Stop(why)

LEMMA StopShapes ==
  ASSUME NEW on \in BOOLEAN, CycleTyped(on), c_at # "done", Stopped(on) \/ Onward
  PROVE CycleShape(on)'
<1>1. CASE Onward BY <1>1 DEF Onward, CycleTyped, CycleShape
<1>2. CASE Stopped(on)
  <2>1. PICK why : Cycle(on)!Stop(why) BY <1>2 DEF Stopped
  <2>2. Cycle(on)!AfterNothing(why) \in Cycle(on)!Lifecycles
    BY DEF Cycle!AfterNothing, Cycle!Lifecycles, CycleTyped, CycleShape
  <2>3. /\ c_result' = [Cycle(on)!Running EXCEPT !.why = why, !.next = Cycle(on)!AfterNothing(why)]
        /\ UNCHANGED <<c_life, c_pending, c_action>>
    BY <2>1 DEF Cycle!Stop, Cycle!Ends, CycleTyped, CycleInv
  <2>4. c_result'.next = Cycle(on)!AfterNothing(why) BY <2>3 DEF Cycle!Running
  <2> QED BY <2>2, <2>3, <2>4 DEF CycleTyped, CycleShape
<1> QED BY <1>1, <1>2

LEMMA CycleShapes ==
  ASSUME NEW on \in BOOLEAN, CycleTyped(on), [Cycle(on)!Next]_cycleVars PROVE CycleTyped(on)'
<1>1. CycleInv(on)' BY CycleStep DEF CycleTyped
<1>2. CASE Cycle(on)!NextCycle
  <2>1. c_at = "done" /\ c_result.next \in Cycle(on)!Lifecycles BY <1>2 DEF Cycle!NextCycle, CycleTyped, CycleShape
  <2>2. c_life' \in Cycle(on)!Lifecycles
    BY <1>2, <2>1 DEF Cycle!NextCycle, Cycle!FirstLife, Cycle!Lifecycles
  <2>3. c_at' = "wal" /\ c_action' = Cycle(on)!Undecided /\ c_pending' \in {"none", "open", "exit"}
    BY <1>2 DEF Cycle!NextCycle, CycleTyped, CycleShape
  <2> QED BY <1>1, <2>2, <2>3 DEF CycleTyped, CycleShape, Cycle!Undecided
<1>3. ASSUME NEW blocked \in BOOLEAN, Cycle(on)!RecoverPrepared(blocked) PROVE CycleShape(on)'
  <2>1. c_at # "done" /\ (Stopped(on) \/ Onward)
    BY <1>3 DEF Cycle!RecoverPrepared, Cycle!Pass, Stopped, Onward
  <2> QED BY <2>1, StopShapes
<1>4. ASSUME NEW reason \in {"unresolved", "filled", "failed"}, NEW evidence \in BOOLEAN,
             Cycle(on)!Gate(reason, evidence)
      PROVE CycleShape(on)'
  <2> DEFINE next == Cycle(on)!AfterRecovery(reason, evidence)
             again == c_life = "open_pending" /\ reason = "failed" /\ c_target.mint
  <2>1. next \in Cycle(on)!Lifecycles
    BY DEF Cycle!AfterRecovery, Cycle!Lifecycles, CycleTyped, CycleShape
  <2>2. CASE Stopped(on) \/ Onward
    <3>1. c_at # "done" BY <1>4 DEF Cycle!Gate
    <3> QED BY <2>2, <3>1, StopShapes
  <2>3. CASE ~(Stopped(on) \/ Onward)
    <3>1. /\ c_pending' = "none" /\ c_life' = next /\ UNCHANGED c_action /\ c_at = "gate"
          /\ c_at' = IF again THEN "done" ELSE "ingest"
          /\ c_result' = [c_result EXCEPT
               !.why = IF again THEN "failed-open" ELSE @,
               !.next = IF again THEN IF Cycle(on)!Inventory THEN next ELSE "closed" ELSE @]
      BY <1>4, <2>3 DEF Cycle!Gate, Cycle!Pass, Stopped, Onward
    <3>2. c_result = Cycle(on)!Running BY <3>1 DEF CycleTyped, CycleInv
    <3> HIDE DEF next, again
    <3>3. c_at' = "done" => c_result'.next \in {next, "closed"} BY <3>1, <3>2 DEF Cycle!Running
    <3> QED BY <2>1, <3>1, <3>3 DEF CycleTyped, CycleShape, Cycle!Lifecycles
  <2> QED BY <2>2, <2>3
<1>5. ASSUME NEW s \in Cycle(on)!Snapshots, NEW gates \in BOOLEAN, NEW ingest \in BOOLEAN, NEW recorded \in BOOLEAN,
             Cycle(on)!Decide(s, gates, ingest, recorded)
      PROVE CycleShape(on)'
  <2>1. c_at = "ingest" /\ c_at # "done" BY <1>5 DEF Cycle!Decide
  <2>2. CASE Stopped(on) BY <2>1, <2>2, StopShapes
  <2>3. CASE ~Stopped(on)
    <3>1. /\ c_at' = "policy" /\ UNCHANGED c_pending
          /\ c_life' = IF Cycle(on)!MustCleanup THEN "inventory_exit_ready" ELSE c_life
      BY <1>5, <2>3, IngestStops DEF Cycle!Decide, Stopped, CycleTyped
    <3>2. c_action'.do \in Cycle(on)!Opens \cup Cycle(on)!Exits \cup Cycle(on)!Maintains
      BY <1>1, <3>1 DEF CycleInv, Late
    <3> QED BY <3>1, <3>2 DEF CycleTyped, CycleShape, Cycle!Lifecycles
  <2> QED BY <2>2, <2>3
<1>6. ASSUME \E restricted, recent, cooling \in BOOLEAN : Cycle(on)!Policy(restricted, recent, cooling)
      PROVE CycleShape(on)'
  <2>1. c_at # "done" /\ (Stopped(on) \/ Onward)
    BY <1>6 DEF Cycle!Policy, Cycle!Goes, Stopped, Onward
  <2> QED BY <2>1, StopShapes
<1>7. ASSUME \E deferred, value \in BOOLEAN : Cycle(on)!Target(deferred, value) PROVE CycleShape(on)'
  <2>1. c_at # "done" /\ (Stopped(on) \/ Onward)
    BY <1>7 DEF Cycle!Target, Cycle!Goes, Stopped, Onward
  <2> QED BY <2>1, StopShapes
<1>8. ASSUME \E fails \in BOOLEAN : Cycle(on)!Quote(fails) PROVE CycleShape(on)'
  <2>1. c_at # "done" /\ (Stopped(on) \/ Onward)
    BY <1>8 DEF Cycle!Quote, Cycle!Goes, Stopped, Onward
  <2> QED BY <2>1, StopShapes
<1>9. ASSUME \E disabled, mismatch \in BOOLEAN : Cycle(on)!Account(disabled, mismatch) PROVE CycleShape(on)'
  <2>1. c_at # "done" /\ (Stopped(on) \/ Onward)
    BY <1>9 DEF Cycle!Account, Cycle!Goes, Stopped, Onward
  <2> QED BY <2>1, StopShapes
<1>10. ASSUME \E killed, closed, over \in BOOLEAN : Cycle(on)!Guards(killed, closed, over) PROVE CycleShape(on)'
  <2>1. c_at # "done" /\ (Stopped(on) \/ Onward)
    BY <1>10 DEF Cycle!Guards, Cycle!Goes, Stopped, Onward
  <2> QED BY <2>1, StopShapes
<1>11. ASSUME NEW addressed \in BOOLEAN, NEW resolved \in BOOLEAN, Cycle(on)!Send(addressed, resolved)
       PROVE CycleShape(on)'
  <2>1. c_at = "identity" /\ c_at # "done" BY <1>11 DEF Cycle!Send
  <2>2. CASE Stopped(on) BY <2>1, <2>2, StopShapes
  <2>3. CASE ~Stopped(on)
    <3> DEFINE next == Cycle(on)!AfterOrder(c_action.do, resolved)
    <3>1. /\ UNCHANGED <<c_life, c_pending, c_action>>
          /\ c_result' = [Cycle(on)!Running EXCEPT !.sent = c_action.do, !.next = next]
      BY <1>11, <2>1, <2>3 DEF Cycle!Send, Stopped, CycleTyped, CycleInv
    <3>2. next \in Cycle(on)!Lifecycles
      BY DEF Cycle!AfterOrder, Cycle!Lifecycles, Cycle!Opens, CycleTyped, CycleShape
    <3> HIDE DEF next
    <3>3. c_result'.next = next BY <3>1 DEF Cycle!Running
    <3> QED BY <3>1, <3>2, <3>3 DEF CycleTyped, CycleShape
  <2> QED BY <2>2, <2>3
<1>12. CASE UNCHANGED cycleVars BY <1>1, <1>12 DEF cycleVars, CycleTyped, CycleShape
<1> QED BY <1>1, <1>2, <1>3, <1>4, <1>5, <1>6, <1>7, <1>8, <1>9, <1>10, <1>11, <1>12 DEF Cycle!Next, CycleTyped

LEMMA CycleTypedFirst == ASSUME NEW on \in BOOLEAN, Cycle(on)!Init PROVE CycleTyped(on)
<1>1. c_life \in Cycle(on)!Lifecycles BY DEF Cycle!Init, Cycle!FirstLife, Cycle!Lifecycles
<1> QED BY <1>1, CycleStarts DEF CycleTyped, CycleShape, Cycle!Init, Cycle!Undecided

LEMMA CycleTypeOK == ASSUME NEW on \in BOOLEAN, CycleTyped(on) PROVE Cycle(TRUE)!TypeOK
<1>1. /\ c_target \in Cycle(TRUE)!Targets
      /\ c_at \in {"wal", "gate", "ingest", "policy", "target", "quote", "account", "guards", "identity", "done"}
  BY DEF CycleTyped, CycleInv, Cycle!Targets, Late
<1>2. /\ c_life \in Cycle(TRUE)!Lifecycles /\ c_pending \in {"none", "open", "exit"}
      /\ c_action.do \in Cycle(TRUE)!Opens \cup Cycle(TRUE)!Exits \cup Cycle(TRUE)!Maintains \cup {"hold"}
  BY DEF CycleTyped, CycleShape, Cycle!Lifecycles, Cycle!Opens, Cycle!Exits, Cycle!Maintains
<1>3. c_at # "done" => c_result.next = "none" BY DEF CycleTyped, CycleInv, Cycle!Running
<1>4. c_at = "done" => c_result.next \in Cycle(TRUE)!Lifecycles
  BY DEF CycleTyped, CycleShape, Cycle!Lifecycles
<1>5. "none" \notin Cycle(TRUE)!Lifecycles BY DEF Cycle!Lifecycles
<1> QED BY <1>1, <1>2, <1>3, <1>4, <1>5 DEF Cycle!TypeOK

\* The state file, the order and the bounds on the world: SpotTyped has the rest.
SpotStates == [buy : Buys \cup {0}, life : Inventory!Lives, owned : Nat]
SpotOrders == [side : {"none", "deploy", "sale"}, buy : Buys \cup {0}, input : Nat, pre : Nat]
SpotShape ==
  /\ i_state \in SpotStates /\ i_order \in SpotOrders
  /\ i_moves \in 0..MaxMoves /\ i_crashes \in 0..MaxCrashes

LEMMA SpotShapes ==
  ASSUME SpotInv, SpotShape, [Inventory!Next]_inventoryVars PROVE SpotShape'
<1>1. /\ MaxMoves \in Nat /\ MaxCrashes \in Nat BY CompAssumption DEF Inventory!SpotAssumption
<1>2. /\ i_record \in [Buys -> [life : Inventory!Lives, owned : Nat]] /\ i_seen \in Nat
  BY DEF SpotInv, SpotTyped
<1>3. Inventory!Closed \in SpotStates BY DEF Inventory!Closed, SpotStates, Inventory!Lives
<1>4. \A b \in Buys : Inventory!StateOf(b) \in SpotStates
  <2> SUFFICES ASSUME NEW b \in Buys PROVE Inventory!StateOf(b) \in SpotStates OBVIOUS
  <2>1. i_record[b].life \in Inventory!Lives /\ i_record[b].owned \in Nat BY <1>2
  <2> QED BY <1>3, <2>1 DEF Inventory!StateOf, SpotStates
<1>5. CASE Inventory!OwnerMoves
  BY <1>1, <1>5 DEF Inventory!OwnerMoves, SpotShape, Inventory!books
<1>6. CASE Inventory!Lands \/ Inventory!Fails \/ Inventory!Send \/ Inventory!TakeAnswer
  BY <1>6 DEF Inventory!Lands, Inventory!Fails, Inventory!Send, Inventory!TakeAnswer, SpotShape,
     Inventory!books, Inventory!counts
<1>7. CASE Inventory!Refuse
  BY <1>7 DEF Inventory!Refuse, SpotShape, Inventory!books, Inventory!counts
<1>8. CASE Inventory!RecoverDeploy \/ Inventory!RecoverSale \/ Inventory!RecoverFailed
  BY <1>8 DEF Inventory!RecoverDeploy, Inventory!RecoverSale, Inventory!RecoverFailed, SpotShape,
     Inventory!books, Inventory!counts
<1>9. CASE Inventory!WriteRecovered
  <2>1. i_order.buy \in Buys
    BY <1>9 DEF SpotInv, Inventory!WriteRecovered, PlaceInv, UnderInv, Under, DeployInv, SaleInv
  <2> QED BY <1>4, <1>9, <2>1 DEF Inventory!WriteRecovered, SpotShape, Inventory!counts
<1>10. CASE Inventory!ReadAccount
  BY <1>3, <1>10 DEF Inventory!ReadAccount, SpotShape, Inventory!counts
<1>11. ASSUME NEW b \in Buys, Inventory!Deploy(b) PROVE SpotShape'
  <2>1. [side |-> "deploy", buy |-> b, input |-> 0, pre |-> i_seen] \in SpotOrders
    BY <1>2 DEF SpotOrders
  <2> QED BY <1>11, <2>1 DEF Inventory!Deploy, SpotShape, Inventory!books, Inventory!counts
<1>12. CASE Inventory!Sell
  <2>1. i_state.buy \in Buys \cup {0} /\ i_state.owned \in Nat BY DEF SpotShape, SpotStates
  <2>2. [side |-> "sale", buy |-> i_state.buy, input |-> i_state.owned, pre |-> i_seen] \in SpotOrders
    BY <1>2, <2>1 DEF SpotOrders
  <2> QED BY <1>12, <2>2 DEF Inventory!Sell, SpotShape, Inventory!books, Inventory!counts
<1>13. CASE Inventory!Holds \/ Inventory!BookResult
  BY <1>13 DEF Inventory!Holds, Inventory!BookResult, SpotShape, Inventory!counts
<1>14. CASE Inventory!WriteState
  <2>1. i_state' \in {Inventory!StateOf(b) : b \in Buys} \cup {Inventory!Closed}
    BY <1>14 DEF Inventory!WriteState, Inventory!Awaited, Inventory!Selectable, Inventory!Lapsing
  <2>2. i_state' \in SpotStates BY <1>3, <1>4, <2>1
  <2> QED BY <1>14, <2>2 DEF Inventory!WriteState, SpotShape, Inventory!counts
<1>15. CASE Inventory!Clear
  BY <1>15 DEF Inventory!Clear, SpotShape, Inventory!books, Inventory!counts
<1>16. CASE Inventory!Crash
  BY <1>1, <1>16 DEF Inventory!Crash, SpotShape, Inventory!books
<1>17. CASE UNCHANGED inventoryVars BY <1>17 DEF inventoryVars, SpotShape
<1> QED BY <1>5, <1>6, <1>7, <1>8, <1>9, <1>10, <1>11, <1>12, <1>13, <1>14, <1>15, <1>16, <1>17 DEF Inventory!Next

LEMMA SpotShapesFirst == ASSUME Inventory!Init PROVE SpotShape
<1>1. MaxMoves \in Nat /\ MaxCrashes \in Nat BY CompAssumption DEF Inventory!SpotAssumption
<1> QED BY <1>1 DEF Inventory!Init, SpotShape, SpotStates, SpotOrders, Inventory!Closed, Inventory!NoOrder,
      Inventory!Lives

LEMMA SpotTypeOK == ASSUME SpotInv, SpotShape PROVE Inventory!SpotTypeOK
BY DEF SpotInv, SpotTyped, SpotShape, SpotStates, SpotOrders, Inventory!SpotTypeOK

LEMMA TokensTypes == Owned!TokensTypeOK => Tokens!TokensTypeOK
BY OwnedMeans DEF Owned!TokensTypeOK, Tokens!TokensTypeOK, Owned!OrdersOf, Tokens!OrdersOf, Owned!None, Tokens!None,
   Owned!Reports, Tokens!Reports

\* The invariant of the components whose types it takes to prove.
TypedParts ==
  /\ LimitsInv /\ RpcFits /\ ModesInv /\ PoolInv /\ SpotInv /\ SpotShape
  /\ \A on \in BOOLEAN : part = CyclePart(on) => CycleTyped(on)

LEMMA TypedPartsFirst == CompInit => TypedParts /\ Tokens!Init
<1> SUFFICES ASSUME CompInit PROVE TypedParts /\ Tokens!Init OBVIOUS
<1>1. Inventory!Init
  <2>1. CASE part = "inventory" BY <2>1 DEF CompInit
  <2>2. CASE part # "inventory" BY <2>2 DEF CompInit
  <2> QED BY <2>1, <2>2
<1>2. Tokens!Init
  <2>1. CASE part = "tokens" BY <2>1 DEF CompInit
  <2>2. CASE part # "tokens" BY <2>2 DEF CompInit
  <2> QED BY <2>1, <2>2
<1>3. Modes!Init
  <2>1. CASE part = "modes" BY <2>1 DEF CompInit
  <2>2. CASE part # "modes" BY <2>2 DEF CompInit
  <2> QED BY <2>1, <2>2
<1>4. \A on \in BOOLEAN : part = CyclePart(on) => Cycle(on)!Init BY DEF CompInit, CyclePart
<1>5. Init /\ Rpc!Init /\ Pool!Init BY DEF CompInit
<1>6. LimitsInv BY <1>5, LimitsStart
<1> QED BY <1>1, <1>2, <1>3, <1>4, <1>5, <1>6, RpcFitsFirst, ModesStart, PoolStarts, SpotStarts, SpotShapesFirst,
     CycleTypedFirst DEF TypedParts

LEMMA TypedPartsStay == ASSUME TypedParts, [CompNext]_all PROVE TypedParts'
<1>1. LimitsInv'
  <2>1. [Next]_vars BY DEF CompNext, Rests, all, componentVars, limitVars, But_e, But_d, But_c, But_p, But_t, But_i
  <2> QED BY <2>1, LimitsStep DEF TypedParts
<1>2. RpcFits' BY OthersStutter, RpcFitsStays DEF TypedParts
<1>3. ModesInv' BY OthersStutter, ModesKeep DEF TypedParts
<1>4. PoolInv' BY OthersStutter, PoolStep DEF TypedParts
<1>5. SpotInv' /\ SpotShape' BY OthersStutter, SpotSteps, SpotShapes DEF TypedParts
<1>6. ASSUME NEW on \in BOOLEAN, part' = CyclePart(on) PROVE CycleTyped(on)'
  <2>1. part = CyclePart(on) BY <1>6, OthersStutter
  <2>2. CycleTyped(on) BY <2>1 DEF TypedParts
  <2>3. [Cycle(on)!Next]_cycleVars BY <2>1, OthersStutter DEF CyclePart
  <2> QED BY <2>2, <2>3, CycleShapes
<1> QED BY <1>1, <1>2, <1>3, <1>4, <1>5, <1>6 DEF TypedParts

\* Every component keeps the types of its state, so that no counter passes the bound the code
\* gives it: an RPC endpoint's back-off and calls, the failures counted by the health report, the
\* totals of the spending limits, the queue and the health of the mirror, the stamps of the rate
\* limiter and what the ledger, the inventory and the cycle say of a position.
THEOREM ComponentsTyped == CompSpec => []CompTypeOK
<1>1. CompSpec => []RecordsTypeOK BY RecordsWithin, RecordsTyped, PTL
<1>2. CompSpec => []Tokens!TokensTypeOK
  <2>1. Owned!Spec => []Owned!TokensTypeOK
    <3>1. Tokens!OwnedTokensAssumption BY CompAssumption
    <3>2. Owned!OwnedTokensAssumption BY <3>1 DEF Owned!OwnedTokensAssumption, Tokens!OwnedTokensAssumption
    <3>3. {} = {} OBVIOUS
    <3> QED BY <3>2, <3>3, Owned!TokensTyped
  <2>2. [CompNext]_all => [Tokens!Next]_tokenVars BY OthersStutter
  <2> QED BY <2>1, <2>2, TypedPartsFirst, TokensTypes, TokensMean, PTL DEF CompSpec, Owned!Spec
<1>3. CompSpec => []TypedParts BY TypedPartsFirst, TypedPartsStay, PTL DEF CompSpec
<1>4. ASSUME TypedParts, Tokens!TokensTypeOK, RecordsTypeOK PROVE CompTypeOK
  <2>1. CASE part = "limits" BY <1>4, <2>1 DEF CompTypeOK, TypedParts, LimitsInv
  <2>2. CASE part = "rpc" BY <1>4, <2>2, RpcTyped DEF CompTypeOK, TypedParts
  <2>3. CASE part = "modes" BY <1>4, <2>3, ModesTyped DEF CompTypeOK, TypedParts
  <2>4. CASE part \in {"cycle", "spot"}
    <3>1. PICK on \in BOOLEAN : part = CyclePart(on) BY <2>4 DEF CyclePart
    <3>2. Cycle(TRUE)!TypeOK BY <1>4, <3>1, CycleTypeOK DEF TypedParts
    <3> QED BY <2>4, <3>2 DEF CompTypeOK
  <2>5. CASE part = "pool" BY <1>4, <2>5 DEF CompTypeOK, TypedParts, PoolInv
  <2>6. CASE part = "tokens" BY <1>4, <2>6 DEF CompTypeOK
  <2>7. CASE part = "inventory" BY <1>4, <2>7, SpotTypeOK DEF CompTypeOK, TypedParts
  <2>8. CASE part \notin {"limits", "rpc", "modes", "cycle", "spot", "pool", "tokens", "inventory"}
    BY <1>4, <2>8 DEF CompTypeOK
  <2> QED BY <2>1, <2>2, <2>3, <2>4, <2>5, <2>6, <2>7, <2>8
<1> QED BY <1>1, <1>2, <1>3, <1>4, PTL
=============================================================================
