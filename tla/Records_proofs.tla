-------------------------- MODULE Records_proofs --------------------------
(***************************************************************************)
(* Proofs about the components of MCRecords, whatever the values of their  *)
(* constants.  A behaviour of MCRecords is for each component one of its   *)
(* own specification, so that what is proved of the component alone is a   *)
(* theorem about RecordsSpec too.                                          *)
(***************************************************************************)
EXTENDS MCRecords, Sequences, Sums_proofs

\* RecordsAssumption, one component at a time.
LEMMA RecordConstants ==
  /\ Mirror!MirrorAssumption /\ Limiter!LimiterAssumption
  /\ \A w \in Ledgers : Book(w)!BookAssumption
BY RecordsAssumption

\* The steps of another component are not a component's own.
LEMMA RecordsStutter ==
  ASSUME [RecordsNext]_records
  PROVE /\ [Mirror!Next]_mirrorVars
        /\ [Limiter!Next]_limiterVars
        /\ [\E w \in Ledgers : part = w /\ Book(w)!Next]_bookVars
        /\ [\E w \in Markets : part = w /\ Pass(w)!Select]_passVars
        /\ UNCHANGED part
<1>1. CASE UNCHANGED records
  BY <1>1 DEF records
<1>2. CASE RecordsNext
  BY <1>2 DEF RecordsNext, RecordsRest, records
<1> QED BY <1>1, <1>2

\* The elements of a sequence.
LEMMA ItemsOf ==
  ASSUME NEW S, NEW s \in Seq(S)
  PROVE Len(s) \in Nat /\ DOMAIN s = 1..Len(s) /\ \A i \in 1..Len(s) : s[i] \in S
OBVIOUS

-----------------------------------------------------------------------------
(* IngestSelection.                                                        *)

\* What the pass may be about, as the properties ask of it.
Fit(w, c) ==
  \/ c = Pass(w)!Nothing
  \/ \E p \in PoolsIn[w] : c = Pass(w)!Maintain(p) /\ s_lp[p] # "foreign"
  \/ \E p \in PoolsIn[w], held \in BOOLEAN :
       /\ c = Pass(w)!Candidate(p, held) /\ s_lp[p] # "foreign"
       /\ ~held => ~Pass(w)!Full /\ p \notin s_cooled
                    /\ MintOf[w][p] \notin {s_lastClosed} \cup s_tokens \cup Pass(w)!LpMints
SelectionInv(w) == Fit(w, s_context)

LEMMA MaintainedIsOurs ==
  ASSUME NEW w, NEW p \in PoolsIn[w], s_lp[p] = "ours" PROVE Fit(w, Pass(w)!Maintain(p))
BY DEF Fit

LEMMA FromDatabaseFits ==
  ASSUME NEW w, NEW c \in Pass(w)!FromDatabase PROVE Fit(w, c)
<1>1. CASE c = Pass(w)!Nothing BY <1>1 DEF Fit
<1>2. CASE c # Pass(w)!Nothing
  <2>1. ~Pass(w)!Full BY <1>2 DEF Pass!FromDatabase
  <2>2. PICK p \in PoolsIn[w] : /\ c = Pass(w)!Candidate(p, FALSE)
                             /\ MintOf[w][p] \notin Pass(w)!ExcludedMints /\ p \notin s_cooled
    BY <1>2, <2>1 DEF Pass!FromDatabase, Pass!OrNothing
  <2>3. MintOf[w][p] \notin {s_lastClosed} \cup s_tokens \cup Pass(w)!LpMints
    BY <2>2 DEF Pass!ExcludedMints
  <2>4. s_lp[p] # "foreign" BY <2>3 DEF Pass!LpMints, Pass!WithLp
  <2> QED BY <2>1, <2>2, <2>3, <2>4 DEF Fit
<1> QED BY <1>1, <1>2

LEMMA FromMeteoraFits ==
  ASSUME NEW w, NEW mode \in Pass(w)!Modes, NEW c \in Pass(w)!FromMeteora(mode)
  PROVE Fit(w, c)
<1>1. CASE mode # "new-open-only" /\ Pass(w)!MetMaintenance # {}
  <2>1. PICK p \in Pass(w)!MetMaintenance : c = Pass(w)!Maintain(p)
    BY <1>1 DEF Pass!FromMeteora
  <2>2. p \in Pass(w)!Owned BY <2>1 DEF Pass!MetMaintenance
  <2> QED BY <2>1, <2>2, MaintainedIsOurs DEF Pass!Owned
<1>2. CASE ~(mode # "new-open-only" /\ Pass(w)!MetMaintenance # {}) /\ c # Pass(w)!Nothing
  <2> DEFINE met == {p \in PoolsIn[w] : s_quality[p] # "absent"} \ Pass(w)!Occupied
             asked == IF mode = "new-open-only"
                      THEN {p \in met : ~Pass(w)!Held(p) /\ MintOf[w][p] \notin Pass(w)!ExcludedMints}
                      ELSE met
             rested == {p \in Pass(w)!SafetyFilter(asked) :
                          Pass(w)!Held(p) \/ (MintOf[w][p] # s_lastClosed /\ p \notin s_cooled)}
             able == {p \in rested : Pass(w)!Held(p) \/ ~Pass(w)!Full}
             first == {p \in able : Pass(w)!Held(p)}
             found == {Pass(w)!Candidate(p, Pass(w)!Held(p)) :
                         p \in IF first = {} THEN able ELSE first}
  <2>1. c \in Pass(w)!OrNothing(found) BY <1>2 DEF Pass!FromMeteora
  <2>2. PICK p \in able : c = Pass(w)!Candidate(p, Pass(w)!Held(p))
    BY <1>2, <2>1 DEF Pass!OrNothing
  <2>3. p \in Pass(w)!SafetyFilter(asked)
        /\ (Pass(w)!Held(p) \/ (MintOf[w][p] # s_lastClosed /\ p \notin s_cooled /\ ~Pass(w)!Full))
    BY <2>2
  <2>4. Pass(w)!SafetyFilter(asked) \subseteq asked BY DEF Pass!SafetyFilter
  <2>5. p \in PoolsIn[w] /\ p \notin Pass(w)!WithLp BY <2>3, <2>4 DEF Pass!Occupied
  <2>6. s_lp[p] # "foreign" BY <2>5 DEF Pass!WithLp
  <2>7. ~Pass(w)!Held(p) => MintOf[w][p] \notin s_tokens \cup Pass(w)!LpMints BY DEF Pass!Held
  <2>8. Pass(w)!Held(p) \in BOOLEAN BY DEF Pass!Held
  <2> HIDE DEF able, Pass!Candidate
  <2> QED BY <2>2, <2>3, <2>5, <2>6, <2>7, <2>8 DEF Fit
<1> QED BY <1>1, <1>2 DEF Fit

LEMMA ChoicesFit ==
  ASSUME NEW w, NEW mode \in Pass(w)!Modes, NEW source \in Pass(w)!Sources,
         NEW deep \in BOOLEAN, NEW c \in Pass(w)!Choices(mode, source, deep)
  PROVE Fit(w, c)
<1>1. CASE c = Pass(w)!Nothing BY <1>1 DEF Fit
<1>2. CASE c \in {Pass(w)!Maintain(p) : p \in Pass(w)!Owned}
  BY <1>2, MaintainedIsOurs DEF Pass!Owned
<1>3. CASE c \in Pass(w)!FromDatabase BY <1>3, FromDatabaseFits
<1>4. CASE c \in Pass(w)!FromMeteora(mode) BY <1>4, FromMeteoraFits
<1>5. Pass(w)!AccountBacked \subseteq Pass(w)!Owned BY DEF Pass!AccountBacked
<1> QED BY <1>1, <1>2, <1>3, <1>4, <1>5 DEF Pass!Choices

LEMMA SelectKeeps ==
  ASSUME NEW w, Pass(w)!Select PROVE SelectionInv(w)'
<1>1. Fit(w, s_context')
  BY ChoicesFit DEF Pass!Select
<1> QED BY <1>1 DEF Pass!Select, Pass!inputs, SelectionInv, Fit,
     Pass!Full, Pass!WithLp, Pass!LpMints

LEMMA InvIsOurs ==
  ASSUME NEW w, SelectionInv(w)
  PROVE Pass(w)!ForeignIsNoTarget /\ Pass(w)!EntryIsNew
BY DEF SelectionInv, Fit, Pass!ForeignIsNoTarget, Pass!EntryIsNew,
   Pass!Nothing, Pass!Maintain, Pass!Candidate

\* What a pass is about is not a foreign LP, and an entry is a new one, in every market and
\* for every answer of its sources (buildLiveCycleInputFromIngest).
THEOREM EntriesAreOurs == RecordsSpec => []EntryIsOurs
<1> DEFINE Inv == \A w \in Markets : part = w => SelectionInv(w)
<1>1. ASSUME RecordsInit PROVE Inv
  <2> SUFFICES ASSUME NEW w \in Markets, part = w PROVE SelectionInv(w) OBVIOUS
  <2>1. Pass(w)!Init BY <1>1 DEF RecordsInit
  <2> QED BY <2>1 DEF Pass!Init, SelectionInv, Fit
<1>2. ASSUME Inv, [RecordsNext]_records PROVE Inv'
  <2> SUFFICES ASSUME NEW w \in Markets, part' = w PROVE SelectionInv(w)' OBVIOUS
  <2>1. part = w BY <1>2, RecordsStutter
  <2>2. CASE Pass(w)!Select BY <2>2, SelectKeeps
  <2>3. CASE UNCHANGED passVars
    BY <1>2, <2>1, <2>3 DEF passVars, SelectionInv, Fit, Pass!Full, Pass!WithLp, Pass!LpMints
  <2> QED BY <1>2, <2>1, <2>2, <2>3, RecordsStutter
<1>3. Inv => EntryIsOurs BY InvIsOurs DEF EntryIsOurs
<1> HIDE DEF Inv
<1> QED BY <1>1, <1>2, <1>3, PTL DEF RecordsSpec

-----------------------------------------------------------------------------
(* RateLimiter.                                                            *)

\* Ages, oldest first.
OldestFirst(ages) ==
  /\ ages \in Seq(0..Window)
  /\ \A i, j \in 1..Len(ages) : i < j => ages[i] >= ages[j]
\* tail is what of the ages is inside the window.
IsRest(ages, tail) ==
  \E n \in 0..Len(ages) :
    /\ \A i \in 1..n : ages[i] = Window
    /\ \A i \in n + 1..Len(ages) : ages[i] < Window
    /\ Len(tail) = Len(ages) - n /\ \A i \in 1..Len(tail) : tail[i] = ages[i + n]

PlaceStates ==
  [at : {"idle", "locking", "removing", "inside", "unlocking", "full", "asleep"},
   read : Seq(0..Window), wait : 0..Window]

\* Without a death the lock is its owner's alone and never looks stale.
LockIsKept ==
  /\ \A p \in Workers : (Limiter!Holds(p) <=> r_owner = p) /\ r_worker[p].at # "removing"
  /\ r_owner # Limiter!None => r_lockAge <= LockTimeout
\* Then the file lists the requests of the window, and there are no more than the quota.
FileIsTrue ==
  /\ \A p \in Workers : r_worker[p].at = "inside" => r_worker[p].read = r_granted
  /\ IsRest(r_stamps, r_granted) /\ Len(r_granted) <= Capacity

Undisturbed ==
  /\ r_lockAge \in Nat /\ r_owner \in Workers \cup {Limiter!None}
     /\ r_worker \in [Workers -> PlaceStates]
  /\ OldestFirst(r_stamps) /\ OldestFirst(r_granted)
  /\ LockIsKept /\ FileIsTrue
LimiterInv == r_crashes \in Nat /\ (r_crashes = 0 => Undisturbed)

LEMMA LimiterConstants ==
  /\ Capacity \in Nat /\ Capacity > 0 /\ Window \in Nat /\ Window > 0
  /\ LockTimeout \in Nat /\ MaxCrashes \in Nat
  /\ Limiter!None \notin Workers
BY RecordConstants DEF Limiter!LimiterAssumption

\* The numbers up to one of them.
LEMMA CountedUp == ASSUME NEW n \in Nat PROVE Limiter!Cardinality(1..n) = n
<1>1. Cardinality(1..n) = IF 1 > n THEN 0 ELSE n - 1 + 1 BY FS_Interval
<1>2. Cardinality(1..n) = Limiter!Cardinality(1..n) BY DEF Cardinality, Limiter!Cardinality
<1> QED BY <1>1, <1>2

\* Oldest first, those that have left the window are in front.
LEMMA PrunedIsRest ==
  ASSUME NEW ages, OldestFirst(ages)
  PROVE IsRest(ages, Limiter!Pruned(ages)) /\ OldestFirst(Limiter!Pruned(ages))
<1> DEFINE old == {i \in DOMAIN ages : ages[i] >= Window}
           len == Len(ages)
<1>1. len \in Nat /\ DOMAIN ages = 1..len /\ \A i \in 1..len : ages[i] \in 0..Window
  BY ItemsOf DEF OldestFirst
<1>2. PICK n \in 0..len : old = 1..n
  <2>1. CASE old = {} BY <2>1, <1>1
  <2>2. CASE old # {}
    <3> DEFINE back == {len - i : i \in old}
    <3>1. back \in SUBSET Nat /\ back # {} BY <2>2, <1>1
    <3>2. PICK b \in back : \A c \in back : b <= c
      <4> HIDE DEF back
      <4> QED BY <3>1, LeastNumber
    <3>3. PICK m \in old : b = len - m OBVIOUS
    <3>4. \A i \in old : i <= m
      <4> TAKE i \in old
      <4>1. len - m <= len - i BY <3>2, <3>3
      <4> QED BY <4>1, <1>1
    <3>5. \A i \in 1..m : i \in old BY <3>3, <1>1, LimiterConstants DEF OldestFirst
    <3>6. old = 1..m BY <3>4, <3>5, <1>1
    <3>7. m \in 0..len BY <1>1
    <3> HIDE DEF old
    <3> QED BY <3>6, <3>7
  <2> QED BY <2>1, <2>2
<1>3. Limiter!Cardinality(old) = n
  <2>1. n \in Nat BY <1>1
  <2> HIDE DEF old
  <2> QED BY <1>2, <2>1, CountedUp
<1>4. Limiter!Pruned(ages) = SubSeq(ages, n + 1, len) BY <1>3, Zenon DEF Limiter!Pruned
<1>5. Len(Limiter!Pruned(ages)) = len - n /\ \A i \in 1..len - n : Limiter!Pruned(ages)[i] = ages[i + n]
  <2> HIDE DEF old, len
  <2> DEFINE rest == SubSeq(ages, n + 1, len)
  <2>1. rest = [i \in 1..len - n |-> ages[i + n]]
    BY <1>1 DEF OldestFirst, len
  <2> QED BY <1>1, <1>4, <2>1
<1>6. Limiter!Pruned(ages) \in Seq(0..Window) BY <1>1, <1>4 DEF OldestFirst
<1>7. (\A i \in 1..n : ages[i] = Window) /\ \A i \in n + 1..len : ages[i] < Window
  <2>1. \A i \in 1..len : i \in 1..n <=> ages[i] >= Window BY <1>1, <1>2
  <2>2. \A i \in 1..n : i \in 1..len BY <1>1
  <2>3. \A i \in n + 1..len : i \in 1..len /\ i \notin 1..n BY <1>1
  <2> HIDE DEF old, len
  <2> QED BY <2>1, <2>2, <2>3, <1>1, LimiterConstants
<1>8. IsRest(ages, Limiter!Pruned(ages)) BY <1>5, <1>7 DEF IsRest
<1>9. OldestFirst(Limiter!Pruned(ages)) BY <1>1, <1>5, <1>6 DEF OldestFirst
<1> QED BY <1>8, <1>9

\* There is one such tail.
LEMMA OneRest ==
  ASSUME NEW ages, OldestFirst(ages), NEW s \in Seq(0..Window), NEW t \in Seq(0..Window),
         IsRest(ages, s), IsRest(ages, t)
  PROVE s = t
<1>1. PICK n \in 0..Len(ages) :
        /\ \A i \in 1..n : ages[i] = Window
        /\ \A i \in n + 1..Len(ages) : ages[i] < Window
        /\ Len(s) = Len(ages) - n /\ \A i \in 1..Len(s) : s[i] = ages[i + n]
  BY DEF IsRest
<1>2. PICK m \in 0..Len(ages) :
        /\ \A i \in 1..m : ages[i] = Window
        /\ \A i \in m + 1..Len(ages) : ages[i] < Window
        /\ Len(t) = Len(ages) - m /\ \A i \in 1..Len(t) : t[i] = ages[i + m]
  BY DEF IsRest
<1>3. Len(ages) \in Nat BY DEF OldestFirst
<1>4. ~ n < m
  <2> SUFFICES ASSUME n < m PROVE FALSE OBVIOUS
  <2>1. m \in 1..m /\ m \in n + 1..Len(ages) BY <1>3
  <2> QED BY <2>1, <1>1, <1>2, LimiterConstants
<1>5. ~ m < n
  <2> SUFFICES ASSUME m < n PROVE FALSE OBVIOUS
  <2>1. n \in 1..n /\ n \in m + 1..Len(ages) BY <1>3
  <2> QED BY <2>1, <1>1, <1>2, LimiterConstants
<1>6. n = m BY <1>3, <1>4, <1>5
<1> QED BY <1>1, <1>2, <1>6

\* What is inside the window stays as it is.
LEMMA RestOfRest ==
  ASSUME NEW ages, OldestFirst(ages), NEW s \in Seq(0..Window), IsRest(ages, s)
  PROVE IsRest(s, s) /\ OldestFirst(s)
<1>1. PICK n \in 0..Len(ages) :
        /\ \A i \in n + 1..Len(ages) : ages[i] < Window
        /\ Len(s) = Len(ages) - n /\ \A i \in 1..Len(s) : s[i] = ages[i + n]
  BY DEF IsRest
<1>2. Len(ages) \in Nat /\ Len(s) \in Nat BY DEF OldestFirst
<1>3. \A i \in 1..Len(s) : i + n \in n + 1..Len(ages) /\ i + n \in 1..Len(ages) BY <1>1, <1>2
<1>4. \A i \in 1..Len(s) : s[i] < Window BY <1>1, <1>3
<1>5. IsRest(s, s)
  <2>1. Len(s) = Len(s) - 0 /\ \A i \in 1..Len(s) : s[i] = s[i + 0] BY <1>2
  <2>2. \A i \in 1..0 : s[i] = Window OBVIOUS
  <2>3. 0 \in 0..Len(s) /\ \A i \in 0 + 1..Len(s) : s[i] < Window BY <1>2, <1>4
  <2> QED BY <2>1, <2>2, <2>3 DEF IsRest
<1>6. OldestFirst(s)
  <2> SUFFICES ASSUME NEW i \in 1..Len(s), NEW j \in 1..Len(s), i < j PROVE s[i] >= s[j]
    BY DEF OldestFirst
  <2>1. ages[i + n] >= ages[j + n] BY <1>1, <1>2, <1>3 DEF OldestFirst
  <2> QED BY <1>1, <2>1
<1> QED BY <1>5, <1>6

\* A new request is the youngest.
LEMMA NewestLast ==
  ASSUME NEW s, OldestFirst(s), IsRest(s, s)
  PROVE OldestFirst(Append(s, 0)) /\ IsRest(Append(s, 0), Append(s, 0))
<1> DEFINE t == Append(s, 0)
<1>1. Len(s) \in Nat /\ \A i \in 1..Len(s) : s[i] \in 0..Window BY ItemsOf DEF OldestFirst
<1>2. /\ t \in Seq(0..Window) /\ Len(t) = Len(s) + 1 /\ t[Len(s) + 1] = 0
      /\ \A i \in 1..Len(s) : t[i] = s[i]
  BY LimiterConstants DEF OldestFirst
<1>3. \A i \in 1..Len(s) : s[i] < Window BY <1>1 DEF IsRest
<1>4. \A i \in 1..Len(t) : t[i] < Window BY <1>1, <1>2, <1>3, LimiterConstants
<1> HIDE DEF t
<1>5. IsRest(t, t) BY <1>2, <1>4 DEF IsRest
<1>6. OldestFirst(t)
  <2> SUFFICES ASSUME NEW i \in 1..Len(t), NEW j \in 1..Len(t), i < j PROVE t[i] >= t[j]
    BY <1>2 DEF OldestFirst
  <2>1. i \in 1..Len(s) /\ t[i] = s[i] /\ s[i] >= 0 BY <1>1, <1>2
  <2>2. CASE j = Len(s) + 1 BY <2>1, <2>2, <1>2
  <2>3. CASE j # Len(s) + 1
    <3>1. j \in 1..Len(s) BY <2>3, <1>1, <1>2
    <3> QED BY <3>1, <2>1, <1>2 DEF OldestFirst
  <2> QED BY <2>2, <2>3
<1> QED BY <1>5, <1>6 DEF t

\* Everything grows older by one.
LEMMA OlderAges ==
  ASSUME NEW s \in Seq(0..Window)
  PROVE /\ Limiter!Older(s) \in Seq(0..Window) /\ Len(Limiter!Older(s)) = Len(s)
        /\ \A i \in 1..Len(s) : Limiter!Older(s)[i] = IF s[i] < Window THEN s[i] + 1 ELSE Window
<1>1. Len(s) \in Nat /\ DOMAIN s = 1..Len(s) /\ \A i \in 1..Len(s) : s[i] \in 0..Window
  BY ItemsOf
<1>2. ASSUME NEW a \in 0..Window
      PROVE Limiter!Min({a + 1, Window}) = IF a < Window THEN a + 1 ELSE Window
  <2>1. {a + 1, Window} \in SUBSET Nat BY LimiterConstants
  <2>2. Limiter!Min({a + 1, Window}) \in {a + 1, Window}
        /\ \A n \in {a + 1, Window} : Limiter!Min({a + 1, Window}) <= n
    BY <2>1, LeastNumber DEF Limiter!Min
  <2> QED BY <2>2, LimiterConstants
<1>3. \A i \in 1..Len(s) : Limiter!Older(s)[i] = IF s[i] < Window THEN s[i] + 1 ELSE Window
  BY <1>1, <1>2 DEF Limiter!Older
<1>4. Limiter!Older(s) = [i \in 1..Len(s) |-> IF s[i] < Window THEN s[i] + 1 ELSE Window]
  BY <1>1, <1>2 DEF Limiter!Older
<1>5. Limiter!Older(s) \in Seq(0..Window) /\ Len(Limiter!Older(s)) = Len(s)
  BY <1>1, <1>4, LimiterConstants
<1> QED BY <1>3, <1>5

LEMMA OlderInOrder == ASSUME NEW s, OldestFirst(s) PROVE OldestFirst(Limiter!Older(s))
<1>1. s \in Seq(0..Window) BY DEF OldestFirst
<1>2. Len(s) \in Nat /\ \A i \in 1..Len(s) : s[i] \in 0..Window BY <1>1, ItemsOf
<1>3. Limiter!Older(s) \in Seq(0..Window) /\ Len(Limiter!Older(s)) = Len(s) BY <1>1, OlderAges
<1>4. \A i \in 1..Len(s) : Limiter!Older(s)[i] = IF s[i] < Window THEN s[i] + 1 ELSE Window
  BY <1>1, OlderAges
<1>5. \A i, j \in 1..Len(s) : i < j => s[i] >= s[j] BY DEF OldestFirst
<1>6. \A i, j \in 1..Len(s) : i < j => Limiter!Older(s)[i] >= Limiter!Older(s)[j]
  BY <1>2, <1>4, <1>5, LimiterConstants
<1> QED BY <1>3, <1>6 DEF OldestFirst

\* It does not matter whether what has left the window is dropped before time passes.
LEMMA RestGrowsOld ==
  ASSUME NEW s, NEW t, OldestFirst(s), OldestFirst(t), IsRest(s, t)
  PROVE IsRest(Limiter!Older(s),
          Limiter!Pruned(Limiter!Older(t))) /\ OldestFirst(Limiter!Pruned(Limiter!Older(t)))
<1> DEFINE u == Limiter!Pruned(Limiter!Older(t))
<1>1. s \in Seq(0..Window) /\ t \in Seq(0..Window) BY DEF OldestFirst
<1>2. OldestFirst(Limiter!Older(t)) BY OlderInOrder
<1>3. IsRest(Limiter!Older(t), u) /\ OldestFirst(u) BY <1>2, PrunedIsRest
<1>4. PICK n \in 0..Len(s) :
        /\ \A i \in 1..n : s[i] = Window
        /\ Len(t) = Len(s) - n /\ \A i \in 1..Len(t) : t[i] = s[i + n]
  BY DEF IsRest
<1>5. PICK m \in 0..Len(t) :
        /\ \A i \in 1..m : Limiter!Older(t)[i] = Window
        /\ \A i \in m + 1..Len(t) : Limiter!Older(t)[i] < Window
        /\ Len(u) = Len(t) - m /\ \A i \in 1..Len(u) : u[i] = Limiter!Older(t)[i + m]
  BY <1>1, <1>3, OlderAges DEF IsRest
<1> HIDE DEF u
<1>6. Len(s) \in Nat /\ Len(t) \in Nat /\ n \in Nat /\ m \in Nat /\ n + m \in 0..Len(s)
  BY <1>1, <1>4, <1>5
<1> DEFINE Aged(a) == IF a < Window THEN a + 1 ELSE Window
<1>12. (\A i \in 1..Len(s) : Limiter!Older(s)[i] = Aged(s[i]))
       /\ \A i \in 1..Len(t) : Limiter!Older(t)[i] = Aged(t[i])
  BY <1>1, OlderAges
<1>7. \A i \in 1..Len(t) : Limiter!Older(t)[i] = Limiter!Older(s)[i + n]
  <2> TAKE i \in 1..Len(t)
  <2>1. i + n \in 1..Len(s) /\ t[i] = s[i + n] BY <1>4, <1>6
  <2> HIDE DEF Aged
  <2> QED BY <2>1, <1>12
<1>8. \A i \in 1..n + m : Limiter!Older(s)[i] = Window
  <2> TAKE i \in 1..n + m
  <2>1. CASE i <= n
    <3>1. i \in 1..n /\ i \in 1..Len(s) BY <2>1, <1>6
    <3> QED BY <3>1, <1>4, <1>12, LimiterConstants
  <2>2. CASE i > n
    <3>1. i - n \in 1..m /\ i - n \in 1..Len(t) /\ (i - n) + n = i BY <2>2, <1>5, <1>6
    <3> QED BY <3>1, <1>5, <1>7
  <2> QED BY <2>1, <2>2, <1>6
<1>9. \A i \in n + m + 1..Len(s) : Limiter!Older(s)[i] < Window
  <2> TAKE i \in n + m + 1..Len(s)
  <2>1. i - n \in m + 1..Len(t) /\ i - n \in 1..Len(t) /\ (i - n) + n = i BY <1>4, <1>6
  <2> QED BY <2>1, <1>5, <1>7
<1>10. Len(u) = Len(s) - (n + m) /\ \A i \in 1..Len(u) : u[i] = Limiter!Older(s)[i + (n + m)]
  <2>1. \A i \in 1..Len(u) : i + m \in 1..Len(t) /\ i + (n + m) = (i + m) + n BY <1>5, <1>6
  <2> QED BY <2>1, <1>4, <1>5, <1>6, <1>7
<1>11. IsRest(Limiter!Older(s), u)
  BY <1>1, <1>6, <1>8, <1>9, <1>10, OlderAges DEF IsRest
<1> QED BY <1>3, <1>11 DEF u

LEMMA LimiterStarts == Limiter!Init => LimiterInv
<1> SUFFICES ASSUME Limiter!Init PROVE LimiterInv OBVIOUS
<1>1. OldestFirst(<<>>) BY DEF OldestFirst
<1>2. IsRest(<<>>, <<>>) BY DEF IsRest
<1>3. Limiter!Idle \in PlaceStates BY LimiterConstants DEF Limiter!Idle, Limiter!At, PlaceStates
<1>4. r_worker \in [Workers -> PlaceStates] BY <1>3, Zenon DEF Limiter!Init
<1>5. \A p \in Workers : r_worker[p].at = "idle" BY DEF Limiter!Init, Limiter!Idle, Limiter!At
<1>6. LockIsKept BY <1>5, LimiterConstants DEF LockIsKept, Limiter!Holds, Limiter!Init
<1>7. FileIsTrue BY <1>2, <1>5, LimiterConstants DEF FileIsTrue, Limiter!Init
<1> QED BY <1>1, <1>4, <1>6, <1>7 DEF LimiterInv, Undisturbed, Limiter!Init

LEMMA OneWorkerGoes ==
  ASSUME r_worker \in [Workers -> PlaceStates], NEW p \in Workers, NEW to \in PlaceStates,
         Limiter!Goes(p, to)
  PROVE /\ r_worker' \in [Workers -> PlaceStates] /\ r_worker'[p] = to
        /\ \A q \in Workers : q # p => r_worker'[q] = r_worker[q]
BY DEF Limiter!Goes

LEMMA PlacesTo ==
  ASSUME NEW at \in {"idle", "locking", "removing", "inside", "unlocking", "full", "asleep"},
         NEW read \in Seq(0..Window), NEW wait \in 0..Window
  PROVE [at |-> at, read |-> read, wait |-> wait] \in PlaceStates
BY DEF PlaceStates

\* A step that leaves the file and the lock alone, of a process that neither has the
\* lock nor gets it.
LEMMA MovesOutside ==
  ASSUME Undisturbed, NEW p \in Workers, NEW to \in PlaceStates, Limiter!Goes(p, to), ~Limiter!Holds(p),
         to.at \notin {"removing", "inside", "unlocking", "full"},
         UNCHANGED <<r_owner, r_lockAge, r_stamps, r_granted>>
  PROVE Undisturbed'
<1>1. /\ r_worker' \in [Workers -> PlaceStates] /\ r_worker'[p] = to
      /\ \A q \in Workers : q # p => r_worker'[q] = r_worker[q]
  BY OneWorkerGoes DEF Undisturbed
<1>2. LockIsKept' BY <1>1 DEF LockIsKept, Limiter!Holds, Undisturbed
<1>3. FileIsTrue'
  <2>1. IsRest(r_stamps, r_granted)' BY DEF FileIsTrue, IsRest, Undisturbed
  <2>2. \A q \in Workers : r_worker'[q].at = "inside" => r_worker'[q].read = r_granted'
    BY <1>1 DEF FileIsTrue, Undisturbed
  <2> QED BY <2>1, <2>2 DEF FileIsTrue, Undisturbed
<1>4. OldestFirst(r_stamps)' /\ OldestFirst(r_granted)' BY DEF Undisturbed, OldestFirst
<1> QED BY <1>1, <1>2, <1>3, <1>4 DEF Undisturbed

LEMMA WaitersMove ==
  ASSUME Undisturbed, NEW p \in Workers, Limiter!Ask(p) \/ Limiter!Retry(p)
  PROVE Undisturbed'
<1>1. Limiter!At("locking") \in PlaceStates BY LimiterConstants DEF Limiter!At, PlaceStates
<1>2. CASE Limiter!Ask(p) BY <1>1, <1>2, MovesOutside DEF Limiter!Ask, Limiter!At, Limiter!Holds
<1>3. CASE Limiter!Retry(p) BY <1>1, <1>3, MovesOutside DEF Limiter!Retry, Limiter!At, Limiter!Holds
<1> QED BY <1>2, <1>3

\* The lock never looks stale.
LEMMA NeverStale ==
  ASSUME Undisturbed, NEW p \in Workers
  PROVE ~Limiter!FindStale(p) /\ ~Limiter!RemoveStale(p)
<1>1. r_owner # Limiter!None => ~ r_lockAge > LockTimeout
  BY LimiterConstants DEF Undisturbed, LockIsKept
<1> QED BY <1>1 DEF Limiter!FindStale, Limiter!RemoveStale, Undisturbed, LockIsKept

LEMMA LockKeeps ==
  ASSUME Undisturbed, NEW p \in Workers, Limiter!Lock(p)
  PROVE Undisturbed'
<1> DEFINE rest == Limiter!Pruned(r_stamps)
           to == [Limiter!At("inside") EXCEPT !.read = rest]
<1>1. OldestFirst(r_stamps) /\ OldestFirst(r_granted) BY DEF Undisturbed
<1>2. IsRest(r_stamps, rest) /\ OldestFirst(rest) BY <1>1, PrunedIsRest
<1>3. to = [at |-> "inside", read |-> rest, wait |-> 0] BY DEF Limiter!At
<1>4. rest \in Seq(0..Window) BY <1>2 DEF OldestFirst
<1>5. to \in PlaceStates BY <1>3, <1>4, LimiterConstants, PlacesTo
<1>6. Limiter!Goes(p, to) BY DEF Limiter!Lock
<1>7. to.at = "inside" /\ to.read = rest BY <1>3
<1> HIDE DEF rest, to
<1>8. /\ r_worker' \in [Workers -> PlaceStates] /\ r_worker'[p] = to
      /\ \A q \in Workers : q # p => r_worker'[q] = r_worker[q]
  BY <1>5, <1>6, OneWorkerGoes DEF Undisturbed
<1>9. LockIsKept /\ FileIsTrue BY DEF Undisturbed
<1>10. \A q \in Workers : ~Limiter!Holds(q) BY <1>9, LimiterConstants DEF LockIsKept, Limiter!Lock
<1>11. LockIsKept'
  BY <1>9, <1>10, <1>7, <1>8, LimiterConstants DEF LockIsKept, Limiter!Holds, Limiter!Lock
<1>12. FileIsTrue'
  <2>1. r_granted \in Seq(0..Window) /\ IsRest(r_stamps, r_granted)
    BY <1>1, <1>9 DEF OldestFirst, FileIsTrue
  <2>2. rest = r_granted BY <1>1, <1>2, <1>4, <2>1, OneRest
  <2>3. \A q \in Workers : r_worker'[q].at = "inside" => r_worker'[q].read = r_granted
    BY <1>10, <2>2, <1>7, <1>8 DEF Limiter!Holds
  <2>4. IsRest(r_stamps, r_granted)' BY <2>1 DEF Limiter!Lock, IsRest
  <2> QED BY <1>9, <2>3, <2>4 DEF FileIsTrue, Limiter!Lock
<1>13. OldestFirst(r_stamps)' /\ OldestFirst(r_granted)' BY <1>1 DEF OldestFirst, Limiter!Lock
<1> QED BY <1>8, <1>11, <1>12, <1>13 DEF Undisturbed, Limiter!Lock

LEMMA UnlockKeeps ==
  ASSUME Undisturbed, NEW p \in Workers, Limiter!Unlock(p)
  PROVE Undisturbed'
<1> DEFINE to == IF r_worker[p].at = "full" THEN [r_worker[p] EXCEPT !.at = "asleep"] ELSE Limiter!Idle
<1>1. r_worker[p] \in PlaceStates BY DEF Undisturbed
<1>2. to \in PlaceStates /\ to.at \in {"asleep", "idle"}
  BY <1>1, LimiterConstants DEF PlaceStates, Limiter!Idle, Limiter!At
<1>3. Limiter!Goes(p, to) BY DEF Limiter!Unlock
<1> HIDE DEF to
<1>4. /\ r_worker' \in [Workers -> PlaceStates] /\ r_worker'[p] = to
      /\ \A q \in Workers : q # p => r_worker'[q] = r_worker[q]
  BY <1>2, <1>3, OneWorkerGoes DEF Undisturbed
<1>5. LockIsKept /\ FileIsTrue BY DEF Undisturbed
<1>6. r_owner = p BY <1>5 DEF LockIsKept, Limiter!Unlock, Limiter!Holds
<1>7. LockIsKept'
  BY <1>5, <1>6, <1>2, <1>4, LimiterConstants DEF LockIsKept, Limiter!Holds, Limiter!Unlock
<1>8. FileIsTrue'
  <2>1. \A q \in Workers : r_worker'[q].at = "inside" => r_worker'[q].read = r_granted
    BY <1>5, <1>2, <1>4 DEF FileIsTrue
  <2>2. IsRest(r_stamps, r_granted)' BY <1>5 DEF Limiter!Unlock, IsRest, FileIsTrue
  <2> QED BY <1>5, <2>1, <2>2 DEF FileIsTrue, Limiter!Unlock
<1>9. OldestFirst(r_stamps)' /\ OldestFirst(r_granted)' BY DEF OldestFirst, Limiter!Unlock, Undisturbed
<1> QED BY <1>4, <1>7, <1>8, <1>9 DEF Undisturbed, Limiter!Unlock

\* A process that writes has the lock and keeps it, and the file is then what was given out.
LEMMA WriteStateKeepsWindow ==
  ASSUME Undisturbed, NEW p \in Workers, Limiter!WriteState(p)
  PROVE Undisturbed'
<1> DEFINE read == r_worker[p].read
<1>1. r_worker \in [Workers -> PlaceStates] /\ LockIsKept /\ FileIsTrue
      /\ OldestFirst(r_stamps) /\ OldestFirst(r_granted)
  BY DEF Undisturbed
<1>2. r_worker[p].at = "inside" /\ read = r_granted BY <1>1 DEF Limiter!WriteState, FileIsTrue
<1>3. r_granted \in Seq(0..Window) /\ Len(r_granted) \in Nat /\ Len(r_granted) <= Capacity
      /\ \A i \in 1..Len(r_granted) : r_granted[i] \in 0..Window
  BY <1>1, ItemsOf DEF OldestFirst, FileIsTrue
<1>4. IsRest(r_granted, r_granted) BY <1>1, <1>3, RestOfRest DEF FileIsTrue
<1> HIDE DEF read
<1>5. /\ IsRest(r_stamps', r_granted') /\ OldestFirst(r_stamps') /\ OldestFirst(r_granted')
      /\ Len(r_granted') <= Capacity
      /\ \E to \in PlaceStates : Limiter!Goes(p, to) /\ to.at \in {"unlocking", "full"}
  <2>1. CASE Limiter!HasRoom(read)
    <3>1. r_stamps' = Append(r_granted, 0) /\ r_granted' = Append(r_granted, 0)
          /\ Limiter!Goes(p, Limiter!At("unlocking"))
      BY <2>1, <1>2 DEF Limiter!WriteState, read
    <3>2. Limiter!At("unlocking") \in PlaceStates /\ Limiter!At("unlocking").at = "unlocking"
      BY LimiterConstants DEF Limiter!At, PlaceStates
    <3>3. Len(r_granted) < Capacity /\ Len(Append(r_granted, 0)) = Len(r_granted) + 1
      BY <2>1, <1>2, <1>3 DEF Limiter!HasRoom
    <3>4. Len(r_granted') <= Capacity BY <3>1, <3>3, <1>3, LimiterConstants
    <3>5. OldestFirst(Append(r_granted, 0)) /\ IsRest(Append(r_granted, 0), Append(r_granted, 0))
      BY <1>1, <1>4, NewestLast
    <3> QED BY <3>1, <3>2, <3>4, <3>5
  <2>2. CASE ~Limiter!HasRoom(read)
    <3> DEFINE to == [Limiter!At("full") EXCEPT !.wait = Window - r_granted[1]]
    <3>1. r_stamps' = r_granted /\ r_granted' = r_granted /\ Limiter!Goes(p, to)
      BY <2>2, <1>2 DEF Limiter!WriteState, read
    <3>2. 1 \in 1..Len(r_granted) BY <2>2, <1>2, <1>3, LimiterConstants DEF Limiter!HasRoom
    <3>3. r_granted[1] \in 0..Window BY <3>2, <1>3
    <3>4. to = [at |-> "full", read |-> <<>>, wait |-> Window - r_granted[1]] BY DEF Limiter!At
    <3>5. Window - r_granted[1] \in 0..Window BY <3>3, LimiterConstants
    <3>6. <<>> \in Seq(0..Window) OBVIOUS
    <3>7. to \in PlaceStates BY <3>4, <3>5, <3>6, PlacesTo
    <3>8. to.at = "full" BY <3>4
    <3> HIDE DEF to
    <3> QED BY <3>1, <3>7, <3>8, <1>1, <1>3, <1>4
  <2> QED BY <2>1, <2>2
<1>6. PICK to \in PlaceStates : Limiter!Goes(p, to) /\ to.at \in {"unlocking", "full"} BY <1>5
<1>7. /\ r_worker' \in [Workers -> PlaceStates] /\ r_worker'[p] = to
      /\ \A q \in Workers : q # p => r_worker'[q] = r_worker[q]
  BY <1>1, <1>6, OneWorkerGoes
<1>8. UNCHANGED <<r_owner, r_lockAge>> BY DEF Limiter!WriteState
<1>9. LockIsKept' BY <1>1, <1>2, <1>6, <1>7, <1>8 DEF LockIsKept, Limiter!Holds
<1>10. \A q \in Workers : r_worker'[q].at # "inside"
  BY <1>1, <1>2, <1>6, <1>7 DEF LockIsKept, Limiter!Holds
<1>11. FileIsTrue' BY <1>5, <1>10 DEF FileIsTrue
<1> QED BY <1>5, <1>7, <1>8, <1>9, <1>11 DEF Undisturbed

LEMMA LimiterTicks ==
  ASSUME Undisturbed, Limiter!Tick
  PROVE Undisturbed'
<1>1. r_worker \in [Workers -> PlaceStates] /\ LockIsKept /\ FileIsTrue
      /\ OldestFirst(r_stamps) /\ OldestFirst(r_granted) /\ r_lockAge \in Nat
  BY DEF Undisturbed
<1>2. IsRest(r_stamps', r_granted') /\ OldestFirst(r_granted')
  BY <1>1, RestGrowsOld DEF FileIsTrue, Limiter!Tick
<1>3. OldestFirst(r_stamps') BY <1>1, OlderInOrder DEF Limiter!Tick
<1>4. Len(r_granted') <= Capacity
  <2>1. OldestFirst(Limiter!Older(r_granted)) /\ Len(Limiter!Older(r_granted)) = Len(r_granted)
        /\ Len(r_granted) \in Nat
    BY <1>1, OlderInOrder, OlderAges, ItemsOf DEF OldestFirst
  <2>2. IsRest(Limiter!Older(r_granted), r_granted') BY <2>1, PrunedIsRest DEF Limiter!Tick
  <2> QED BY <1>1, <2>1, <2>2, LimiterConstants DEF IsRest, FileIsTrue
<1>5. \A p \in Workers : r_worker'[p] = [r_worker[p] EXCEPT !.wait = Limiter!Max({0, @ - 1})]
  BY DEF Limiter!Tick
<1>6. ASSUME NEW n \in 0..Window PROVE Limiter!Max({0, n - 1}) \in 0..Window
  <2> DEFINE m == CHOOSE x \in {0, n - 1} : \A y \in {0, n - 1} : x >= y
  <2>1. m \in {0, n - 1} /\ m >= 0
    <3>1. \E x \in {0, n - 1} : \A y \in {0, n - 1} : x >= y
      <4>1. CASE n = 0 BY <4>1
      <4>2. CASE n # 0 BY <4>2, LimiterConstants
      <4> QED BY <4>1, <4>2
    <3> QED BY <3>1
  <2>2. Limiter!Max({0, n - 1}) = m BY DEF Limiter!Max
  <2> HIDE DEF m
  <2> QED BY <2>1, <2>2, LimiterConstants
<1>7. \A p \in Workers : r_worker'[p] \in PlaceStates /\ r_worker'[p].at = r_worker[p].at
  <2> TAKE p \in Workers
  <2>1. r_worker[p] \in PlaceStates BY <1>1
  <2>2. Limiter!Max({0, r_worker[p].wait - 1}) \in 0..Window BY <2>1, <1>6 DEF PlaceStates
  <2> QED BY <2>1, <2>2, <1>5 DEF PlaceStates
<1>8. r_worker' = [p \in Workers |-> r_worker'[p]] BY DEF Limiter!Tick
<1>9. r_worker' \in [Workers -> PlaceStates] BY <1>7, <1>8
<1>10. \A p \in Workers : Limiter!Holds(p)' <=> Limiter!Holds(p) BY <1>7 DEF Limiter!Holds
<1>11. r_lockAge' \in Nat /\ (r_owner' # Limiter!None => r_lockAge' <= LockTimeout)
  <2>1. CASE r_owner = Limiter!None BY <2>1 DEF Limiter!Tick
  <2>2. CASE r_owner # Limiter!None
    <3>1. r_owner \in Workers /\ Limiter!Holds(r_owner) BY <2>2, <1>1 DEF LockIsKept, Undisturbed
    <3>2. r_lockAge < LockTimeout BY <3>1 DEF Limiter!Tick
    <3>3. {r_lockAge + 1, LockTimeout + 1} \in SUBSET Nat BY <1>1, LimiterConstants
    <3> DEFINE m == Limiter!Min({r_lockAge + 1, LockTimeout + 1})
    <3>4. m \in {r_lockAge + 1, LockTimeout + 1} /\ \A n \in {r_lockAge + 1, LockTimeout + 1} : m <= n
      BY <3>3, LeastNumber DEF Limiter!Min
    <3>5. r_lockAge' = m BY <2>2 DEF Limiter!Tick
    <3> HIDE DEF m
    <3> QED BY <3>2, <3>4, <3>5, <1>1, LimiterConstants
  <2> QED BY <2>1, <2>2
<1>12. LockIsKept' BY <1>1, <1>7, <1>10, <1>11 DEF LockIsKept, Limiter!Tick
<1>13. \A p \in Workers : r_worker'[p].at # "inside" BY <1>7 DEF Limiter!Tick, Limiter!Holds
<1>14. FileIsTrue' BY <1>2, <1>4, <1>13 DEF FileIsTrue
<1> QED BY <1>2, <1>3, <1>9, <1>11, <1>12, <1>14 DEF Undisturbed, Limiter!Tick

LEMMA LimiterStep ==
  ASSUME LimiterInv, Limiter!Next
  PROVE LimiterInv'
<1>1. r_crashes' \in Nat /\ (r_crashes' = 0 => r_crashes = 0 /\ \A p \in Workers : ~Limiter!Crash(p))
  <2>1. CASE \E p \in Workers : Limiter!Crash(p)
    <3>1. r_crashes' = r_crashes + 1 BY <2>1 DEF Limiter!Crash
    <3> QED BY <3>1 DEF LimiterInv
  <2>2. CASE ~ \E p \in Workers : Limiter!Crash(p)
    <3>1. r_crashes' = r_crashes
      BY <2>2 DEF Limiter!Next, Limiter!Step, Limiter!Tick, Limiter!Ask, Limiter!Lock, Limiter!FindStale,
         Limiter!RemoveStale, Limiter!WriteState, Limiter!Unlock, Limiter!Retry
    <3> QED BY <2>2, <3>1 DEF LimiterInv
  <2> QED BY <2>1, <2>2
<1>2. ASSUME r_crashes' = 0 PROVE Undisturbed'
  <2>1. Undisturbed BY <1>1, <1>2 DEF LimiterInv
  <2>2. CASE Limiter!Tick BY <2>1, <2>2, LimiterTicks
  <2>3. CASE \E p \in Workers : Limiter!Ask(p) \/ Limiter!Step(p)
    BY <2>1, <2>3, WaitersMove, NeverStale, LockKeeps, UnlockKeeps, WriteStateKeepsWindow DEF Limiter!Step
  <2> QED BY <1>1, <1>2, <2>2, <2>3 DEF Limiter!Next
<1> QED BY <1>1, <1>2 DEF LimiterInv

LEMMA InvHoldsWindow == LimiterInv => Limiter!WindowHolds
<1> SUFFICES ASSUME LimiterInv, r_crashes = 0 PROVE Len(Limiter!Pruned(r_granted)) <= Capacity
  BY DEF Limiter!WindowHolds
<1>1. OldestFirst(r_granted) /\ Len(r_granted) <= Capacity BY DEF LimiterInv, Undisturbed, FileIsTrue
<1>2. IsRest(r_granted, Limiter!Pruned(r_granted)) BY <1>1, PrunedIsRest
<1>3. Len(r_granted) \in Nat BY <1>1, ItemsOf DEF OldestFirst
<1> QED BY <1>1, <1>2, <1>3, LimiterConstants DEF IsRest

\* No window of time sees more grants than the capacity, while no process has died with the
\* lock: the lock directory, its removal when it looks stale, and the file behind it
\* (acquireSharedGmgnPermit).
THEOREM WindowKept == RecordsSpec => []WindowHolds
<1>1. RecordsInit => LimiterInv BY LimiterStarts DEF RecordsInit
<1>2. LimiterInv /\ [RecordsNext]_records => LimiterInv'
  <2> SUFFICES ASSUME LimiterInv, [RecordsNext]_records PROVE LimiterInv' OBVIOUS
  <2>1. CASE Limiter!Next BY <2>1, LimiterStep
  <2>2. CASE UNCHANGED limiterVars
    BY <2>2 DEF limiterVars, LimiterInv, Undisturbed, LockIsKept, FileIsTrue, IsRest, OldestFirst,
       Limiter!Holds
  <2> QED BY <2>1, <2>2, RecordsStutter
<1>3. LimiterInv => WindowHolds BY InvHoldsWindow DEF WindowHolds
<1> QED BY <1>1, <1>2, <1>3, PTL DEF RecordsSpec

-----------------------------------------------------------------------------
(* Mirror.                                                                 *)

\* The events, whatever the length of the journals, and the buffers they make.
AnyEvents ==
  [from : {"live", "catchup"}, kind : Mirror!Journals \cup {"snapshots"}, line : Nat, version : Int]
Buffers ==
  [queue : Seq(AnyEvents), dropped : BOOLEAN,
    lost : SUBSET ((Mirror!Journals \cup {"snapshots"}) \X Nat)]
\* The lines that a buffer still holds or has given up.
Keeps(b) == b.lost \cup Mirror!LinesOf(Mirror!Range(b.queue))

\* Each readable line of j up to one is written, queued or counted as lost.
Saved == m_mirrored \cup Keeps(Mirror!Now)
Passed(lines, saved, j, upto) == \A i \in 1..upto : lines[j][i] > 0 => <<j, i>> \in saved

MirrorTypes ==
  /\ m_journal \in [Mirror!Journals -> Seq(Int)] /\ m_version \in Nat /\ Mirror!Now \in Buffers
  /\ m_cursor \in [Mirror!Journals -> Nat] /\ \A j \in Mirror!Journals : m_cursor[j] <= Len(m_journal[j])
\* So far the replay has enqueued the lines it has gone over, with the cursor still behind.
ReplayIsAhead ==
  /\ m_replay \in [budget : Int, count : Nat, todo : Seq(Mirror!Journals),
     next : [Mirror!Journals -> Nat]]
  /\ \A j \in Mirror!Journals :
       m_replay.next[j] <= Len(m_journal[j]) /\ Passed(m_journal, Saved, j, m_replay.next[j])
MirrorInv ==
  /\ MirrorTypes
  /\ \A j \in Mirror!Journals : Passed(m_journal, Saved, j, m_cursor[j])
  /\ m_daemon = "replay" => ReplayIsAhead

LEMMA MirrorConstants == BufferSize \in Nat /\ BatchSize \in Nat /\ BatchSize > 0
BY RecordConstants DEF Mirror!MirrorAssumption

LEMMA LinesIn ==
  ASSUME NEW q \in Seq(AnyEvents)
  PROVE /\ Mirror!LinesOf(Mirror!Range(q))
           = {<<q[i].kind, q[i].line>> : i \in {h \in 1..Len(q) : q[h].line > 0}}
        /\ Mirror!LinesOf(Mirror!Range(q)) \in SUBSET ((Mirror!Journals \cup {"snapshots"}) \X Nat)
<1>1. DOMAIN q = 1..Len(q) /\ \A i \in 1..Len(q) : q[i] \in AnyEvents BY ItemsOf
<1>2. \A i \in 1..Len(q) : q[i].kind \in Mirror!Journals \cup {"snapshots"} /\ q[i].line \in Nat
  BY <1>1 DEF AnyEvents
<1>3. Mirror!Range(q) = {q[i] : i \in 1..Len(q)} BY <1>1 DEF Mirror!Range
<1>4. Mirror!LinesOf(Mirror!Range(q))
      = {<<q[i].kind, q[i].line>> : i \in {h \in 1..Len(q) : q[h].line > 0}}
  BY <1>3 DEF Mirror!LinesOf
<1> QED BY <1>2, <1>4

\* What a full buffer gives up is on record.
LEMMA EnqueueKeeps ==
  ASSUME NEW b \in Buffers, NEW e \in AnyEvents
  PROVE /\ Mirror!Enqueue(b, e) \in Buffers
        /\ Keeps(b) \cup Mirror!LinesOf({e}) \subseteq Keeps(Mirror!Enqueue(b, e))
<1> DEFINE q == b.queue
           r == Mirror!Enqueue(b, e)
           lowest == {i \in DOMAIN q : /\ Mirror!Rank(q[i]) < Mirror!Rank(e)
                                       /\ \A h \in DOMAIN q : Mirror!Rank(q[i]) <= Mirror!Rank(q[h])}
           i == Mirror!Min(lowest)
           places == (Mirror!Journals \cup {"snapshots"}) \X Nat
           Shows(f) == IF f.line > 0 THEN {<<f.kind, f.line>>} ELSE {}
<1>1. q \in Seq(AnyEvents) /\ b.lost \in SUBSET places /\ b.dropped \in BOOLEAN BY DEF Buffers
<1>2. Len(q) \in Nat /\ DOMAIN q = 1..Len(q) /\ \A k \in 1..Len(q) : q[k] \in AnyEvents
  BY <1>1, ItemsOf
<1>3. \A f \in AnyEvents : Mirror!LinesOf({f}) = Shows(f) /\ Mirror!LinesOf({f}) \in SUBSET places
  BY DEF Mirror!LinesOf, AnyEvents
<1>4. ASSUME NEW s \in Seq(AnyEvents)
      PROVE \A l : l \in Mirror!LinesOf(Mirror!Range(s)) <=> \E k \in 1..Len(s) : l \in Shows(s[k])
  BY LinesIn
<1> HIDE DEF Shows
<1>5. CASE Len(q) < BufferSize
  <2>1. r = [queue |-> Append(q, e), dropped |-> b.dropped, lost |-> b.lost]
    BY <1>5 DEF Mirror!Enqueue, Mirror!Buffer
  <2> DEFINE s == Append(q, e)
  <2>2. s \in Seq(AnyEvents) /\ Len(s) = Len(q) + 1 /\ s[Len(q) + 1] = e
        /\ \A k \in 1..Len(q) : s[k] = q[k]
    BY <1>1
  <2> HIDE DEF s
  <2>3. Mirror!LinesOf(Mirror!Range(q)) \cup Mirror!LinesOf({e})
        \subseteq Mirror!LinesOf(Mirror!Range(s))
    BY <1>1, <1>2, <1>3, <1>4, <2>2
  <2>4. r \in Buffers BY <1>1, <2>1, <2>2 DEF Buffers, s
  <2>5. r.queue = s /\ r.lost = b.lost BY <2>1 DEF s
  <2> QED BY <2>3, <2>4, <2>5 DEF Keeps
<1>6. CASE ~ Len(q) < BufferSize /\ lowest = {}
  <2>1. r = [queue |-> q, dropped |-> TRUE, lost |-> b.lost \cup Mirror!LinesOf({e})]
    BY <1>6 DEF Mirror!Enqueue, Mirror!Buffer
  <2>2. Mirror!LinesOf({e}) \in SUBSET places BY <1>3
  <2>3. r.queue = q /\ r.lost = b.lost \cup Mirror!LinesOf({e}) BY <2>1
  <2>4. r \in Buffers
    <3> DEFINE gone == b.lost \cup Mirror!LinesOf({e})
    <3>1. gone \in SUBSET places BY <1>1, <2>2
    <3>2. r = [queue |-> q, dropped |-> TRUE, lost |-> gone] BY <2>1
    <3> HIDE DEF gone, r, q
    <3> QED BY <1>1, <3>1, <3>2 DEF Buffers
  <2>5. Keeps(r) = Mirror!LinesOf(Mirror!Range(q)) \cup b.lost \cup Mirror!LinesOf({e})
    BY <2>3 DEF Keeps
  <2> HIDE DEF r, q
  <2> QED BY <2>4, <2>5 DEF Keeps, q, r
<1>7. CASE ~ Len(q) < BufferSize /\ lowest # {}
  <2> DEFINE front == SubSeq(q, 1, i - 1)
             back == SubSeq(q, i + 1, Len(q))
             s == Append(front \o back, e)
  <2>1. i \in lowest
    <3>1. lowest \in SUBSET Nat BY <1>2
    <3> HIDE DEF lowest
    <3> QED BY <1>7, <3>1, LeastNumber DEF Mirror!Min
  <2>2. i \in 1..Len(q) BY <1>2, <2>1
  <2>3. r = [queue |-> s, dropped |-> TRUE, lost |-> b.lost \cup Mirror!LinesOf({q[i]})]
    BY <1>7, Zenon DEF Mirror!Enqueue, Mirror!Buffer
  <2> HIDE DEF i
  <2>4. front \in Seq(AnyEvents) /\ Len(front) = i - 1 /\ \A k \in 1..i - 1 : front[k] = q[k]
    BY <1>1, <1>2, <2>2
  <2>5. back \in Seq(AnyEvents) /\ Len(back) = Len(q) - i
        /\ \A k \in 1..Len(q) - i : back[k] = q[k + i]
    BY <1>1, <1>2, <2>2
  <2> HIDE DEF front, back
  <2>6. /\ s \in Seq(AnyEvents) /\ Len(s) = Len(q) /\ s[Len(q)] = e
        /\ \A k \in 1..i - 1 : s[k] = q[k]
        /\ \A k \in i + 1..Len(q) : s[k - 1] = q[k]
    <3> DEFINE u == front \o back
    <3>1. u \in Seq(AnyEvents) /\ Len(u) = Len(q) - 1
          /\ (\A k \in 1..i - 1 : u[k] = front[k])
          /\ \A k \in 1..Len(q) - i : u[k + (i - 1)] = back[k]
      BY <1>2, <2>2, <2>4, <2>5
    <3> HIDE DEF u
    <3>2. s = Append(u, e) BY DEF u
    <3>3. s \in Seq(AnyEvents) /\ Len(s) = Len(q) /\ s[Len(q)] = e
          /\ \A k \in 1..Len(q) - 1 : s[k] = u[k]
      BY <1>2, <2>2, <3>1, <3>2
    <3> HIDE DEF s
    <3>4. ASSUME NEW k \in 1..i - 1 PROVE s[k] = q[k]
      <4>1. k \in 1..Len(q) - 1 BY <1>2, <2>2
      <4> QED BY <4>1, <3>1, <3>3, <2>4
    <3>5. ASSUME NEW k \in i + 1..Len(q) PROVE s[k - 1] = q[k]
      <4>1. k - i \in 1..Len(q) - i /\ k - 1 = (k - i) + (i - 1) /\ (k - i) + i = k
            /\ k - 1 \in 1..Len(q) - 1
        BY <1>2, <2>2
      <4>2. u[(k - i) + (i - 1)] = back[k - i] /\ back[k - i] = q[(k - i) + i] BY <4>1, <3>1, <2>5
      <4> QED BY <4>1, <4>2, <3>3
    <3> QED BY <3>3, <3>4, <3>5
  <2> HIDE DEF s
  <2>7. ASSUME NEW k \in 1..Len(q)
        PROVE \/ Shows(q[k]) = Mirror!LinesOf({q[i]})
              \/ \E m \in 1..Len(s) : s[m] = q[k]
    <3>1. CASE k = i BY <1>2, <1>3, <3>1
    <3>2. CASE k < i
      <4>1. k \in 1..i - 1 /\ k \in 1..Len(s) BY <3>2, <1>2, <2>2, <2>6
      <4> QED BY <4>1, <2>6
    <3>3. CASE k > i
      <4>1. k \in i + 1..Len(q) /\ k - 1 \in 1..Len(s) BY <3>3, <1>2, <2>2, <2>6
      <4> QED BY <4>1, <2>6
    <3> QED BY <3>1, <3>2, <3>3, <1>2, <2>2
  <2>8. Len(q) \in 1..Len(s) BY <1>2, <2>2, <2>6
  <2>9. Mirror!LinesOf(Mirror!Range(q)) \cup Mirror!LinesOf({e})
        \subseteq Mirror!LinesOf(Mirror!Range(s)) \cup Mirror!LinesOf({q[i]})
    <3>1. Mirror!LinesOf({e}) \subseteq Mirror!LinesOf(Mirror!Range(s)) BY <1>3, <1>4, <2>6, <2>8
    <3>2. ASSUME NEW k \in 1..Len(q)
          PROVE Shows(q[k]) \subseteq Mirror!LinesOf(Mirror!Range(s)) \cup Mirror!LinesOf({q[i]})
      BY <1>4, <2>6, <2>7
    <3>3. \A l \in Mirror!LinesOf(Mirror!Range(q)) : \E k \in 1..Len(q) : l \in Shows(q[k]) BY <1>1, <1>4
    <3> QED BY <3>1, <3>2, <3>3
  <2>10. Mirror!LinesOf({q[i]}) \in SUBSET places BY <1>2, <1>3, <2>2
  <2>11. r.queue = s /\ r.lost = b.lost \cup Mirror!LinesOf({q[i]}) BY <2>3
  <2>12. r \in Buffers
    <3> DEFINE gone == b.lost \cup Mirror!LinesOf({q[i]})
    <3>1. gone \in SUBSET places BY <1>1, <2>10
    <3>2. r = [queue |-> s, dropped |-> TRUE, lost |-> gone] BY <2>3
    <3>3. s \in Seq(AnyEvents) BY <2>6
    <3> HIDE DEF gone, r
    <3> QED BY <3>1, <3>2, <3>3 DEF Buffers
  <2> QED BY <2>9, <2>11, <2>12 DEF Keeps
<1> QED BY <1>5, <1>6, <1>7

\* What a flush takes from the buffer it has written.
LEMMA FlushKeeps ==
  ASSUME NEW b \in Buffers, Mirror!FlushOnce(b)
  PROVE Mirror!Now' \in Buffers /\ m_mirrored \cup Keeps(b) \subseteq Saved'
<1> USE DEF Saved
<1> DEFINE q == b.queue
           n == Mirror!Min({BatchSize, Len(q)})
           front == SubSeq(q, 1, n)
           back == SubSeq(q, n + 1, Len(q))
<1>1. q \in Seq(AnyEvents) /\ Len(q) \in Nat /\ DOMAIN q = 1..Len(q) BY ItemsOf DEF Buffers
<1>2. b = [queue |-> b.queue, dropped |-> b.dropped, lost |-> b.lost] BY DEF Buffers
<1>3. CASE Mirror!Becomes(b) /\ UNCHANGED m_mirrored
  <2>1. Mirror!Now' = b BY <1>2, <1>3 DEF Mirror!Becomes, Mirror!Now, Mirror!Buffer
  <2> QED BY <1>3, <2>1
<1>4. CASE Mirror!Write(front) /\ Mirror!Becomes(Mirror!Buffer(back, b.dropped, b.lost))
  <2>1. n \in 0..Len(q)
    <3>1. {BatchSize, Len(q)} \in SUBSET Nat BY <1>1, MirrorConstants
    <3>2. n \in {BatchSize, Len(q)} /\ \A m \in {BatchSize, Len(q)} : n <= m
      BY <3>1, LeastNumber DEF Mirror!Min
    <3> HIDE DEF n
    <3> QED BY <1>1, <3>2, MirrorConstants
  <2> HIDE DEF n
  <2>2. front \in Seq(AnyEvents) /\ Len(front) = n /\ \A k \in 1..n : front[k] = q[k]
    BY <1>1, <2>1
  <2>3. back \in Seq(AnyEvents) /\ Len(back) = Len(q) - n
        /\ \A k \in 1..Len(q) - n : back[k] = q[k + n]
    BY <1>1, <2>1
  <2>4. m_mirrored' = m_mirrored \cup Mirror!LinesOf(Mirror!Range(front)) BY <1>4 DEF Mirror!Write
  <2>5. Mirror!Now' = [queue |-> back, dropped |-> b.dropped, lost |-> b.lost]
    BY <1>4 DEF Mirror!Becomes, Mirror!Now, Mirror!Buffer
  <2> HIDE DEF front, back
  <2>6. Mirror!LinesOf(Mirror!Range(q)) \subseteq Mirror!LinesOf(Mirror!Range(front))
        \cup Mirror!LinesOf(Mirror!Range(back))
    <3> DEFINE In(s) == {<<s[i].kind, s[i].line>> : i \in {h \in 1..Len(s) : s[h].line > 0}}
    <3>1. Mirror!LinesOf(Mirror!Range(q)) = In(q) /\ Mirror!LinesOf(Mirror!Range(front)) = In(front)
          /\ Mirror!LinesOf(Mirror!Range(back)) = In(back)
      BY <1>1, <2>2, <2>3, LinesIn
    <3>2. ASSUME NEW k \in 1..Len(q), q[k].line > 0
          PROVE <<q[k].kind, q[k].line>> \in In(front) \cup In(back)
      <4>1. CASE k <= n
        <5>1. k \in 1..Len(front) /\ front[k] = q[k] BY <4>1, <1>1, <2>1, <2>2
        <5> QED BY <3>2, <5>1
      <4>2. CASE k > n
        <5>1. k - n \in 1..Len(back) /\ k - n \in 1..Len(q) - n /\ (k - n) + n = k
          BY <4>2, <1>1, <2>1, <2>3
        <5>2. back[k - n] = q[k] BY <5>1, <2>3
        <5> QED BY <3>2, <5>1, <5>2
      <4> QED BY <4>1, <4>2, <1>1, <2>1
    <3> QED BY <3>1, <3>2
  <2>7. Mirror!Now' \in Buffers BY <2>3, <2>5 DEF Buffers
  <2> QED BY <2>4, <2>5, <2>6, <2>7 DEF Keeps
<1> QED BY <1>3, <1>4, Zenon DEF Mirror!FlushOnce

\* The event of a line, and the buffer after the replay of some lines of a journal.
CatchUp(j, i) == Mirror!Event("catchup", j, i, m_journal[j][i])
Filled(j, lines) ==
  CHOOSE h : h = [s \in SUBSET lines |->
    IF s = {} THEN Mirror!Now ELSE Mirror!Enqueue(h[s \ {Mirror!Max(s)}], CatchUp(j, Mirror!Max(s)))]

LEMMA ReplayFills ==
  ASSUME Mirror!ReplayJournal
  PROVE LET j == Head(m_replay.todo)
            lines == Mirror!Unseen(j, Mirror!Reach(j))
        IN /\ Mirror!Becomes(Filled(j, lines)[lines])
           /\ m_replay' = [m_replay EXCEPT !.todo = Tail(@), !.count = @ + Mirror!Cardinality(lines),
              !.next[j] = Mirror!Reach(j)]
BY Zenon DEF Mirror!ReplayJournal, Mirror!MapThenFoldSet, Filled, CatchUp

LEMMA ReplayLines ==
  ASSUME MirrorTypes, NEW j \in Mirror!Journals, NEW to \in Nat, to <= Len(m_journal[j])
  PROVE /\ Mirror!Unseen(j, to) \in SUBSET (1..to)
        /\ IsFiniteSet(Mirror!Unseen(j, to)) /\ Mirror!Cardinality(Mirror!Unseen(j, to)) \in Nat
        /\ \A i \in Mirror!Unseen(j, to) :
             CatchUp(j, i) \in AnyEvents /\ Mirror!LinesOf({CatchUp(j, i)}) = {<<j, i>>}
        /\ \A s \in SUBSET Mirror!Unseen(j, to) : s # {} => Mirror!Max(s) \in s
           /\ \A i \in s : Mirror!Max(s) >= i
<1> DEFINE lines == Mirror!Unseen(j, to)
<1>1. /\ Len(m_journal[j]) \in Nat /\ m_cursor[j] \in Nat
      /\ \A i \in 1..Len(m_journal[j]) : m_journal[j][i] \in Int
  BY ItemsOf DEF MirrorTypes
<1>2. lines \in SUBSET (1..to) /\ \A i \in lines : m_journal[j][i] \in Int
  <2>1. \A i \in lines : i \in m_cursor[j] + 1..to BY DEF Mirror!Unseen
  <2>2. \A i \in lines : i \in 1..to /\ i \in 1..Len(m_journal[j]) BY <1>1, <2>1
  <2> QED BY <1>1, <2>2
<1> HIDE DEF lines
<1>3. IsFiniteSet(lines) /\ Mirror!Cardinality(lines) \in Nat
  <2>1. IsFiniteSet(1..to) BY FS_Interval
  <2>2. Mirror!Cardinality(lines) = Cardinality(lines) BY DEF Cardinality, Mirror!Cardinality
  <2> QED BY <1>2, <2>1, <2>2, FS_Subset, FS_CardinalityType
<1>4. \A i \in lines : CatchUp(j, i) \in AnyEvents /\ Mirror!LinesOf({CatchUp(j, i)}) = {<<j, i>>}
  <2> TAKE i \in lines
  <2>1. i \in Nat /\ i > 0 /\ m_journal[j][i] \in Int BY <1>2
  <2>2. CatchUp(j, i) \in AnyEvents BY <2>1 DEF CatchUp, Mirror!Event, AnyEvents
  <2>3. CatchUp(j, i).kind = j /\ CatchUp(j, i).line = i BY DEF CatchUp, Mirror!Event
  <2> QED BY <2>1, <2>2, <2>3 DEF Mirror!LinesOf
<1>5. ASSUME NEW s \in SUBSET lines, s # {} PROVE Mirror!Max(s) \in s /\ \A i \in s : Mirror!Max(s) >= i
  <2>1. s \in SUBSET (0..to) BY <1>2
  <2>2. PICK m \in s : \A i \in s : m >= i BY <1>5, <2>1, GreatestNumber
  <2> QED BY <2>2 DEF Mirror!Max
<1> QED BY <1>2, <1>3, <1>4, <1>5 DEF lines

\* Line by line.
LEMMA FilledByLine ==
  ASSUME MirrorTypes, NEW j \in Mirror!Journals, NEW to \in Nat, to <= Len(m_journal[j]),
         NEW lines, lines = Mirror!Unseen(j, to)
  PROVE /\ Filled(j, lines)[{}] = Mirror!Now
        /\ \A s \in SUBSET lines : s # {} =>
             Filled(j, lines)[s] = Mirror!Enqueue(Filled(j, lines)[s \ {Mirror!Max(s)}], CatchUp(j,
               Mirror!Max(s)))
<1> DEFINE pick == [s \in SUBSET lines |-> Mirror!Max(s)]
           step == [i \in lines |-> [d \in Buffers |-> Mirror!Enqueue(d, CatchUp(j, i))]]
           Rhs(h) == [s \in SUBSET lines |->
             IF s = {} THEN Mirror!Now ELSE Mirror!Enqueue(h[s \ {Mirror!Max(s)}],
               CatchUp(j, Mirror!Max(s)))]
<1>1. /\ IsFiniteSet(lines) /\ \A i \in lines : CatchUp(j, i) \in AnyEvents
      /\ \A s \in SUBSET lines : s # {} => Mirror!Max(s) \in s
  BY ReplayLines
<1>2. Mirror!Now \in Buffers BY DEF MirrorTypes
<1>3. Steps(lines, Buffers, step) BY <1>1, EnqueueKeeps DEF Steps
<1>4. Picks(lines, pick) BY <1>1 DEF Picks
<1>5. PICK h : Folds(lines, Buffers, Mirror!Now, pick, step, h)
  <2> HIDE DEF pick, step, Rhs
  <2> QED BY <1>1, <1>2, <1>3, <1>4, FoldExists
<1> DEFINE g == [s \in SUBSET lines |-> h[s]]
<1>6. g = Rhs(g)
  <2>1. ASSUME NEW s \in SUBSET lines PROVE g[s] = Rhs(g)[s]
    <3>1. h[s] = Fold(Mirror!Now, pick, step, h, s) BY <1>5 DEF Folds
    <3>2. CASE s = {} BY <3>1, <3>2 DEF Fold
    <3>3. CASE s # {}
      <4> DEFINE t == s \ {Mirror!Max(s)}
      <4>1. Mirror!Max(s) \in lines /\ t \in SUBSET lines BY <1>1, <3>3
      <4>2. h[t] \in Buffers BY <1>5, <4>1 DEF Folds
      <4>3. pick[s] = Mirror!Max(s) OBVIOUS
      <4>4. step[Mirror!Max(s)][h[t]] = Mirror!Enqueue(h[t], CatchUp(j, Mirror!Max(s))) BY <4>1, <4>2
      <4>5. g[t] = h[t] /\ g[s] = h[s] BY <4>1
      <4>6. Rhs(g)[s] = Mirror!Enqueue(g[t], CatchUp(j, Mirror!Max(s))) BY <3>3
      <4> HIDE DEF pick, step, g, Rhs
      <4> QED BY <3>1, <3>3, <4>3, <4>4, <4>5, <4>6 DEF Fold
    <3> QED BY <3>2, <3>3
  <2>2. g = [s \in SUBSET lines |-> g[s]] OBVIOUS
  <2> HIDE DEF g
  <2> QED BY <2>1, <2>2
<1> HIDE DEF g
<1>7. Filled(j, lines) = Rhs(Filled(j, lines))
  <2>1. Filled(j, lines) = CHOOSE f : f = Rhs(f) BY Zenon DEF Filled
  <2> HIDE DEF Rhs
  <2> QED BY <1>6, <2>1
<1> HIDE DEF pick, step
<1> QED BY <1>7

LEMMA ReplayKeeps ==
  ASSUME MirrorTypes, NEW j \in Mirror!Journals, NEW to \in Nat, to <= Len(m_journal[j]),
         NEW lines, lines = Mirror!Unseen(j, to), NEW b, b = Filled(j, lines)[lines]
  PROVE /\ b \in Buffers /\ Keeps(Mirror!Now) \subseteq Keeps(b)
        /\ \A i \in lines : <<j, i>> \in Keeps(b)
<1> DEFINE good == [s \in SUBSET lines |->
             {d \in Buffers : Keeps(Mirror!Now) \subseteq Keeps(d)
               /\ \A i \in s : <<j, i>> \in Keeps(d)}]
           filled == Filled(j, lines)
<1>1. /\ IsFiniteSet(lines)
      /\ \A i \in lines : CatchUp(j, i) \in AnyEvents /\ Mirror!LinesOf({CatchUp(j, i)}) = {<<j, i>>}
      /\ \A s \in SUBSET lines : s # {} => Mirror!Max(s) \in s
  BY ReplayLines
<1>2. /\ filled[{}] = Mirror!Now
      /\ \A s \in SUBSET lines : s # {} =>
           filled[s] = Mirror!Enqueue(filled[s \ {Mirror!Max(s)}], CatchUp(j, Mirror!Max(s)))
  BY FilledByLine
<1> HIDE DEF filled
<1>3. filled[{}] \in good[{}] BY <1>2 DEF MirrorTypes
<1>4. ASSUME NEW s \in SUBSET lines, s # {}
      PROVE \E x \in s : filled[s \ {x}] \in good[s \ {x}] => filled[s] \in good[s]
  <2> DEFINE x == Mirror!Max(s)
             d == filled[s \ {x}]
  <2>1. x \in s BY <1>1, <1>4
  <2>2. filled[s] = Mirror!Enqueue(d, CatchUp(j, x)) BY <1>2, <1>4
  <2> SUFFICES ASSUME d \in good[s \ {x}] PROVE filled[s] \in good[s] BY <2>1
  <2>3. s \ {x} \in SUBSET lines OBVIOUS
  <2> HIDE DEF x, d
  <2>4. d \in Buffers /\ Keeps(Mirror!Now) \subseteq Keeps(d) /\ \A i \in s \ {x} : <<j, i>> \in Keeps(d)
    BY <2>3
  <2>5. /\ Mirror!Enqueue(d, CatchUp(j, x)) \in Buffers
        /\ Keeps(d) \cup {<<j, x>>} \subseteq Keeps(Mirror!Enqueue(d, CatchUp(j, x)))
    BY <1>1, <2>1, <2>4, EnqueueKeeps
  <2> QED BY <2>1, <2>2, <2>4, <2>5
<1>5. \A s \in SUBSET lines : filled[s] \in good[s]
  <2> HIDE DEF good
  <2> QED BY <1>1, <1>3, <1>4, FoldStays
<1>6. b \in good[lines] BY <1>5 DEF filled
<1> QED BY <1>6

LEMMA MirrorStarts == Mirror!Init => MirrorInv
<1> SUFFICES ASSUME Mirror!Init PROVE MirrorInv OBVIOUS
<1>1. m_journal = [j \in Mirror!Journals |-> <<>>] /\ m_cursor = [j \in Mirror!Journals |-> 0]
  BY DEF Mirror!Init
<1>2. Mirror!Now \in Buffers
  <2>1. Mirror!Now = [queue |-> <<>>, dropped |-> FALSE, lost |-> {}]
    BY DEF Mirror!Init, Mirror!Now, Mirror!Buffer
  <2>2. <<>> \in Seq(AnyEvents) OBVIOUS
  <2> QED BY <2>1, <2>2 DEF Buffers
<1>3. MirrorTypes BY <1>1, <1>2 DEF MirrorTypes, Mirror!Init
<1>4. \A j \in Mirror!Journals : Passed(m_journal, Saved, j, m_cursor[j]) BY <1>1 DEF Passed
<1> QED BY <1>3, <1>4 DEF MirrorInv, Mirror!Init

\* A flush of the timer, or the one that follows the replay.
LEMMA FlushStep ==
  ASSUME MirrorInv, Mirror!FlushOnce(Mirror!Now), UNCHANGED <<m_journal, m_cursor, m_version, m_replay>>,
         m_daemon' = "replay" => m_daemon = "replay"
  PROVE MirrorInv'
<1>1. Mirror!Now' \in Buffers /\ Saved \subseteq Saved' BY FlushKeeps DEF MirrorInv, MirrorTypes, Saved
<1>2. MirrorTypes' BY <1>1 DEF MirrorInv, MirrorTypes
<1>3. \A j, n : Passed(m_journal, Saved, j, n) => Passed(m_journal, Saved', j, n) BY <1>1 DEF Passed
<1>4. \A j \in Mirror!Journals : Passed(m_journal, Saved', j, m_cursor[j]) BY <1>3 DEF MirrorInv
<1>5. ReplayIsAhead => ReplayIsAhead' BY <1>3 DEF ReplayIsAhead
<1> QED BY <1>2, <1>4, <1>5 DEF MirrorInv

LEMMA ReachBounds ==
  ASSUME MirrorTypes, NEW j \in Mirror!Journals
  PROVE Mirror!Reach(j) \in Nat /\ m_cursor[j] <= Mirror!Reach(j) /\ Mirror!Reach(j) <= Len(m_journal[j])
<1> DEFINE reached == {m \in m_cursor[j]..Len(m_journal[j]) :
             \A i \in m_cursor[j] + 1..m : m_replay.count + Mirror!Cardinality(Mirror!Unseen(j,
               i - 1)) < m_replay.budget}
<1>1. m_cursor[j] \in Nat /\ Len(m_journal[j]) \in Nat /\ m_cursor[j] <= Len(m_journal[j])
  BY DEF MirrorTypes
<1>2. m_cursor[j] \in reached BY <1>1
<1>3. reached \in SUBSET (0..Len(m_journal[j])) BY <1>1
<1>4. Mirror!Reach(j) \in reached
  <2>1. Mirror!Reach(j) = Mirror!Max(reached) BY DEF Mirror!Reach
  <2> HIDE DEF reached
  <2>2. PICK m \in reached : \A i \in reached : m >= i BY <1>1, <1>2, <1>3, GreatestNumber
  <2> QED BY <2>1, <2>2 DEF Mirror!Max
<1> QED BY <1>1, <1>4

LEMMA ReplayStep ==
  ASSUME MirrorInv, Mirror!ReplayJournal
  PROVE MirrorInv'
<1> DEFINE j == Head(m_replay.todo)
           to == Mirror!Reach(j)
           lines == Mirror!Unseen(j, to)
           b == Filled(j, lines)[lines]
<1>1. MirrorTypes /\ ReplayIsAhead BY DEF MirrorInv, Mirror!ReplayJournal
<1>2. m_replay \in [budget : Int, count : Nat, todo : Seq(Mirror!Journals),
      next : [Mirror!Journals -> Nat]]
  BY <1>1 DEF ReplayIsAhead
<1>3. m_replay.todo \in Seq(Mirror!Journals) /\ m_replay.todo # <<>>
  BY <1>2 DEF Mirror!ReplayJournal, Mirror!Exhausted
<1>4. j \in Mirror!Journals /\ Tail(m_replay.todo) \in Seq(Mirror!Journals) BY <1>3
<1>5. /\ Mirror!Becomes(b)
      /\ m_replay' = [m_replay EXCEPT !.todo = Tail(@), !.count = @ + Mirror!Cardinality(lines),
         !.next[j] = to]
  BY ReplayFills
<1>6. UNCHANGED <<Mirror!disk, m_version, m_daemon>> BY DEF Mirror!ReplayJournal
<1> HIDE DEF j
<1>7. to \in Nat /\ m_cursor[j] <= to /\ to <= Len(m_journal[j]) BY <1>1, <1>4, ReachBounds
<1> HIDE DEF to
<1>8. /\ b \in Buffers /\ Keeps(Mirror!Now) \subseteq Keeps(b) /\ Mirror!Cardinality(lines) \in Nat
      /\ \A i \in lines : <<j, i>> \in Keeps(b)
  BY <1>1, <1>4, <1>7, ReplayKeeps, ReplayLines
<1>9. Mirror!Now' = b
  <2>1. b = [queue |-> b.queue, dropped |-> b.dropped, lost |-> b.lost] BY <1>8 DEF Buffers
  <2> HIDE DEF b
  <2> QED BY <1>5, <2>1 DEF Mirror!Becomes, Mirror!Now, Mirror!Buffer
<1> HIDE DEF b
<1>10. MirrorTypes' BY <1>1, <1>6, <1>8, <1>9 DEF MirrorTypes, Mirror!disk
<1>16. Saved \subseteq Saved' /\ Keeps(b) \subseteq Saved' BY <1>6, <1>8, <1>9 DEF Saved, Mirror!disk
<1>11. \A k, n : Passed(m_journal, Saved, k, n) => Passed(m_journal, Saved', k, n) BY <1>16 DEF Passed
<1>12. Passed(m_journal, Saved', j, to)
  <2> SUFFICES ASSUME NEW i \in 1..to, m_journal[j][i] > 0 PROVE <<j, i>> \in Saved'
    BY DEF Passed
  <2>1. m_cursor[j] \in Nat /\ Passed(m_journal, Saved, j, m_cursor[j])
    BY <1>1, <1>4 DEF MirrorInv, MirrorTypes
  <2>2. CASE i <= m_cursor[j]
    <3>1. i \in 1..m_cursor[j] BY <2>1, <2>2
    <3> QED BY <2>1, <3>1, <1>16 DEF Passed
  <2>3. CASE i > m_cursor[j]
    <3>1. i \in lines BY <1>7, <2>1, <2>3 DEF Mirror!Unseen, Mirror!Readable
    <3> QED BY <3>1, <1>8, <1>16
  <2> QED BY <2>1, <2>2, <2>3
<1>13. ReplayIsAhead'
  <2>1. /\ m_replay'.next = [m_replay.next EXCEPT ![j] = to]
        /\ m_replay' \in [budget : Int, count : Nat, todo : Seq(Mirror!Journals),
           next : [Mirror!Journals -> Nat]]
    <3> DEFINE count == Mirror!Cardinality(lines)
               rest == Tail(m_replay.todo)
    <3>1. m_replay' = [m_replay EXCEPT !.todo = rest, !.count = m_replay.count + count,
          !.next = [@ EXCEPT ![j] = to]]
      BY <1>5
    <3>2. count \in Nat /\ rest \in Seq(Mirror!Journals) BY <1>4, <1>8 DEF j
    <3> HIDE DEF lines, count, rest
    <3>3. m_replay.count + count \in Nat BY <1>2, <3>2
    <3>4. [m_replay.next EXCEPT ![j] = to] \in [Mirror!Journals -> Nat] BY <1>2, <1>7
    <3> QED BY <1>2, <3>1, <3>2, <3>3, <3>4
  <2>2. ASSUME NEW k \in Mirror!Journals
        PROVE m_replay'.next[k] <= Len(m_journal[k]) /\ Passed(m_journal, Saved', k, m_replay'.next[k])
    <3>1. CASE k = j
      <4>1. m_replay'.next[k] = to BY <3>1, <2>1, <1>2, <1>4
      <4> QED BY <3>1, <4>1, <1>7, <1>12
    <3>2. CASE k # j
      <4>1. m_replay'.next[k] = m_replay.next[k] BY <3>2, <2>1, <1>2, <1>4
      <4>2. Passed(m_journal, Saved, k, m_replay.next[k]) /\ m_replay.next[k] <= Len(m_journal[k])
        BY <1>1 DEF ReplayIsAhead
      <4> QED BY <4>1, <4>2, <1>11
    <3> QED BY <3>1, <3>2
  <2>3. m_journal' = m_journal BY <1>6 DEF Mirror!disk
  <2> QED BY <2>1, <2>2, <2>3 DEF ReplayIsAhead
<1>14. \A k \in Mirror!Journals : Passed(m_journal, Saved', k, m_cursor[k]) BY <1>11 DEF MirrorInv
<1>15. m_cursor' = m_cursor /\ m_journal' = m_journal BY <1>6 DEF Mirror!disk
<1> QED BY <1>10, <1>13, <1>14, <1>15 DEF MirrorInv

\* What an append does to the lines of a journal.
Grows(lines, longer) ==
  /\ longer \in [Mirror!Journals -> Seq(Int)]
  /\ \A j \in Mirror!Journals : /\ Len(lines[j]) <= Len(longer[j])
                         /\ \A i \in 1..Len(lines[j]) : longer[j][i] > 0 => lines[j][i] > 0

LEMMA AppendGrows ==
  ASSUME MirrorTypes, NEW j \in Mirror!Journals, NEW v \in Int
  PROVE /\ Grows(m_journal, Mirror!Appended(j, v))
        /\ Len(Mirror!Appended(j, v)[j]) \in Nat /\ Len(Mirror!Appended(j, v)[j]) > 0
<1> DEFINE last == Len(m_journal[j])
<1>1. m_journal \in [Mirror!Journals -> Seq(Int)] /\ m_journal[j] \in Seq(Int) /\ last \in Nat
  BY ItemsOf DEF MirrorTypes
<1>2. CASE last > 0 /\ m_journal[j][last] = Mirror!Torn
  <2> DEFINE s == [m_journal[j] EXCEPT ![last] = Mirror!Unreadable]
             all == [m_journal EXCEPT ![j] = s]
  <2>1. Mirror!Appended(j, v) = all BY <1>2, <1>1 DEF Mirror!Appended
  <2>2. s \in Seq(Int) /\ Len(s) = last BY <1>1, <1>2 DEF Mirror!Unreadable
  <2>3. \A i \in 1..last : s[i] > 0 => m_journal[j][i] > 0 BY <1>1, <1>2 DEF Mirror!Unreadable
  <2> HIDE DEF s
  <2>4. all \in [Mirror!Journals -> Seq(Int)] /\ all[j] = s /\ \A k \in Mirror!Journals : k # j
        => all[k] = m_journal[k]
    BY <1>1, <2>2
  <2> HIDE DEF all
  <2>5. Grows(m_journal, all)
    <3> SUFFICES ASSUME NEW k \in Mirror!Journals
                 PROVE /\ Len(m_journal[k]) <= Len(all[k])
                       /\ \A i \in 1..Len(m_journal[k]) : all[k][i] > 0 => m_journal[k][i] > 0
      BY <2>4 DEF Grows
    <3>1. CASE k = j BY <3>1, <1>1, <2>2, <2>3, <2>4
    <3>2. CASE k # j
      <4>1. all[k] = m_journal[k] /\ Len(m_journal[k]) \in Nat BY <3>2, <1>1, <2>4
      <4> QED BY <4>1
    <3> QED BY <3>1, <3>2
  <2> QED BY <1>1, <1>2, <2>1, <2>2, <2>4, <2>5
<1>3. CASE ~ (last > 0 /\ m_journal[j][last] = Mirror!Torn)
  <2> DEFINE s == Append(m_journal[j], v)
             all == [m_journal EXCEPT ![j] = s]
  <2>1. Mirror!Appended(j, v) = all BY <1>3 DEF Mirror!Appended
  <2>2. s \in Seq(Int) /\ Len(s) = last + 1 BY <1>1
  <2>3. \A i \in 1..last : s[i] = m_journal[j][i] BY <1>1
  <2> HIDE DEF s
  <2>4. all \in [Mirror!Journals -> Seq(Int)] /\ all[j] = s /\ \A k \in Mirror!Journals : k # j
        => all[k] = m_journal[k]
    BY <1>1, <2>2
  <2> HIDE DEF all
  <2>5. Grows(m_journal, all)
    <3> SUFFICES ASSUME NEW k \in Mirror!Journals
                 PROVE /\ Len(m_journal[k]) <= Len(all[k])
                       /\ \A i \in 1..Len(m_journal[k]) : all[k][i] > 0 => m_journal[k][i] > 0
      BY <2>4 DEF Grows
    <3>1. CASE k = j BY <3>1, <1>1, <2>2, <2>3, <2>4
    <3>2. CASE k # j
      <4>1. all[k] = m_journal[k] /\ Len(m_journal[k]) \in Nat BY <3>2, <1>1, <2>4
      <4> QED BY <4>1
    <3> QED BY <3>1, <3>2
  <2> QED BY <1>1, <2>1, <2>2, <2>4, <2>5
<1> QED BY <1>2, <1>3

\* A step outside the replay, after which every line behind the cursor that was saved still is.
LEMMA GrowStep ==
  ASSUME MirrorInv, Grows(m_journal, m_journal'), UNCHANGED m_cursor, Mirror!Now' \in Buffers,
         m_version' \in Nat, m_daemon' # "replay",
         \A j \in Mirror!Journals : \A i \in 1..m_cursor[j] : <<j, i>> \in Saved => <<j, i>> \in Saved'
  PROVE MirrorInv'
<1>1. m_cursor \in [Mirror!Journals -> Nat] /\ m_journal \in [Mirror!Journals -> Seq(Int)]
      /\ \A j \in Mirror!Journals : m_cursor[j] <= Len(m_journal[j])
         /\ Passed(m_journal, Saved, j, m_cursor[j])
  BY DEF MirrorInv, MirrorTypes
<1>2. ASSUME NEW j \in Mirror!Journals
      PROVE m_cursor[j] <= Len(m_journal'[j]) /\ Passed(m_journal', Saved', j, m_cursor[j])
  <2>1. m_cursor[j] \in Nat /\ Len(m_journal[j]) \in Nat /\ Len(m_journal'[j]) \in Nat
        /\ Len(m_journal[j]) <= Len(m_journal'[j]) /\ m_cursor[j] <= Len(m_journal[j])
    BY <1>1 DEF Grows
  <2>2. \A i \in 1..m_cursor[j] : i \in 1..Len(m_journal[j]) BY <2>1
  <2> QED BY <1>1, <2>1, <2>2 DEF Passed, Grows
<1>3. MirrorTypes' BY <1>1, <1>2 DEF MirrorTypes, Grows
<1> QED BY <1>2, <1>3 DEF MirrorInv

LEMMA StaysGrown == ASSUME MirrorTypes PROVE Grows(m_journal, m_journal)
<1>1. \A j \in Mirror!Journals : Len(m_journal[j]) \in Nat BY DEF MirrorTypes
<1> QED BY <1>1 DEF MirrorTypes, Grows

\* An event of the daemon is in the buffer or on record.
LEMMA EnqueueStep ==
  ASSUME MirrorInv, NEW e \in AnyEvents, Mirror!Becomes(Mirror!Enqueue(Mirror!Now, e)),
           UNCHANGED <<m_cursor, m_mirrored>>,
         Grows(m_journal, m_journal'), m_version' \in Nat, m_daemon' # "replay"
  PROVE MirrorInv'
<1> DEFINE b == Mirror!Enqueue(Mirror!Now, e)
<1>1. b \in Buffers /\ Keeps(Mirror!Now) \subseteq Keeps(b)
  BY EnqueueKeeps DEF MirrorInv, MirrorTypes
<1>2. b = [queue |-> b.queue, dropped |-> b.dropped, lost |-> b.lost] BY <1>1 DEF Buffers
<1> HIDE DEF b
<1>3. Mirror!Now' = b BY <1>2 DEF Mirror!Becomes, Mirror!Now, Mirror!Buffer, b
<1>4. Saved \subseteq Saved' BY <1>1, <1>3 DEF Saved
<1> QED BY <1>1, <1>3, <1>4, GrowStep

LEMMA RecordStep ==
  ASSUME MirrorInv, NEW j \in Mirror!Journals, Mirror!Record(j)
  PROVE MirrorInv'
<1> DEFINE v == Mirror!Upcoming(j)
           grown == Mirror!Appended(j, v)
           last == Len(grown[j])
           at == IF grown[j][last] = v THEN last ELSE 0
           e == Mirror!Event("live", j, at, v)
<1>1. MirrorTypes /\ m_version \in Nat BY DEF MirrorInv, MirrorTypes
<1>2. v \in Nat BY <1>1 DEF Mirror!Upcoming
<1> HIDE DEF v
<1>3. Grows(m_journal, grown) /\ last \in Nat BY <1>1, <1>2, AppendGrows
<1>4. m_journal' = grown /\ m_version' = (IF j = "orders" THEN v ELSE m_version)
      /\ UNCHANGED <<m_cursor, m_mirrored, m_daemon>> /\ m_daemon = "tick"
  BY DEF Mirror!Record, v
<1>5. Mirror!Becomes(Mirror!Enqueue(Mirror!Now, e)) BY DEF Mirror!Record, v
<1>6. at \in Nat BY <1>3
<1> HIDE DEF at, grown
<1>7. e \in AnyEvents BY <1>2, <1>6 DEF Mirror!Event, AnyEvents
<1> HIDE DEF e
<1> QED BY <1>1, <1>2, <1>3, <1>4, <1>5, <1>7, EnqueueStep

LEMMA RecoveredStep ==
  ASSUME MirrorInv, Mirror!EnqueueRecovered
  PROVE MirrorInv'
<1> DEFINE e == Mirror!Event("live", "orders", 0, m_version')
<1>1. MirrorTypes /\ m_version \in Nat BY DEF MirrorInv, MirrorTypes
<1>2. m_version' \in Nat /\ Mirror!Becomes(Mirror!Enqueue(Mirror!Now, e))
      /\ UNCHANGED <<m_journal, m_cursor, m_mirrored, m_daemon>>
      /\ m_daemon = "tick"
  BY <1>1 DEF Mirror!EnqueueRecovered, Mirror!disk
<1>3. e \in AnyEvents BY <1>2 DEF Mirror!Event, AnyEvents, Mirror!Journals
<1>4. Grows(m_journal, m_journal') BY <1>1, <1>2, StaysGrown
<1> HIDE DEF e
<1> QED BY <1>2, <1>3, <1>4, EnqueueStep

LEMMA ReportStep ==
  ASSUME MirrorInv, Mirror!Report
  PROVE MirrorInv'
<1> DEFINE e == Mirror!Event("live", "snapshots", 0, 0)
           b == Mirror!Enqueue(Mirror!Now, e)
<1>1. e \in AnyEvents BY DEF Mirror!Event, AnyEvents
<1> HIDE DEF e
<1>2. b \in Buffers /\ Keeps(Mirror!Now) \subseteq Keeps(b)
  BY <1>1, EnqueueKeeps DEF MirrorInv, MirrorTypes
<1>3. Mirror!FlushOnce(b) BY DEF Mirror!Report, e
<1> HIDE DEF b
<1>4. Mirror!Now' \in Buffers /\ Saved \subseteq Saved' BY <1>2, <1>3, FlushKeeps DEF Saved
<1>5. UNCHANGED <<m_journal, m_cursor, m_version>> BY DEF Mirror!Report
<1>6. MirrorTypes' BY <1>4, <1>5 DEF MirrorInv, MirrorTypes
<1>7. \A j \in Mirror!Journals : Passed(m_journal, Saved', j, m_cursor[j])
  BY <1>4 DEF MirrorInv, Passed
<1>8. ASSUME m_daemon' = "replay" PROVE ReplayIsAhead'
  <2>1. m_replay' = [budget |-> Mirror!Budget(m_queue'), count |-> 0, next |-> m_cursor,
        todo |-> <<"orders", "incidents">>]
    BY <1>8 DEF Mirror!Report
  <2>2. Mirror!Budget(m_queue') \in Int
    <3>1. m_queue' \in Seq(AnyEvents) BY <1>4 DEF Mirror!Now, Mirror!Buffer, Buffers
    <3> QED BY <3>1, MirrorConstants DEF Mirror!Budget
  <2>3. <<"orders", "incidents">> \in Seq(Mirror!Journals) BY DEF Mirror!Journals
  <2>4. m_cursor \in [Mirror!Journals -> Nat] BY DEF MirrorInv, MirrorTypes
  <2> HIDE DEF Mirror!Journals
  <2>5. m_replay' \in [budget : Int, count : Nat, todo : Seq(Mirror!Journals),
        next : [Mirror!Journals -> Nat]]
    BY <2>1, <2>2, <2>3, <2>4
  <2>6. m_replay'.next = m_cursor BY <2>1
  <2> QED BY <2>5, <2>6, <1>5, <1>7 DEF ReplayIsAhead, MirrorInv, MirrorTypes
<1> QED BY <1>5, <1>6, <1>7, <1>8 DEF MirrorInv

LEMMA SaveStep ==
  ASSUME MirrorInv, Mirror!SaveCursor
  PROVE MirrorInv'
<1>1. MirrorTypes /\ ReplayIsAhead BY DEF MirrorInv, Mirror!SaveCursor
<1>2. m_cursor' = m_replay.next
      /\ UNCHANGED <<m_journal, m_mirrored, m_queue, m_dropped, m_lost, m_version>>
      /\ m_daemon' # "replay"
  BY DEF Mirror!SaveCursor, Mirror!buffer
<1>3. Mirror!Now' = Mirror!Now /\ Saved' = Saved BY <1>2 DEF Mirror!Now, Mirror!Buffer, Saved
<1>4. MirrorTypes' BY <1>1, <1>2, <1>3 DEF MirrorTypes, ReplayIsAhead
<1>5. \A j \in Mirror!Journals : Passed(m_journal, Saved, j, m_replay.next[j]) BY <1>1 DEF ReplayIsAhead
<1> QED BY <1>2, <1>3, <1>4, <1>5 DEF MirrorInv

\* What dies with the process behind the cursor is counted as lost, the rest is read again.
LEMMA RestartStep ==
  ASSUME MirrorInv, Mirror!Restart
  PROVE MirrorInv'
<1>1. MirrorTypes /\ Mirror!Now \in Buffers /\ m_version \in Nat BY DEF MirrorInv, MirrorTypes
<1>2. Grows(m_journal, m_journal') /\ m_version' \in Nat
  <2>1. CASE UNCHANGED <<m_journal, m_version>> BY <2>1, <1>1, StaysGrown
  <2>2. CASE \E j \in Mirror!Journals : \E v \in {Mirror!Torn, Mirror!Upcoming(j)} :
               /\ m_journal' = Mirror!Appended(j, v)
               /\ m_version' = IF j = "orders" /\ v # Mirror!Torn THEN v ELSE m_version
    <3>0. PICK j \in Mirror!Journals : \E v \in {Mirror!Torn, Mirror!Upcoming(j)} :
               /\ m_journal' = Mirror!Appended(j, v)
               /\ m_version' = IF j = "orders" /\ v # Mirror!Torn THEN v ELSE m_version
      BY <2>2
    <3>1. PICK v \in {Mirror!Torn, Mirror!Upcoming(j)} :
               /\ m_journal' = Mirror!Appended(j, v)
               /\ m_version' = IF j = "orders" /\ v # Mirror!Torn THEN v ELSE m_version
      BY <3>0
    <3>2. v \in Int /\ (v # Mirror!Torn => v \in Nat) BY <1>1 DEF Mirror!Torn, Mirror!Upcoming
    <3>3. m_version' \in Nat BY <3>1, <3>2, <1>1
    <3>4. Grows(m_journal, m_journal') BY <3>1, <3>2, <1>1, AppendGrows
    <3> QED BY <3>3, <3>4
  <2> QED BY <2>1, <2>2 DEF Mirror!Restart
<1> DEFINE behind == {l \in Mirror!LinesOf(Mirror!Range(m_queue)) : l[2] <= m_cursor[l[1]]}
           places == (Mirror!Journals \cup {"snapshots"}) \X Nat
<1>3. m_queue \in Seq(AnyEvents) /\ m_lost \in SUBSET places
  BY <1>1 DEF Mirror!Now, Mirror!Buffer, Buffers
<1>4. Mirror!LinesOf(Mirror!Range(m_queue)) \in SUBSET places BY <1>3, LinesIn
<1>5. m_lost' = m_lost \cup behind /\ m_queue' = <<>> /\ m_dropped' = FALSE
      /\ UNCHANGED <<m_cursor, m_mirrored>> /\ m_daemon' = "tick"
  BY DEF Mirror!Restart
<1>6. Mirror!Now' \in Buffers
  <2>1. m_lost' \in SUBSET places BY <1>3, <1>4, <1>5
  <2>2. m_queue' \in Seq(AnyEvents) BY <1>5
  <2> HIDE DEF places
  <2>3. Mirror!Now' = [queue |-> m_queue', dropped |-> FALSE, lost |-> m_lost']
    BY <1>5 DEF Mirror!Now, Mirror!Buffer
  <2> QED BY <2>1, <2>2, <2>3 DEF Buffers, places
<1>7. ASSUME NEW j \in Mirror!Journals, NEW i \in 1..m_cursor[j], <<j, i>> \in Saved
      PROVE <<j, i>> \in Saved'
  <2>1. m_cursor[j] \in Nat BY DEF MirrorInv, MirrorTypes
  <2>2. i <= m_cursor[j] BY <2>1
  <2>3. <<j, i>> \in m_mirrored \cup m_lost \cup Mirror!LinesOf(Mirror!Range(m_queue))
    BY <1>7 DEF Saved, Keeps, Mirror!Now, Mirror!Buffer
  <2>4. <<j, i>> \in m_mirrored' \cup m_lost' BY <1>5, <2>2, <2>3
  <2> QED BY <2>4 DEF Saved, Keeps, Mirror!Now, Mirror!Buffer
<1> QED BY <1>2, <1>5, <1>6, <1>7, GrowStep

LEMMA MirrorStep ==
  ASSUME MirrorInv, [Mirror!Next]_mirrorVars
  PROVE MirrorInv'
<1>1. CASE \E j \in Mirror!Journals : Mirror!Record(j) BY <1>1, RecordStep
<1>2. CASE Mirror!EnqueueRecovered BY <1>2, RecoveredStep
<1>3. CASE Mirror!Report BY <1>3, ReportStep
<1>4. CASE Mirror!ReplayJournal BY <1>4, ReplayStep
<1>5. CASE Mirror!SaveCursor BY <1>5, SaveStep
<1>6. CASE Mirror!FlushReplayed \/ Mirror!TimerFlush
  BY <1>6, FlushStep DEF Mirror!FlushReplayed, Mirror!TimerFlush
<1>7. CASE Mirror!CooldownEnds \/ UNCHANGED mirrorVars
  <2>1. UNCHANGED <<m_journal, m_cursor, m_mirrored, m_queue, m_dropped, m_lost, m_version, m_daemon,
        m_replay>>
    BY <1>7 DEF Mirror!CooldownEnds, mirrorVars, Mirror!disk, Mirror!buffer
  <2>2. Mirror!Now' = Mirror!Now /\ Saved' = Saved BY <2>1 DEF Mirror!Now, Mirror!Buffer, Saved
  <2> QED BY <2>1, <2>2 DEF MirrorInv, MirrorTypes, ReplayIsAhead
<1>8. CASE Mirror!Restart BY <1>8, RestartStep
<1> QED BY <1>1, <1>2, <1>3, <1>4, <1>5, <1>6, <1>7, <1>8 DEF Mirror!Next, Mirror!Daemon

LEMMA InvAccounts == MirrorInv => Mirror!AccountedFor
BY DEF MirrorInv, Mirror!AccountedFor, Passed, Mirror!Readable, Saved, Keeps, Mirror!Now, Mirror!Buffer
\* The journal ends with the last state of the order.
Tells(lines, v) == v > 0 /\ Len(lines) > 0 /\ lines[Len(lines)] = v

\* The events of the buffer: a replayed one has its line, and a state of the order is one the
\* journal could hold, or the last one if it does not.
Fitting(lines, v) ==
  {e \in AnyEvents :
    /\ e.from = "catchup" => e.line > 0
    /\ e.kind = "orders" => /\ 1 <= e.version /\ e.version <= v /\ e.line <= Len(lines)
                            /\ e.line = 0 /\ e.version = v => ~Tells(lines, v)}

\* When q is written, a row that shows r shows v.
Brings(r, q, v) ==
  \/ r = v /\ \A i \in 1..Len(q) : q[i].kind # "orders"
  \/ \E i \in 1..Len(q) : /\ q[i].kind = "orders" /\ q[i].version = v
                          /\ \A k \in i + 1..Len(q) : q[k].kind # "orders"

\* Once the lines of the order up to n are all of them, the buffer brings the last state.
BroughtAt(lines, gone, n, r, q, v) ==
  Tells(lines, v) /\ gone = {} /\ n = Len(lines) => Brings(r, q, v)

OrderLines == m_journal["orders"]
RowInv ==
  /\ m_row \in Nat /\ m_row <= m_version
  /\ \A i \in 1..Len(OrderLines) : OrderLines[i] <= m_version
  /\ m_queue \in Seq(Fitting(OrderLines, m_version))
  /\ BroughtAt(OrderLines, m_lost, m_cursor["orders"], m_row, m_queue, m_version)
  /\ m_daemon = "replay" => BroughtAt(OrderLines, m_lost, m_replay.next["orders"], m_row, m_queue,
     m_version)

LEMMA FitsAny == ASSUME NEW lines, NEW v PROVE Fitting(lines, v) \subseteq AnyEvents
BY DEF Fitting

LEMMA SeqsIn == ASSUME NEW S, NEW T, S \subseteq T, NEW s \in Seq(S) PROVE s \in Seq(T)
OBVIOUS

LEMMA PartsOf ==
  ASSUME NEW S, NEW s \in Seq(S), NEW n \in 0..Len(s)
  PROVE /\ SubSeq(s, 1, n) \in Seq(S) /\ SubSeq(s, n + 1, Len(s)) \in Seq(S)
        /\ Len(SubSeq(s, 1, n)) = n /\ \A k \in 1..n : SubSeq(s, 1, n)[k] = s[k]
        /\ Len(SubSeq(s, n + 1, Len(s))) = Len(s) - n
        /\ \A k \in 1..Len(s) - n : SubSeq(s, n + 1, Len(s))[k] = s[k + n]
<1>1. Len(s) \in Nat BY ItemsOf
<1> QED BY <1>1

\* As long as nothing is lost, a buffer only grows, but for an event of no line.
LEMMA NothingLost ==
  ASSUME NEW S \in SUBSET AnyEvents, \A f \in S : f.from = "catchup" => f.line > 0,
         NEW b \in Buffers, b.queue \in Seq(S), NEW e \in S
  PROVE /\ Mirror!Enqueue(b, e).queue \in Seq(S)
        /\ Mirror!Enqueue(b, e).lost = {} =>
             /\ b.lost = {}
             /\ \/ Mirror!Enqueue(b, e).queue = Append(b.queue, e)
                \/ Mirror!Enqueue(b, e).queue = b.queue /\ e.line = 0
<1> DEFINE q == b.queue
           r == Mirror!Enqueue(b, e)
           lowest == {i \in DOMAIN q : /\ Mirror!Rank(q[i]) < Mirror!Rank(e)
                                       /\ \A h \in DOMAIN q : Mirror!Rank(q[i]) <= Mirror!Rank(q[h])}
           i == Mirror!Min(lowest)
<1>1. Len(q) \in Nat /\ DOMAIN q = 1..Len(q) /\ \A k \in 1..Len(q) : q[k] \in S BY ItemsOf
<1>2. \A f \in AnyEvents : f.line # 0 => Mirror!LinesOf({f}) # {}
  <2> TAKE f \in AnyEvents
  <2>1. f.line # 0 => f.line > 0 BY DEF AnyEvents
  <2> QED BY <2>1 DEF Mirror!LinesOf
<1>3. CASE Len(q) < BufferSize
  <2>1. r = [queue |-> Append(q, e), dropped |-> b.dropped, lost |-> b.lost]
    BY <1>3 DEF Mirror!Enqueue, Mirror!Buffer
  <2> QED BY <2>1
<1>4. CASE ~ Len(q) < BufferSize /\ lowest = {}
  <2>1. r = [queue |-> q, dropped |-> TRUE, lost |-> b.lost \cup Mirror!LinesOf({e})]
    BY <1>4 DEF Mirror!Enqueue, Mirror!Buffer
  <2>2. e \in AnyEvents OBVIOUS
  <2>3. r.queue = q /\ r.lost = b.lost \cup Mirror!LinesOf({e}) BY <2>1
  <2>4. r.lost = {} => b.lost = {} /\ e.line = 0 BY <1>2, <2>2, <2>3
  <2> QED BY <2>3, <2>4
<1>5. CASE ~ Len(q) < BufferSize /\ lowest # {}
  <2>1. i \in lowest
    <3>1. lowest \in SUBSET Nat BY <1>1
    <3> HIDE DEF lowest
    <3> QED BY <1>5, <3>1, LeastNumber DEF Mirror!Min
  <2>2. i \in 1..Len(q) /\ Mirror!Rank(q[i]) < Mirror!Rank(e) BY <1>1, <2>1
  <2> DEFINE front == SubSeq(q, 1, i - 1)
             back == SubSeq(q, i + 1, Len(q))
  <2>3. r = [queue |-> Append(front \o back, e), dropped |-> TRUE,
        lost |-> b.lost \cup Mirror!LinesOf({q[i]})]
    BY <1>5, Zenon DEF Mirror!Enqueue, Mirror!Buffer
  <2> HIDE DEF i
  <2>4. front \in Seq(S) /\ back \in Seq(S)
    <3>1. i - 1 \in 0..Len(q) /\ i \in 0..Len(q) BY <1>1, <2>2
    <3> QED BY <3>1, PartsOf
  <2>5. q[i].line > 0
    <3>1. q[i] \in S BY <1>1, <2>2
    <3>2. q[i].from = "catchup" BY <2>2 DEF Mirror!Rank
    <3> QED BY <3>1, <3>2
  <2>6. Mirror!LinesOf({q[i]}) # {}
    <3>1. q[i] \in AnyEvents BY <1>1, <2>2
    <3>2. q[i].line # 0 BY <2>5
    <3> QED BY <3>1, <3>2, <1>2
  <2> HIDE DEF front, back
  <2>7. Append(front \o back, e) \in Seq(S) BY <2>4
  <2>8. r.queue = Append(front \o back, e) /\ r.lost = b.lost \cup Mirror!LinesOf({q[i]}) BY <2>3
  <2>9. r.lost # {} BY <2>6, <2>8
  <2> QED BY <2>7, <2>8, <2>9
<1> QED BY <1>3, <1>4, <1>5

\* One more event at the end.
LEMMA AppendBrings ==
  ASSUME NEW q \in Seq(AnyEvents), NEW e \in AnyEvents, NEW r, NEW v
  PROVE /\ e.kind = "orders" => Brings(r, Append(q, e), e.version)
        /\ e.kind # "orders" /\ Brings(r, q, v) => Brings(r, Append(q, e), v)
<1> DEFINE s == Append(q, e)
           n == Len(q)
<1>1. n \in Nat /\ Len(s) = n + 1 /\ s[n + 1] = e /\ \A k \in 1..n : s[k] = q[k] BY ItemsOf
<1> HIDE DEF s, n
<1>2. ASSUME e.kind = "orders" PROVE Brings(r, s, e.version)
  <2>1. n + 1 \in 1..Len(s) /\ \A k \in n + 1 + 1..Len(s) : FALSE BY <1>1
  <2> QED BY <1>1, <1>2, <2>1 DEF Brings
<1>3. ASSUME e.kind # "orders", Brings(r, q, v) PROVE Brings(r, s, v)
  <2>1. CASE r = v /\ \A i \in 1..n : q[i].kind # "orders"
    BY <1>1, <1>3, <2>1 DEF Brings
  <2>2. CASE \E i \in 1..n : /\ q[i].kind = "orders" /\ q[i].version = v
                             /\ \A k \in i + 1..n : q[k].kind # "orders"
    <3>1. PICK i \in 1..n : /\ q[i].kind = "orders" /\ q[i].version = v
                            /\ \A k \in i + 1..n : q[k].kind # "orders"
      BY <2>2
    <3>2. i \in 1..Len(s) /\ s[i] = q[i] BY <1>1
    <3>3. \A k \in i + 1..Len(s) : k \in i + 1..n \/ k = n + 1 BY <1>1
    <3>4. \A k \in i + 1..n : s[k] = q[k] BY <1>1
    <3> QED BY <1>1, <1>3, <3>1, <3>2, <3>3, <3>4 DEF Brings
  <2> QED BY <1>3, <2>1, <2>2 DEF Brings, n
<1> QED BY <1>2, <1>3 DEF s

\* What is written goes from the buffer to the row.
LEMMA WriteBrings ==
  ASSUME NEW S \in SUBSET AnyEvents, NEW q \in Seq(S), NEW n \in 0..Len(q), Mirror!Write(SubSeq(q, 1, n))
  PROVE /\ m_row' = m_row \/ \E f \in S : f.kind = "orders" /\ m_row' = f.version
        /\ \A v : Brings(m_row, q, v) => Brings(m_row', SubSeq(q, n + 1, Len(q)), v)
<1> DEFINE front == SubSeq(q, 1, n)
           back == SubSeq(q, n + 1, Len(q))
           states == {i \in DOMAIN front : front[i].kind = "orders"}
<1>1. Len(q) \in Nat /\ n \in Nat /\ n <= Len(q) BY ItemsOf
<1>2. /\ DOMAIN front = 1..n /\ (\A k \in 1..n : front[k] = q[k] /\ q[k] \in S)
      /\ Len(back) = Len(q) - n /\ \A k \in 1..Len(q) - n : back[k] = q[k + n]
  <2>1. \A k \in 1..n : q[k] \in S BY <1>1, ItemsOf
  <2>2. front \in Seq(S) /\ Len(front) = n BY PartsOf
  <2>3. DOMAIN front = 1..n BY <2>2, ItemsOf
  <2> QED BY <2>1, <2>3, PartsOf
<1>3. m_row' = IF states = {} THEN m_row ELSE front[Mirror!Max(states)].version BY DEF Mirror!Write
<1> HIDE DEF front, back
<1>4. states # {} => Mirror!Max(states) \in states /\ \A i \in states : Mirror!Max(states) >= i
  <2>1. states \in SUBSET (0..n) BY <1>1, <1>2
  <2> HIDE DEF states
  <2> SUFFICES ASSUME states # {} PROVE Mirror!Max(states) \in states
      /\ \A i \in states : Mirror!Max(states) >= i
    OBVIOUS
  <2>2. PICK m \in states : \A i \in states : m >= i BY <1>1, <2>1, GreatestNumber
  <2> QED BY <2>2 DEF Mirror!Max
<1>5. \A i : i \in states <=> i \in 1..n /\ q[i].kind = "orders" BY <1>2
<1> DEFINE m == Mirror!Max(states)
<1>6. states # {} => m \in 1..n /\ q[m].kind = "orders" /\ m_row' = q[m].version
                     /\ \A i \in m + 1..n : q[i].kind # "orders"
  <2> SUFFICES ASSUME states # {}
               PROVE m \in 1..n /\ q[m].kind = "orders" /\ m_row' = q[m].version
                     /\ \A i \in m + 1..n : q[i].kind # "orders"
    OBVIOUS
  <2>1. m \in states /\ \A i \in states : m >= i BY <1>4
  <2> HIDE DEF m, states
  <2>2. m \in 1..n /\ q[m].kind = "orders" BY <2>1, <1>5
  <2>3. m_row' = q[m].version BY <1>2, <1>3, <2>2 DEF m
  <2>4. \A i \in m + 1..n : i \in 1..n /\ ~ m >= i BY <1>1, <2>2
  <2> QED BY <1>5, <2>1, <2>2, <2>3, <2>4
<1> HIDE DEF m, states
<1>7. m_row' = m_row \/ \E f \in S : f.kind = "orders" /\ m_row' = f.version
  BY <1>2, <1>3, <1>6
<1>8. ASSUME NEW v, Brings(m_row, q, v) PROVE Brings(m_row', back, v)
  <2>1. CASE m_row = v /\ \A i \in 1..Len(q) : q[i].kind # "orders"
    <3>1. states = {} BY <1>1, <1>5, <2>1
    <3>2. \A k \in 1..Len(q) - n : k + n \in 1..Len(q) BY <1>1
    <3> QED BY <1>2, <1>3, <2>1, <3>1, <3>2 DEF Brings
  <2>2. CASE \E i \in 1..Len(q) : /\ q[i].kind = "orders" /\ q[i].version = v
                                  /\ \A k \in i + 1..Len(q) : q[k].kind # "orders"
    <3>1. PICK i \in 1..Len(q) : /\ q[i].kind = "orders" /\ q[i].version = v
                                 /\ \A k \in i + 1..Len(q) : q[k].kind # "orders"
      BY <2>2
    <3>2. CASE i <= n
      <4>1. i \in 1..n BY <1>1, <3>2
      <4>2. states # {} BY <1>5, <3>1, <4>1
      <4>3. m \in 1..Len(q) /\ (m > i => m \in i + 1..Len(q)) /\ (i > m => i \in m + 1..n)
        BY <1>1, <1>6, <4>1, <4>2
      <4>4. m = i BY <1>1, <1>6, <3>1, <4>1, <4>2, <4>3
      <4>5. m_row' = v BY <1>6, <3>1, <4>2, <4>4
      <4>6. \A k \in 1..Len(q) - n : k + n \in i + 1..Len(q) BY <1>1, <4>1
      <4>7. \A k \in 1..Len(back) : back[k].kind # "orders" BY <1>2, <3>1, <4>6
      <4> QED BY <4>5, <4>7 DEF Brings
    <3>3. CASE i > n
      <4>1. i - n \in 1..Len(q) - n /\ (i - n) + n = i BY <1>1, <3>3
      <4>2. back[i - n] = q[i] /\ i - n \in 1..Len(back) BY <1>2, <4>1
      <4>3. \A k \in (i - n) + 1..Len(q) - n : k \in 1..Len(q) - n /\ k + n \in i + 1..Len(q)
        BY <1>1, <3>3
      <4>4. \A k \in (i - n) + 1..Len(back) : back[k].kind # "orders" BY <1>2, <3>1, <4>3
      <4> QED BY <3>1, <4>2, <4>4 DEF Brings
    <3> QED BY <3>2, <3>3, <1>1
  <2> QED BY <1>8, <2>1, <2>2 DEF Brings
<1> QED BY <1>7, <1>8 DEF back

LEMMA FitsStill ==
  ASSUME NEW lines, NEW longer, NEW v \in Nat, NEW w \in Nat, Len(lines) \in Nat, Len(longer) \in Nat,
         Len(lines) <= Len(longer), v <= w, w = v /\ Tells(longer, w) => Tells(lines, v)
  PROVE Fitting(lines, v) \subseteq Fitting(longer, w)
<1> SUFFICES ASSUME NEW e \in Fitting(lines, v) PROVE e \in Fitting(longer, w) OBVIOUS
<1>1. e \in AnyEvents /\ e.line \in Nat /\ e.version \in Int BY DEF Fitting, AnyEvents
<1>2. e.from = "catchup" => e.line > 0 BY DEF Fitting
<1>3. ASSUME e.kind = "orders"
      PROVE /\ 1 <= e.version /\ e.version <= w /\ e.line <= Len(longer)
            /\ e.line = 0 /\ e.version = w => ~Tells(longer, w)
  <2>1. /\ 1 <= e.version /\ e.version <= v /\ e.line <= Len(lines)
        /\ e.line = 0 /\ e.version = v => ~Tells(lines, v)
    BY <1>3 DEF Fitting
  <2>2. e.version <= w /\ e.line <= Len(longer) BY <1>1, <2>1
  <2>3. e.version = w => v = w BY <1>1, <2>1
  <2> QED BY <2>1, <2>2, <2>3
<1> QED BY <1>1, <1>2, <1>3 DEF Fitting

\* A flush shows on the row what it takes from the buffer.
LEMMA FlushBrings ==
  ASSUME NEW b \in Buffers, NEW S \in SUBSET AnyEvents, b.queue \in Seq(S), Mirror!FlushOnce(b)
  PROVE /\ m_lost' = b.lost /\ m_queue' \in Seq(S)
        /\ m_row' = m_row \/ \E f \in S : f.kind = "orders" /\ m_row' = f.version
        /\ \A v : Brings(m_row, b.queue, v) => Brings(m_row', m_queue', v)
<1> DEFINE q == b.queue
           n == Mirror!Min({BatchSize, Len(q)})
           front == SubSeq(q, 1, n)
           back == SubSeq(q, n + 1, Len(q))
<1>1. q \in Seq(S) /\ Len(q) \in Nat BY ItemsOf
<1>2. CASE Mirror!Becomes(b) /\ UNCHANGED m_row BY <1>2 DEF Mirror!Becomes
<1>3. CASE Mirror!Write(front) /\ Mirror!Becomes(Mirror!Buffer(back, b.dropped, b.lost))
  <2>1. n \in 0..Len(q)
    <3>1. {BatchSize, Len(q)} \in SUBSET Nat BY <1>1, MirrorConstants
    <3>2. n \in {BatchSize, Len(q)} /\ \A m \in {BatchSize, Len(q)} : n <= m
      BY <3>1, LeastNumber DEF Mirror!Min
    <3> HIDE DEF n
    <3> QED BY <1>1, <3>2, MirrorConstants
  <2> HIDE DEF n
  <2>2. m_queue' = back /\ m_lost' = b.lost BY <1>3 DEF Mirror!Becomes, Mirror!Buffer
  <2>3. back \in Seq(S) BY <2>1, <1>1, PartsOf
  <2>4. Mirror!Write(SubSeq(q, 1, n)) BY <1>3
  <2>5. m_row' = m_row \/ \E f \in S : f.kind = "orders" /\ m_row' = f.version
    BY <1>1, <2>1, <2>4, WriteBrings
  <2>6. \A v : Brings(m_row, q, v) => Brings(m_row', back, v) BY <1>1, <2>1, <2>4, WriteBrings
  <2> QED BY <2>2, <2>3, <2>5, <2>6
<1> QED BY <1>2, <1>3, Zenon DEF Mirror!FlushOnce

\* The row never shows a state the order has not reached.
LEMMA RowWithin ==
  ASSUME m_row \in Nat, m_row <= m_version, m_version \in Nat, NEW lines,
         m_row' = m_row \/ \E f \in Fitting(lines, m_version) : f.kind = "orders" /\ m_row' = f.version
  PROVE m_row' \in Nat /\ m_row' <= m_version
<1>1. \A f \in Fitting(lines, m_version) : f.kind = "orders" => f.version \in Nat
      /\ f.version <= m_version
  <2> TAKE f \in Fitting(lines, m_version)
  <2>1. f.version \in Int BY DEF Fitting, AnyEvents
  <2> QED BY <2>1 DEF Fitting
<1> QED BY <1>1

LEMMA RowStarts == Mirror!Init => RowInv
<1> SUFFICES ASSUME Mirror!Init PROVE RowInv OBVIOUS
<1>1. OrderLines = <<>> BY DEF Mirror!Init, OrderLines, Mirror!Journals
<1>2. m_queue = <<>> /\ m_row = 0 /\ m_version = 0 /\ m_daemon = "tick" BY DEF Mirror!Init
<1>3. ~Tells(OrderLines, m_version) BY <1>2 DEF Tells
<1>4. m_queue \in Seq(Fitting(OrderLines, m_version)) BY <1>2
<1> QED BY <1>1, <1>2, <1>3, <1>4 DEF RowInv, BroughtAt

LEMMA RowFlush ==
  ASSUME RowInv, m_version \in Nat, Mirror!Now \in Buffers, Mirror!FlushOnce(Mirror!Now),
           UNCHANGED <<m_journal, m_cursor, m_version, m_replay>>,
         m_daemon' = "replay" => m_daemon = "replay"
  PROVE RowInv'
<1> DEFINE S == Fitting(OrderLines, m_version)
<1>1. Mirror!Now.queue = m_queue /\ Mirror!Now.lost = m_lost BY DEF Mirror!Now, Mirror!Buffer
<1>2. S \in SUBSET AnyEvents /\ m_queue \in Seq(S) BY FitsAny DEF RowInv
<1> HIDE DEF S
<1>3. /\ m_lost' = m_lost /\ m_queue' \in Seq(S)
      /\ m_row' = m_row \/ \E f \in S : f.kind = "orders" /\ m_row' = f.version
      /\ \A v : Brings(m_row, m_queue, v) => Brings(m_row', m_queue', v)
  BY <1>1, <1>2, FlushBrings
<1>4. m_row' \in Nat /\ m_row' <= m_version BY <1>3, RowWithin DEF RowInv, S
<1>5. OrderLines' = OrderLines BY DEF OrderLines
<1>6. \A n : BroughtAt(OrderLines, m_lost, n, m_row, m_queue, m_version)
             => BroughtAt(OrderLines, m_lost', n, m_row', m_queue', m_version)
  BY <1>3 DEF BroughtAt
<1> QED BY <1>3, <1>4, <1>5, <1>6 DEF RowInv, S

LEMMA RowReport ==
  ASSUME RowInv, m_version \in Nat, Mirror!Now \in Buffers, Mirror!Report
  PROVE RowInv'
<1> DEFINE S == Fitting(OrderLines, m_version)
           e == Mirror!Event("live", "snapshots", 0, 0)
           b == Mirror!Enqueue(Mirror!Now, e)
<1>1. Mirror!Now.queue = m_queue /\ Mirror!Now.lost = m_lost BY DEF Mirror!Now, Mirror!Buffer
<1>2. S \in SUBSET AnyEvents /\ m_queue \in Seq(S) BY FitsAny DEF RowInv
<1>3. e \in S BY DEF Mirror!Event, AnyEvents, Fitting
<1>4. \A f \in S : f.from = "catchup" => f.line > 0 BY DEF Fitting
<1>5. e.kind # "orders" BY DEF Mirror!Event
<1>6. Mirror!FlushOnce(b) /\ UNCHANGED <<m_journal, m_cursor, m_version>>
      /\ (m_daemon' = "replay" => m_replay'.next = m_cursor)
  BY DEF Mirror!Report
<1> HIDE DEF S, e
<1>7. b \in Buffers BY <1>2, <1>3, EnqueueKeeps
<1>8. /\ b.queue \in Seq(S)
      /\ b.lost = {} => m_lost = {} /\ (b.queue = Append(m_queue, e) \/ b.queue = m_queue)
  BY <1>1, <1>2, <1>3, <1>4, NothingLost
<1> HIDE DEF b
<1>9. \A v : b.lost = {} /\ Brings(m_row, m_queue, v) => Brings(m_row, b.queue, v)
  <2>1. m_queue \in Seq(AnyEvents) /\ e \in AnyEvents BY <1>2, <1>3, SeqsIn
  <2> QED BY <2>1, <1>5, <1>8, AppendBrings
<1>10. /\ m_lost' = b.lost /\ m_queue' \in Seq(S)
       /\ m_row' = m_row \/ \E f \in S : f.kind = "orders" /\ m_row' = f.version
       /\ \A v : Brings(m_row, b.queue, v) => Brings(m_row', m_queue', v)
  BY <1>2, <1>6, <1>7, <1>8, FlushBrings
<1>11. m_row' \in Nat /\ m_row' <= m_version BY <1>10, RowWithin DEF RowInv, S
<1>12. OrderLines' = OrderLines BY <1>6 DEF OrderLines
<1>13. BroughtAt(OrderLines, m_lost', m_cursor["orders"], m_row', m_queue', m_version)
  BY <1>8, <1>9, <1>10 DEF BroughtAt, RowInv
<1> QED BY <1>6, <1>10, <1>11, <1>12, <1>13 DEF RowInv, S

\* What an append means for the lines of the order, if its version is w from then on.
LEMMA OrderLinesGrow ==
  ASSUME MirrorTypes, RowInv, NEW j \in Mirror!Journals, NEW v \in {Mirror!Torn, Mirror!Upcoming(j)},
         NEW w, w = IF j = "orders" /\ v # Mirror!Torn THEN v ELSE m_version,
         NEW longer, longer = Mirror!Appended(j, v)["orders"]
  PROVE /\ w \in Nat /\ m_version <= w /\ Len(OrderLines) \in Nat
        /\ Len(longer) \in Nat /\ Len(OrderLines) <= Len(longer)
        /\ \A i \in 1..Len(longer) : longer[i] <= w
        /\ j # "orders" => longer = OrderLines
        /\ j = "orders" /\ Tells(longer, w) => v = w /\ w > m_version
           /\ Len(longer) = Len(OrderLines) + 1
        /\ Fitting(OrderLines, m_version) \subseteq Fitting(longer, w)
<1> DEFINE lines == OrderLines
           last == Len(lines)
<1>1. m_version \in Nat /\ m_journal \in [Mirror!Journals -> Seq(Int)] /\ "orders" \in Mirror!Journals
  BY DEF MirrorTypes, Mirror!Journals
<1>2. lines \in Seq(Int) /\ last \in Nat /\ \A i \in 1..last : lines[i] \in Int /\ lines[i] <= m_version
  BY <1>1, ItemsOf DEF OrderLines, RowInv
<1>3. w \in Nat /\ m_version <= w /\ v \in Int BY <1>1 DEF Mirror!Upcoming, Mirror!Torn
<1>4. CASE j # "orders"
  <2>1. longer = lines
    <3>1. \E s : Mirror!Appended(j, v) = [m_journal EXCEPT ![j] = s] BY DEF Mirror!Appended
    <3> QED BY <3>1, <1>1, <1>4 DEF OrderLines
  <2>2. w = m_version BY <1>4
  <2> QED BY <1>2, <1>3, <1>4, <2>1, <2>2, FitsStill
<1>5. CASE j = "orders" /\ last > 0 /\ lines[last] = Mirror!Torn
  <2>1. Mirror!Appended(j, v)
        = [m_journal EXCEPT !["orders"] = [lines EXCEPT ![last] = Mirror!Unreadable]]
    BY <1>1, <1>5 DEF Mirror!Appended, OrderLines
  <2>2. longer = [lines EXCEPT ![last] = Mirror!Unreadable] BY <1>1, <2>1
  <2>3. Len(longer) = last /\ longer[last] = 0 /\ \A i \in 1..last : i # last => longer[i] = lines[i]
    BY <1>2, <1>5, <2>2 DEF Mirror!Unreadable
  <2>4. \A i \in 1..last : longer[i] <= w
    <3> TAKE i \in 1..last
    <3>1. CASE i = last BY <3>1, <1>3, <2>3
    <3>2. CASE i # last BY <3>2, <1>1, <1>2, <1>3, <2>3
    <3> QED BY <3>1, <3>2
  <2>5. ~Tells(longer, w) BY <2>3 DEF Tells
  <2> HIDE DEF last
  <2> QED BY <1>1, <1>2, <1>3, <1>5, <2>3, <2>4, <2>5, FitsStill DEF last
<1>6. CASE j = "orders" /\ ~(last > 0 /\ lines[last] = Mirror!Torn)
  <2>1. Mirror!Appended(j, v) = [m_journal EXCEPT !["orders"] = Append(lines, v)]
    BY <1>1, <1>6 DEF Mirror!Appended, OrderLines
  <2>2. longer = Append(lines, v) BY <1>1, <2>1
  <2>3. Len(longer) = last + 1 /\ longer[last + 1] = v /\ \A i \in 1..last : longer[i] = lines[i]
    BY <1>2, <1>3, <2>2
  <2>4. v <= w BY <1>1, <1>3, <1>6 DEF Mirror!Torn
  <2>5. \A i \in 1..last + 1 : longer[i] <= w
    <3> TAKE i \in 1..last + 1
    <3>1. CASE i = last + 1 BY <3>1, <2>3, <2>4
    <3>2. CASE i # last + 1
      <4>1. i \in 1..last BY <3>2, <1>2
      <4>2. longer[i] = lines[i] /\ lines[i] \in Int /\ lines[i] <= m_version BY <4>1, <1>2, <2>3
      <4> QED BY <4>2, <1>1, <1>3
    <3> QED BY <3>1, <3>2
  <2>6. Tells(longer, w) => v = w /\ w > m_version
    <3>1. Tells(longer, w) => v = w /\ w > 0 BY <2>3, <1>2 DEF Tells
    <3>2. v # Mirror!Torn => w = m_version + 1 BY <1>6 DEF Mirror!Upcoming
    <3>3. v = w => v # Mirror!Torn BY <1>3 DEF Mirror!Torn
    <3> QED BY <3>1, <3>2, <3>3, <1>1
  <2>7. last + 1 \in Nat /\ last <= last + 1 BY <1>2
  <2>8. w = m_version /\ Tells(longer, w) => Tells(lines, m_version) BY <2>6, <1>1
  <2>9. Fitting(lines, m_version) \subseteq Fitting(longer, w)
    <3> HIDE DEF last
    <3> QED BY <1>1, <1>2, <1>3, <2>3, <2>7, <2>8, FitsStill DEF last
  <2> QED BY <1>2, <1>3, <1>6, <2>3, <2>5, <2>6, <2>7, <2>9
<1> QED BY <1>4, <1>5, <1>6

LEMMA RowRecord ==
  ASSUME MirrorInv, RowInv, NEW j \in Mirror!Journals, Mirror!Record(j)
  PROVE RowInv'
<1> DEFINE v == Mirror!Upcoming(j)
           grown == Mirror!Appended(j, v)
           longer == grown["orders"]
           last == Len(grown[j])
           at == IF grown[j][last] = v THEN last ELSE 0
           e == Mirror!Event("live", j, at, v)
           b == Mirror!Enqueue(Mirror!Now, e)
           w == IF j = "orders" THEN v ELSE m_version
           S == Fitting(longer, w)
<1>1. MirrorTypes /\ m_version \in Nat /\ Mirror!Now \in Buffers BY DEF MirrorInv, MirrorTypes
<1>2. v \in Nat /\ v > 0 /\ v # Mirror!Torn BY <1>1 DEF Mirror!Upcoming, Mirror!Torn
<1>3. m_journal' = grown /\ m_version' = w /\ UNCHANGED <<m_cursor, m_row>> /\ m_daemon' = "tick"
      /\ Mirror!Becomes(b)
  BY DEF Mirror!Record
<1>4. /\ w \in Nat /\ m_version <= w /\ Len(OrderLines) \in Nat
      /\ Len(longer) \in Nat /\ Len(OrderLines) <= Len(longer)
      /\ \A i \in 1..Len(longer) : longer[i] <= w
      /\ j # "orders" => longer = OrderLines
      /\ j = "orders" /\ Tells(longer, w) => v = w /\ w > m_version /\ Len(longer) = Len(OrderLines) + 1
      /\ Fitting(OrderLines, m_version) \subseteq S
  <2> HIDE DEF v
  <2>1. w = IF j = "orders" /\ v # Mirror!Torn THEN v ELSE m_version BY <1>2
  <2>2. v \in {Mirror!Torn, Mirror!Upcoming(j)} BY DEF v
  <2> HIDE DEF w
  <2> QED BY <1>1, <2>1, <2>2, OrderLinesGrow
<1>5. last \in Nat BY <1>1, <1>2, AppendGrows
<1>6. Mirror!Now.queue = m_queue /\ Mirror!Now.lost = m_lost BY DEF Mirror!Now, Mirror!Buffer
<1>7. OrderLines' = longer BY <1>3 DEF OrderLines
<1>8. e \in S
  <2> HIDE DEF v, grown
  <2>1. at \in Nat BY <1>5
  <2>2. e \in AnyEvents BY <1>2, <2>1 DEF Mirror!Event, AnyEvents
  <2>3. e.from = "live" /\ e.kind = j /\ e.line = at /\ e.version = v BY DEF Mirror!Event
  <2>4. ASSUME j = "orders"
        PROVE /\ 1 <= v /\ v <= w /\ at <= Len(longer)
              /\ at = 0 /\ v = w => ~Tells(longer, w)
    <3>1. last = Len(longer) /\ grown[j] = longer BY <2>4
    <3>2. at <= Len(longer) BY <3>1, <1>5
    <3>3. ASSUME at = 0, Tells(longer, w) PROVE FALSE
      <4>1. Len(longer) > 0 /\ longer[Len(longer)] = v BY <2>4, <3>3 DEF Tells
      <4>2. at = Len(longer) BY <3>1, <4>1
      <4> QED BY <3>3, <4>1, <4>2
    <3> QED BY <1>2, <2>4, <3>2, <3>3
  <2> HIDE DEF e, at, w, longer
  <2> QED BY <2>2, <2>3, <2>4 DEF Fitting
<1>9. \A f \in S : f.from = "catchup" => f.line > 0 BY DEF Fitting
<1>10. e.kind = j BY DEF Mirror!Event
<1> HIDE DEF v, grown, longer, at, w, e
<1>11. S \in SUBSET AnyEvents /\ m_queue \in Seq(S)
  <2>1. m_queue \in Seq(Fitting(OrderLines, m_version)) BY DEF RowInv
  <2> HIDE DEF S
  <2>2. m_queue \in Seq(S) BY <2>1, <1>4, SeqsIn
  <2> QED BY <2>2, FitsAny DEF S
<1> HIDE DEF S
<1>12. /\ b.queue \in Seq(S)
       /\ b.lost = {} => m_lost = {} /\ (b.queue = Append(m_queue, e) \/ b.queue = m_queue)
  BY <1>1, <1>6, <1>8, <1>9, <1>11, NothingLost
<1>13. m_queue' = b.queue /\ m_lost' = b.lost BY <1>3 DEF Mirror!Becomes
<1> HIDE DEF b
<1>14. m_row' \in Nat /\ m_row' <= w BY <1>1, <1>3, <1>4 DEF RowInv
<1>15. BroughtAt(longer, m_lost', m_cursor["orders"], m_row, m_queue', w)
  <2> SUFFICES ASSUME Tells(longer, w), m_lost' = {}, m_cursor["orders"] = Len(longer)
               PROVE Brings(m_row, m_queue', w)
    BY DEF BroughtAt
  <2>1. j # "orders"
    <3>1. m_cursor["orders"] <= Len(OrderLines) BY <1>1 DEF MirrorTypes, OrderLines, Mirror!Journals
    <3> QED BY <3>1, <1>4
  <2>2. longer = OrderLines /\ w = m_version BY <2>1, <1>4 DEF w
  <2>3. m_lost = {} /\ (m_queue' = Append(m_queue, e) \/ m_queue' = m_queue) BY <1>12, <1>13
  <2>4. Brings(m_row, m_queue, m_version) BY <2>2, <2>3 DEF RowInv, BroughtAt
  <2>5. m_queue \in Seq(AnyEvents) /\ e \in AnyEvents BY <1>8, <1>11, SeqsIn
  <2> QED BY <1>10, <2>1, <2>2, <2>3, <2>4, <2>5, AppendBrings
<1> QED BY <1>3, <1>4, <1>7, <1>12, <1>13, <1>14, <1>15 DEF RowInv, S

LEMMA RowRecovered ==
  ASSUME MirrorInv, RowInv, Mirror!EnqueueRecovered
  PROVE RowInv'
<1> DEFINE w == m_version + 1
           S == Fitting(OrderLines, w)
           e == Mirror!Event("live", "orders", 0, w)
           b == Mirror!Enqueue(Mirror!Now, e)
<1>1. MirrorTypes /\ m_version \in Nat /\ Mirror!Now \in Buffers BY DEF MirrorInv, MirrorTypes
<1>2. m_version' = w /\ Mirror!Becomes(b) /\ UNCHANGED <<m_journal, m_cursor, m_row, m_daemon>>
      /\ m_daemon = "tick"
  BY DEF Mirror!EnqueueRecovered, Mirror!disk
<1>3. Len(OrderLines) \in Nat
  <2>1. OrderLines \in Seq(Int) BY <1>1 DEF MirrorTypes, OrderLines, Mirror!Journals
  <2> QED BY <2>1, ItemsOf
<1>4. ~Tells(OrderLines, w)
  <2> SUFFICES ASSUME Tells(OrderLines, w) PROVE FALSE OBVIOUS
  <2>1. Len(OrderLines) \in 1..Len(OrderLines) /\ OrderLines[Len(OrderLines)] = w
    BY <1>3 DEF Tells
  <2>2. w <= m_version BY <2>1 DEF RowInv
  <2> QED BY <1>1, <2>2
<1>5. w \in Nat /\ m_version <= w /\ 1 <= w BY <1>1
<1> HIDE DEF w
<1>6. Fitting(OrderLines, m_version) \subseteq S
  <2>1. w = m_version /\ Tells(OrderLines, w) => Tells(OrderLines, m_version) BY <1>4
  <2>2. Len(OrderLines) <= Len(OrderLines) BY <1>3
  <2> QED BY <1>1, <1>3, <1>5, <2>1, <2>2, FitsStill
<1>7. e \in S BY <1>3, <1>4, <1>5 DEF Mirror!Event, AnyEvents, Fitting, Mirror!Journals
<1>8. \A f \in S : f.from = "catchup" => f.line > 0 BY DEF Fitting
<1>9. Mirror!Now.queue = m_queue /\ Mirror!Now.lost = m_lost BY DEF Mirror!Now, Mirror!Buffer
<1> HIDE DEF S, e
<1>10. S \in SUBSET AnyEvents /\ m_queue \in Seq(S)
  <2>1. m_queue \in Seq(Fitting(OrderLines, m_version)) BY DEF RowInv
  <2>2. m_queue \in Seq(S) BY <2>1, <1>6, SeqsIn
  <2> QED BY <2>2, FitsAny DEF S
<1>11. b.queue \in Seq(S) BY <1>1, <1>7, <1>8, <1>9, <1>10, NothingLost
<1>12. m_queue' = b.queue BY <1>2 DEF Mirror!Becomes
<1> HIDE DEF b
<1>13. OrderLines' = OrderLines BY <1>2 DEF OrderLines
<1>14. m_row' \in Nat /\ m_row' <= w BY <1>1, <1>2, <1>5 DEF RowInv
<1>15. \A i \in 1..Len(OrderLines) : OrderLines[i] <= w
  <2> TAKE i \in 1..Len(OrderLines)
  <2>1. OrderLines[i] <= m_version BY DEF RowInv
  <2>2. OrderLines[i] \in Int
    <3>1. OrderLines \in Seq(Int) BY <1>1 DEF MirrorTypes, OrderLines, Mirror!Journals
    <3> QED BY <3>1, ItemsOf
  <2> QED BY <1>1, <1>5, <2>1, <2>2
<1>16. BroughtAt(OrderLines, m_lost', m_cursor["orders"], m_row, m_queue', w) BY <1>4 DEF BroughtAt
<1> QED BY <1>2, <1>11, <1>12, <1>13, <1>14, <1>15, <1>16 DEF RowInv, S

\* The replay of a journal brings the last of its lines.
LEMMA ReplayBrings ==
  ASSUME MirrorTypes, RowInv, NEW j \in Mirror!Journals, NEW to \in Nat, to <= Len(m_journal[j]),
         NEW lines, lines = Mirror!Unseen(j, to), NEW b, b = Filled(j, lines)[lines]
  PROVE /\ b.queue \in Seq(Fitting(OrderLines, m_version))
        /\ lines = {} => b = Mirror!Now
        /\ b.lost = {} =>
             /\ m_lost = {}
             /\ j # "orders" => \A v : Brings(m_row, m_queue, v) => Brings(m_row, b.queue, v)
             /\ j = "orders" /\ lines # {} => Brings(m_row, b.queue, OrderLines[Mirror!Max(lines)])
<1> DEFINE S == Fitting(OrderLines, m_version)
           Fine(d, s) ==
             /\ d.queue \in Seq(S)
             /\ s = {} => d = Mirror!Now
             /\ d.lost = {} =>
                  /\ m_lost = {}
                  /\ j # "orders" => \A v : Brings(m_row, m_queue, v) => Brings(m_row, d.queue, v)
                  /\ j = "orders" /\ s # {} => Brings(m_row, d.queue, OrderLines[Mirror!Max(s)])
           good == [s \in SUBSET lines |-> {d \in Buffers : Fine(d, s)}]
           filled == Filled(j, lines)
<1>1. /\ IsFiniteSet(lines) /\ lines \in SUBSET (1..to)
      /\ \A i \in lines : CatchUp(j, i) \in AnyEvents
      /\ \A s \in SUBSET lines : s # {} => Mirror!Max(s) \in s
  BY ReplayLines
<1>2. /\ filled[{}] = Mirror!Now
      /\ \A s \in SUBSET lines : s # {} =>
           filled[s] = Mirror!Enqueue(filled[s \ {Mirror!Max(s)}], CatchUp(j, Mirror!Max(s)))
  BY FilledByLine
<1>3. S \in SUBSET AnyEvents /\ \A f \in S : f.from = "catchup" => f.line > 0
  BY DEF Fitting
<1>4. \A i \in lines : CatchUp(j, i) \in S /\ CatchUp(j, i).line # 0 /\ CatchUp(j, i).kind = j
                       /\ CatchUp(j, i).version = m_journal[j][i]
  <2> TAKE i \in lines
  <2>1. /\ CatchUp(j, i).from = "catchup" /\ CatchUp(j, i).kind = j /\ CatchUp(j, i).line = i
        /\ CatchUp(j, i).version = m_journal[j][i]
    BY DEF CatchUp, Mirror!Event
  <2>2. i > 0 /\ i # 0 /\ i <= to BY <1>1
  <2>3. m_journal[j][i] > 0 BY DEF Mirror!Unseen, Mirror!Readable
  <2>4. ASSUME j = "orders"
        PROVE 1 <= m_journal[j][i] /\ m_journal[j][i] <= m_version /\ i <= Len(OrderLines)
    <3>1. OrderLines \in Seq(Int) /\ OrderLines = m_journal[j] BY <2>4 DEF MirrorTypes, OrderLines
    <3>2. Len(OrderLines) \in Nat BY <3>1, ItemsOf
    <3>3. i \in 1..Len(OrderLines) BY <1>1, <3>1, <3>2
    <3>4. OrderLines[i] <= m_version /\ OrderLines[i] \in Int BY <3>1, <3>3, ItemsOf DEF RowInv
    <3> QED BY <2>3, <3>1, <3>3, <3>4
  <2> QED BY <1>1, <2>1, <2>2, <2>4 DEF Fitting
<1>5. Mirror!Now.queue = m_queue /\ Mirror!Now.lost = m_lost /\ Mirror!Now \in Buffers
  BY DEF Mirror!Now, Mirror!Buffer, MirrorTypes
<1> HIDE DEF S, filled
<1>6. filled[{}] \in good[{}] BY <1>2, <1>5 DEF RowInv, S
<1>7. ASSUME NEW s \in SUBSET lines, s # {}
      PROVE \E x \in s : filled[s \ {x}] \in good[s \ {x}] => filled[s] \in good[s]
  <2> DEFINE x == Mirror!Max(s)
             d == filled[s \ {x}]
             e == CatchUp(j, x)
             c == Mirror!Enqueue(d, e)
  <2>1. x \in s BY <1>1, <1>7
  <2>2. filled[s] = c BY <1>2, <1>7
  <2> SUFFICES ASSUME d \in good[s \ {x}] PROVE c \in good[s] BY <2>1, <2>2
  <2>3. s \ {x} \in SUBSET lines OBVIOUS
  <2>4. d \in Buffers /\ Fine(d, s \ {x}) BY <2>3
  <2>5. e \in S /\ e.line # 0 /\ e.kind = j /\ e.version = m_journal[j][x] /\ e \in AnyEvents
    BY <1>1, <1>4, <2>1
  <2> HIDE DEF d, e, x
  <2>6. d.queue \in Seq(S) /\ d.queue \in Seq(AnyEvents) BY <1>3, <2>4, SeqsIn
  <2>7. c \in Buffers BY <2>4, <2>5, EnqueueKeeps
  <2>8. c.queue \in Seq(S) /\ (c.lost = {} => d.lost = {} /\ c.queue = Append(d.queue, e))
    BY <1>3, <2>4, <2>5, <2>6, NothingLost
  <2> HIDE DEF c
  <2>9. ASSUME c.lost = {}, j # "orders", NEW v, Brings(m_row, m_queue, v)
        PROVE Brings(m_row, c.queue, v)
    <3>1. Brings(m_row, d.queue, v) BY <2>4, <2>8, <2>9
    <3>2. e.kind # "orders" /\ c.queue = Append(d.queue, e) BY <2>5, <2>8, <2>9
    <3>3. Brings(m_row, Append(d.queue, e), v) BY <2>5, <2>6, <3>1, <3>2, AppendBrings
    <3> QED BY <3>2, <3>3
  <2>10. ASSUME c.lost = {}, j = "orders" PROVE Brings(m_row, c.queue, OrderLines[x])
    <3>1. OrderLines[x] = e.version BY <2>5, <2>10 DEF OrderLines
    <3> QED BY <2>5, <2>6, <2>8, <2>10, <3>1, AppendBrings
  <2>11. Fine(c, s) BY <1>7, <2>4, <2>8, <2>9, <2>10 DEF x
  <2> HIDE DEF Fine
  <2> QED BY <2>7, <2>11
<1>8. \A s \in SUBSET lines : filled[s] \in good[s]
  <2> HIDE DEF good
  <2> QED BY <1>1, <1>6, <1>7, FoldStays
<1>9. b \in good[lines] BY <1>8 DEF filled
<1>10. Fine(b, lines)
  <2> HIDE DEF Fine
  <2> QED BY <1>9
<1> QED BY <1>10 DEF S

LEMMA RowReplay ==
  ASSUME MirrorInv, RowInv, Mirror!ReplayJournal
  PROVE RowInv'
<1> DEFINE j == Head(m_replay.todo)
           to == Mirror!Reach(j)
           lines == Mirror!Unseen(j, to)
           b == Filled(j, lines)[lines]
<1>1. MirrorTypes /\ ReplayIsAhead /\ Mirror!Now \in Buffers
  BY DEF MirrorInv, Mirror!ReplayJournal, MirrorTypes
<1>2. m_replay \in [budget : Int, count : Nat, todo : Seq(Mirror!Journals),
      next : [Mirror!Journals -> Nat]]
  BY <1>1 DEF ReplayIsAhead
<1>3. m_replay.todo \in Seq(Mirror!Journals) /\ m_replay.todo # <<>>
  BY <1>2 DEF Mirror!ReplayJournal, Mirror!Exhausted
<1>4. j \in Mirror!Journals BY <1>3
<1>5. /\ Mirror!Becomes(b)
      /\ m_replay' = [m_replay EXCEPT !.todo = Tail(@), !.count = @ + Mirror!Cardinality(lines),
         !.next[j] = to]
  BY ReplayFills
<1>6. UNCHANGED <<Mirror!disk, m_version, m_daemon>> BY DEF Mirror!ReplayJournal
<1> HIDE DEF j
<1>7. to \in Nat /\ m_cursor[j] <= to /\ to <= Len(m_journal[j]) BY <1>1, <1>4, ReachBounds
<1>8. m_replay'.next["orders"] = IF j = "orders" THEN to ELSE m_replay.next["orders"]
  <2>1. m_replay'.next = [m_replay.next EXCEPT ![j] = to] BY <1>2, <1>5
  <2> HIDE DEF to
  <2> QED BY <2>1, <1>2, <1>4 DEF Mirror!Journals
<1> HIDE DEF to
<1>9. b \in Buffers BY <1>1, <1>4, <1>7, ReplayKeeps
<1>10. /\ b.queue \in Seq(Fitting(OrderLines, m_version))
       /\ lines = {} => b = Mirror!Now
       /\ b.lost = {} =>
            /\ m_lost = {}
            /\ j # "orders" => \A v : Brings(m_row, m_queue, v) => Brings(m_row, b.queue, v)
            /\ j = "orders" /\ lines # {} => Brings(m_row, b.queue, OrderLines[Mirror!Max(lines)])
  BY <1>1, <1>4, <1>7, ReplayBrings
<1>11. m_queue' = b.queue /\ m_lost' = b.lost BY <1>5 DEF Mirror!Becomes
<1> HIDE DEF b
<1>12. UNCHANGED <<OrderLines, m_cursor, m_row, m_version, m_daemon>> BY <1>6 DEF Mirror!disk, OrderLines
<1>13. ASSUME NEW n, Tells(OrderLines, m_version), b.lost = {}, n = Len(OrderLines),
              \/ n = m_cursor["orders"]
              \/ n = IF j = "orders" THEN to ELSE m_replay.next["orders"]
       PROVE Brings(m_row, b.queue, m_version)
  <2>1. CASE j # "orders"
    <3>1. n = m_cursor["orders"] \/ n = m_replay.next["orders"] BY <1>13, <2>1
    <3>2. m_lost = {} BY <1>10, <1>13
    <3>3. m_daemon = "replay" BY DEF Mirror!ReplayJournal
    <3>4. Brings(m_row, m_queue, m_version) BY <1>13, <3>1, <3>2, <3>3 DEF RowInv, BroughtAt
    <3> QED BY <1>10, <1>13, <2>1, <3>4
  <2>2. CASE j = "orders" /\ lines = {}
    <3>1. Mirror!Now.queue = m_queue /\ Mirror!Now.lost = m_lost BY DEF Mirror!Now, Mirror!Buffer
    <3>2. n = m_cursor["orders"]
      <4> SUFFICES ASSUME n # m_cursor["orders"] PROVE FALSE OBVIOUS
      <4>1. n = to /\ m_cursor[j] < n /\ n \in Nat /\ m_cursor[j] \in Nat
        BY <1>1, <1>4, <1>7, <1>13, <2>2 DEF MirrorTypes
      <4>2. n \in m_cursor[j] + 1..to /\ Mirror!Readable(j, n)
        BY <1>13, <2>2, <4>1 DEF Tells, Mirror!Readable, OrderLines
      <4> QED BY <2>2, <4>2 DEF Mirror!Unseen
    <3> QED BY <1>10, <1>13, <2>2, <3>1, <3>2 DEF RowInv, BroughtAt
  <2>3. CASE j = "orders" /\ lines # {}
    <3>0. OrderLines = m_journal[j] /\ Len(m_journal[j]) \in Nat /\ m_cursor[j] \in Nat
      <4>1. m_journal[j] \in Seq(Int) /\ m_cursor[j] \in Nat BY <1>1, <1>4 DEF MirrorTypes
      <4> QED BY <2>3, <4>1, ItemsOf DEF OrderLines
    <3>1. Mirror!Max(lines) \in lines /\ \A i \in lines : Mirror!Max(lines) >= i
      BY <1>1, <1>4, <1>7, <2>3, ReplayLines
    <3>2. \A i \in lines : i \in m_cursor[j] + 1..to BY DEF Mirror!Unseen
    <3>3. n = to
      <4>1. m_cursor[j] < to BY <1>7, <3>0, <3>1, <3>2
      <4> QED BY <1>7, <1>13, <2>3, <3>0, <4>1
    <3>4. n \in lines
      <4>1. n \in m_cursor[j] + 1..to BY <1>7, <3>0, <3>1, <3>2, <3>3
      <4>2. Mirror!Readable(j, n) BY <1>13, <3>0 DEF Tells, Mirror!Readable
      <4> QED BY <4>1, <4>2 DEF Mirror!Unseen
    <3>5. Mirror!Max(lines) = n
      <4>1. Mirror!Max(lines) \in m_cursor[j] + 1..to /\ Mirror!Max(lines) >= n BY <3>1, <3>2, <3>4
      <4> QED BY <1>7, <3>0, <3>3, <4>1
    <3>6. OrderLines[n] = m_version BY <1>13 DEF Tells
    <3> QED BY <1>10, <1>13, <2>3, <3>5, <3>6
  <2> QED BY <2>1, <2>2, <2>3
<1>14. BroughtAt(OrderLines, m_lost', m_cursor["orders"], m_row, m_queue', m_version)
  BY <1>11, <1>13 DEF BroughtAt
<1>15. BroughtAt(OrderLines, m_lost', m_replay'.next["orders"], m_row, m_queue', m_version)
  BY <1>8, <1>11, <1>13 DEF BroughtAt
<1> QED BY <1>10, <1>11, <1>12, <1>14, <1>15 DEF RowInv

LEMMA RowSave ==
  ASSUME RowInv, Mirror!SaveCursor
  PROVE RowInv'
<1>1. /\ UNCHANGED <<OrderLines, m_row, m_queue, m_lost, m_version>>
      /\ m_daemon' # "replay" /\ m_daemon = "replay"
      /\ m_cursor' = m_replay.next
  BY DEF Mirror!SaveCursor, Mirror!buffer, OrderLines
<1> QED BY <1>1 DEF RowInv

\* What dies with the process was behind the cursor and is lost, or did not end the journal.
LEMMA RowRestart ==
  ASSUME MirrorInv, RowInv, Mirror!Restart
  PROVE RowInv'
<1> DEFINE longer == m_journal'["orders"]
<1>1. MirrorTypes /\ m_version \in Nat BY DEF MirrorInv, MirrorTypes
<1>2. m_lost' = m_lost \cup {l \in Mirror!LinesOf(Mirror!Range(m_queue)) : l[2] <= m_cursor[l[1]]}
      /\ m_queue' = <<>> /\ m_daemon' = "tick" /\ UNCHANGED <<m_cursor, m_row>>
  BY DEF Mirror!Restart
<1>3. OrderLines \in Seq(Int) /\ m_cursor["orders"] \in Nat /\ m_cursor["orders"] <= Len(OrderLines)
      /\ Len(OrderLines) \in Nat
  <2>1. OrderLines \in Seq(Int) BY <1>1 DEF MirrorTypes, OrderLines, Mirror!Journals
  <2> QED BY <1>1, <2>1, ItemsOf DEF MirrorTypes, OrderLines, Mirror!Journals
<1>4. /\ m_version' \in Nat /\ m_version <= m_version'
      /\ \A i \in 1..Len(longer) : longer[i] <= m_version'
      /\ \/ longer = OrderLines /\ m_version' = m_version
         \/ Tells(longer, m_version') => Len(longer) = Len(OrderLines) + 1
  <2>1. CASE UNCHANGED <<m_journal, m_version>>
    BY <1>1, <2>1 DEF OrderLines, RowInv
  <2>2. CASE \E j \in Mirror!Journals : \E v \in {Mirror!Torn, Mirror!Upcoming(j)} :
               /\ m_journal' = Mirror!Appended(j, v)
               /\ m_version' = IF j = "orders" /\ v # Mirror!Torn THEN v ELSE m_version
    <3>0. PICK j \in Mirror!Journals : \E v \in {Mirror!Torn, Mirror!Upcoming(j)} :
               /\ m_journal' = Mirror!Appended(j, v)
               /\ m_version' = IF j = "orders" /\ v # Mirror!Torn THEN v ELSE m_version
      BY <2>2
    <3>1. PICK v \in {Mirror!Torn, Mirror!Upcoming(j)} :
               /\ m_journal' = Mirror!Appended(j, v)
               /\ m_version' = IF j = "orders" /\ v # Mirror!Torn THEN v ELSE m_version
      BY <3>0
    <3> DEFINE w == m_version'
    <3>2. longer = Mirror!Appended(j, v)["orders"] /\ w = IF j = "orders"
          /\ v # Mirror!Torn THEN v ELSE m_version
      BY <3>1
    <3> HIDE DEF longer, w
    <3>3. /\ w \in Nat /\ m_version <= w
          /\ \A i \in 1..Len(longer) : longer[i] <= w
          /\ j # "orders" => longer = OrderLines
          /\ j = "orders" /\ Tells(longer, w) => Len(longer) = Len(OrderLines) + 1
      BY <1>1, <3>2, OrderLinesGrow
    <3>4. j # "orders" => w = m_version BY <3>2
    <3> QED BY <3>3, <3>4 DEF w
  <2> QED BY <2>1, <2>2 DEF Mirror!Restart
<1>5. ASSUME longer = OrderLines, m_version' = m_version, Tells(OrderLines, m_version), m_lost' = {},
             m_cursor["orders"] = Len(OrderLines)
      PROVE m_row = m_version
  <2>1. m_lost = {} /\ Brings(m_row, m_queue, m_version) BY <1>2, <1>5 DEF RowInv, BroughtAt
  <2>2. ASSUME NEW i \in 1..Len(m_queue), m_queue[i].kind = "orders", m_queue[i].version = m_version
        PROVE FALSE
    <3>1. m_queue[i] \in Fitting(OrderLines, m_version) BY ItemsOf DEF RowInv
    <3>2. m_queue[i] \in AnyEvents /\ m_queue[i].line <= Len(OrderLines) /\ m_queue[i].line # 0
      BY <1>5, <2>2, <3>1 DEF Fitting
    <3>3. m_queue[i].line > 0 BY <3>2 DEF AnyEvents
    <3>4. m_queue \in Seq(AnyEvents) BY <1>1 DEF MirrorTypes, Mirror!Now, Mirror!Buffer, Buffers
    <3>5. <<"orders", m_queue[i].line>> \in Mirror!LinesOf(Mirror!Range(m_queue))
      BY <2>2, <3>3, <3>4, LinesIn
    <3>6. <<"orders", m_queue[i].line>> \in m_lost' BY <1>2, <1>5, <3>2, <3>5
    <3> QED BY <1>5, <3>6
  <2> QED BY <2>1, <2>2 DEF Brings
<1>6. BroughtAt(longer, m_lost', m_cursor["orders"], m_row, <<>>, m_version')
  <2> SUFFICES ASSUME Tells(longer, m_version'), m_lost' = {}, m_cursor["orders"] = Len(longer)
               PROVE Brings(m_row, <<>>, m_version')
    BY DEF BroughtAt
  <2>1. longer = OrderLines /\ m_version' = m_version BY <1>3, <1>4
  <2>2. m_row = m_version' BY <1>5, <2>1
  <2> QED BY <2>2 DEF Brings
<1>7. m_row \in Nat /\ m_row <= m_version'
  <2>1. m_row \in Nat /\ m_row <= m_version BY DEF RowInv
  <2> QED BY <1>1, <1>4, <2>1
<1>8. OrderLines' = longer BY DEF OrderLines
<1>9. m_queue' \in Seq(Fitting(longer, m_version')) BY <1>2
<1> HIDE DEF longer
<1> QED BY <1>2, <1>4, <1>6, <1>7, <1>8, <1>9 DEF RowInv

LEMMA RowStep ==
  ASSUME MirrorInv, RowInv, [Mirror!Next]_mirrorVars
  PROVE RowInv'
<1>1. m_version \in Nat /\ Mirror!Now \in Buffers BY DEF MirrorInv, MirrorTypes
<1>2. CASE \E j \in Mirror!Journals : Mirror!Record(j) BY <1>2, RowRecord
<1>3. CASE Mirror!EnqueueRecovered BY <1>3, RowRecovered
<1>4. CASE Mirror!Report BY <1>1, <1>4, RowReport
<1>5. CASE Mirror!ReplayJournal BY <1>5, RowReplay
<1>6. CASE Mirror!SaveCursor BY <1>6, RowSave
<1>7. CASE Mirror!FlushReplayed \/ Mirror!TimerFlush
  BY <1>1, <1>7, RowFlush DEF Mirror!FlushReplayed, Mirror!TimerFlush
<1>8. CASE Mirror!CooldownEnds \/ UNCHANGED mirrorVars
  <2>1. UNCHANGED <<OrderLines, m_cursor, m_row, m_queue, m_lost, m_version, m_daemon, m_replay>>
    BY <1>8 DEF Mirror!CooldownEnds, mirrorVars, Mirror!disk, Mirror!buffer, OrderLines
  <2> QED BY <2>1 DEF RowInv
<1>9. CASE Mirror!Restart BY <1>9, RowRestart
<1> QED BY <1>2, <1>3, <1>4, <1>5, <1>6, <1>7, <1>8, <1>9 DEF Mirror!Next, Mirror!Daemon

LEMMA InvKeepsUp == MirrorInv /\ RowInv => Mirror!RowsKeepUp
<1> SUFFICES ASSUME MirrorInv, RowInv, Mirror!Drained, m_lost = {}, OrderLines # <<>>,
                    OrderLines[Len(OrderLines)] = m_version
             PROVE m_row = m_version
  BY DEF Mirror!RowsKeepUp, OrderLines
<1>1. m_version \in Nat /\ m_cursor["orders"] = Len(OrderLines) /\ m_queue = <<>>
      /\ OrderLines \in Seq(Int)
  BY DEF MirrorInv, MirrorTypes, Mirror!Drained, Mirror!Journals, OrderLines
<1>2. CASE m_version = 0 BY <1>2 DEF RowInv
<1>3. CASE m_version # 0
  <2>1. Len(OrderLines) > 0 /\ m_version > 0 BY <1>1, <1>3
  <2>2. Brings(m_row, m_queue, m_version) BY <1>1, <2>1 DEF RowInv, BroughtAt, Tells
  <2> QED BY <1>1, <2>2 DEF Brings
<1> QED BY <1>2, <1>3

\* A line that the replay has passed is mirrored, in the buffer, or was counted as lost.
THEOREM LinesAreAccounted == RecordsSpec => []AccountedFor
<1>1. RecordsInit => MirrorInv BY MirrorStarts DEF RecordsInit
<1>2. MirrorInv /\ [RecordsNext]_records => MirrorInv' BY RecordsStutter, MirrorStep
<1>3. MirrorInv => AccountedFor BY InvAccounts DEF AccountedFor
<1> QED BY <1>1, <1>2, <1>3, PTL DEF RecordsSpec

\* When the replay is done and no line was lost, the row of an order shows its last state,
\* whatever order live events and replayed lines reached the mirror in.
THEOREM RowsCatchUp == RecordsSpec => []RowsKeepUp
<1>1. RecordsInit => MirrorInv /\ RowInv BY MirrorStarts, RowStarts DEF RecordsInit
<1>2. MirrorInv /\ RowInv /\ [RecordsNext]_records => MirrorInv' /\ RowInv'
  BY RecordsStutter, MirrorStep, RowStep
<1>3. MirrorInv /\ RowInv => RowsKeepUp BY InvKeepsUp DEF RowsKeepUp
<1> QED BY <1>1, <1>2, <1>3, PTL DEF RecordsSpec

-----------------------------------------------------------------------------
(* PositionBook.                                                           *)

\* A record that an exit was ordered of, and one that may be of the open that is pending.
Exits(r) == r.act = "exit" \/ r.life = "lp_exit_pending"
About(w, r, p) ==
  p.do = "open" /\ (r.intent = p.intent \/ (r.addr # 0 /\ Book(w)!Pool(r.addr) = p.intent))

\* What a record never says while p is pending: that it is closed without its position gone,
\* that an exit was ordered of what no answer has shown, or either of the open that is pending.
Fine(w, r, p) ==
  /\ r \in Book(w)!Records
  /\ r.intent <= b_opened /\ (r.addr \in Book(w)!Intents => r.addr <= b_opened)
  /\ r.life = "closed" => r.addr # 0 /\ b_chain[r.addr] = "gone"
  /\ ~Book(w)!Over(r) /\ Exits(r) => r.addr # 0 /\ b_shown[r.addr] # "none"
  /\ b_opened = 0 => r.intent = 0 /\ ~r.fill /\ ~Exits(r) /\ r.life # "closed"
  /\ About(w, r, p) => r.act # "exit" /\ r.life # "closed"
AllFine(w, L, p) == \A r \in L : Fine(w, r, p)

\* An order, as it is sent.
AnOrder(w, o) ==
  \/ o = Book(w)!None
  \/ \E i \in 1..b_opened : o = Book(w)!Order("open", i, 0) \/ o = Book(w)!Order("open", i, i)
  \/ \E i \in 0..b_opened, a \in Book(w)!Addresses : o = Book(w)!Order("exit", i, a)
     /\ b_shown[a] # "none" /\ b_opened > 0

\* The answers follow the chain, and only what was sent is on it.
Chained(w) ==
  /\ b_opened \in 0..OpensIn[w]
  /\ b_chain \in [Book(w)!Addresses -> {"none", "live", "gone"}]
  /\ b_shown \in [Book(w)!Addresses -> {"none", "live", "gone"}]
  /\ \A a \in Book(w)!Addresses :
       /\ b_shown[a] = "gone" => b_chain[a] = "gone"
       /\ b_shown[a] = "live" => b_chain[a] # "none"
       /\ a \in Book(w)!Intents /\ b_chain[a] # "none" => a <= b_opened
  /\ b_view = IF b_at = "start" THEN {} ELSE {a \in Book(w)!Addresses : b_shown[a] = "live"}

\* What became of the order sent last, and what a result says of it.
Flies(w) ==
  /\ b_order.fate = "flying" => b_order.what # Book(w)!None
  /\ b_order.fate = "flying" /\ b_order.what.do = "open" => b_chain[b_order.what.intent] = "none"
  /\ b_order.fate = "landed" /\ b_order.what.do = "exit" => b_chain[b_order.what.addr] = "gone"
Results == [order : {b_result.order}, sent : BOOLEAN, confirmed : BOOLEAN, filled : BOOLEAN,
            proven : BOOLEAN, already : BOOLEAN, cleared : BOOLEAN]
Ordered(w) ==
  /\ AnOrder(w, b_pending) /\ AnOrder(w, b_result.order) /\ AnOrder(w, b_order.what)
  /\ b_order \in [what : {b_order.what}, fate : {"none", "flying", "landed", "failed"}]
  /\ b_result \in Results
  /\ b_pending.do = "open" => b_result.order \in {Book(w)!None, b_pending}
  /\ b_result.proven \/ b_result.already => b_result.order.do = "exit"
     /\ b_chain[b_result.order.addr] = "gone"
  /\ b_result.sent \/ b_result.cleared => b_result.order # Book(w)!None
  /\ b_at \in {"start", "recover", "recovered", "import", "cycle", "open"} => b_result = Book(w)!NoResult
  /\ b_at = "polled" => b_pending = b_result.order /\ b_order.what = b_pending /\ ~b_result.cleared
  /\ b_at = "after" => b_result.cleared \/ (b_pending = b_result.order /\ b_order.what = b_pending)

BookInv(w) == Chained(w) /\ Flies(w) /\ Ordered(w) /\ AllFine(w, b_ledger, b_pending)

-----------------------------------------------------------------------------
LEMMA BookConstants ==
  ASSUME NEW w \in Ledgers
  PROVE
  /\ OpensIn[w] \in Nat /\ OpensIn[w] # 0
  /\ Book(w)!ByHand = OpensIn[w] + 1 /\ Book(w)!Intents = 1..OpensIn[w]
  /\ Book(w)!Addresses \in SUBSET (1..OpensIn[w] + 1) /\ Book(w)!ByHand \in Book(w)!Addresses
     /\ Book(w)!Intents \in SUBSET Book(w)!Addresses
  /\ \A a : a \in Book(w)!Addresses <=> a \in 1..OpensIn[w] + 1
  /\ \A a \in Book(w)!Intents : Book(w)!Pool(a) = a
BY RecordConstants DEF Book!BookAssumption, Book!ByHand, Book!Intents, Book!Addresses, Book!Pool

\* What the wallet shows is on the chain, and what it does not show any more is gone.
LEMMA ViewIsTrue ==
  ASSUME NEW w \in Ledgers, Chained(w)
  PROVE /\ \A a \in b_view : a \in Book(w)!Addresses /\ b_shown[a] # "none"
           /\ (a \in Book(w)!Intents => a <= b_opened)
        /\ b_at # "start" => \A a \in Book(w)!Addresses : a \notin b_view /\ b_shown[a] # "none"
           => b_chain[a] = "gone"
BY DEF Chained

\* A record of which some fields were rewritten.
Lives == {"open_pending", "open", "lp_exit_pending", "reconcile_required", "failed_terminal",
          "closed", "superseded"}
Whys == {"none", "awaiting", "missing", "unbound"}
LEMMA Rewritten ==
  ASSUME NEW w \in Ledgers, NEW r \in Book(w)!Records, NEW life \in Lives, NEW intent \in 0..OpensIn[w],
           NEW addr \in 0..Book(w)!ByHand,
         NEW act \in {"hold", "open", "exit"}, NEW why \in Whys
  PROVE [r EXCEPT !.life = life, !.intent = intent, !.addr = addr, !.act = act,
          !.why = why] \in Book(w)!Records
BY DEF Book!Records, Lives, Whys

\* A record that is over, or given up, says no more than before.
LEMMA LifeChanges ==
  ASSUME NEW w \in Ledgers, NEW q, NEW r, Fine(w, r, q), NEW life \in {"superseded", "failed_terminal",
           "reconcile_required", "open_pending"},
         ~Exits(r) \/ ~Book(w)!Over(r) \/ life = "superseded"
  PROVE Fine(w, [r EXCEPT !.life = life], q)
<1> DEFINE s == [r EXCEPT !.life = life]
<1>1. s \in Book(w)!Records /\ s.intent = r.intent /\ s.addr = r.addr /\ s.life = life /\ s.act = r.act
      /\ s.fill = r.fill
  BY DEF Fine, Book!Records
<1> HIDE DEF s
<1>2. (Exits(s) => Exits(r)) /\ (~Book(w)!Over(s) /\ Exits(s) => ~Book(w)!Over(r))
  BY <1>1 DEF Book!Over, Exits
<1>3. About(w, s, q) <=> About(w, r, q) BY <1>1 DEF About
<1>4. Fine(w, s, q) BY <1>1, <1>2, <1>3 DEF Fine
<1> QED BY <1>4 DEF s

-----------------------------------------------------------------------------
(* The import of a position that the wallet shows.                         *)

\* A pending open only ever stands for a position of its own pool.
LEMMA BindsItsPool ==
  ASSUME NEW w \in Ledgers, Chained(w), NEW p, AnOrder(w, p), NEW a \in b_view, Book(w)!Binds(p, a)
  PROVE p.do = "open" /\ p.intent \in 1..b_opened /\ Book(w)!Pool(a) = p.intent
<1>1. PICK i \in 1..b_opened : p = Book(w)!Order("open", i, 0) \/ p = Book(w)!Order("open", i, i)
  BY DEF AnOrder, Book!Binds, Book!None, Book!Order
<1>2. p.do = "open" /\ p.intent = i /\ (p.addr = 0 \/ p.addr = i) BY <1>1 DEF Book!Order
<1>3. i \in Book(w)!Intents /\ i # 0 BY BookConstants DEF Chained
<1>4. CASE p.addr # 0 BY <1>2, <1>3, <1>4, BookConstants DEF Book!Binds
<1>5. CASE p.addr = 0
  <2>1. a \in {b \in b_view : Book(w)!Pool(b) = p.intent} BY <1>5 DEF Book!Binds
  <2> QED BY <1>2, <2>1
<1> QED BY <1>2, <1>4, <1>5

\* The record of a position that the wallet shows and the ledger does not know.
LEMMA UnknownIsFine ==
  ASSUME NEW w \in Ledgers, Chained(w), NEW q, NEW a \in b_view PROVE Fine(w, Book(w)!Fresh(0, a), q)
           /\ Book(w)!Fresh(0, a).addr = a
                                           /\ ~Book(w)!Over(Book(w)!Fresh(0, a)) /\ Book(w)!Fresh(0,
                                              a).intent = 0
<1>1. a \in 1..Book(w)!ByHand /\ (a \in Book(w)!Intents => a <= b_opened) /\ b_opened \in Nat
  BY ViewIsTrue, BookConstants DEF Chained
<1> DEFINE r == Book(w)!Fresh(0, a)
<1>2. r \in Book(w)!Records /\ r.intent = 0 /\ r.addr = a /\ r.act = "hold" /\ r.life = "open_pending"
      /\ r.fill = FALSE
  BY <1>1, BookConstants DEF Book!Fresh, Book!Records
<1> HIDE DEF r
<1>3. Fine(w, r, q) /\ ~Book(w)!Over(r) BY <1>1, <1>2 DEF Fine, Exits, Book!Over
<1> QED BY <1>2, <1>3 DEF r

LEMMA ObservedIsFine ==
  ASSUME NEW w \in Ledgers, Chained(w), NEW q, AnOrder(w, q), NEW p \in {Book(w)!None,
           q}, NEW a \in b_view, NEW L, AllFine(w, L, q)
  PROVE AllFine(w, Book(w)!Observed(L, p, a), q)
<1> DEFINE known == Book(w)!Known(L, p, a)
           old == IF known = {} THEN Book(w)!Fresh(0, a) ELSE CHOOSE r \in known : TRUE
           owned == \/ old.addr = a /\ Book(w)!Evidenced(old)
                    \/ Book(w)!Binds(p, a)
           intent == IF old.intent = 0 /\ Book(w)!Binds(p, a) THEN p.intent ELSE old.intent
           life == IF owned THEN "open" ELSE "reconcile_required"
           why == IF owned THEN IF old.why = "unbound" THEN "none" ELSE old.why ELSE "unbound"
           new == [old EXCEPT !.addr = a, !.missing = FALSE, !.intent = intent, !.life = life,
             !.why = why]
           Twin(r) == r.addr = 0 /\ ~Book(w)!Over(r) /\ r.life # "failed_terminal"
                      /\ new.intent # 0 /\ r.intent = new.intent
<1>1. Book(w)!Observed(L, p, a) =
        IF old.addr = a /\ Book(w)!Over(old) THEN L
        ELSE {new} \cup {IF Twin(r) THEN [r EXCEPT !.life = "superseded"] ELSE r : r \in L \ known}
  BY DEF Book!Observed
<1>2. AnOrder(w, p) BY DEF AnOrder
<1>3. Book(w)!Binds(p, a) =>
        p = q /\ p.do = "open" /\ p.intent \in 1..b_opened /\ Book(w)!Pool(a) = p.intent
  BY <1>2, BindsItsPool DEF Book!None, Book!Binds
<1>4. /\ Fine(w, old, q)
      /\ old.addr = a \/ (Book(w)!Binds(p, a) /\ old.addr = 0 /\ old.intent = p.intent
         /\ ~Book(w)!Over(old))
  <2>1. CASE known = {} BY <2>1, UnknownIsFine
  <2>2. CASE known # {}
    <3>1. old \in known BY <2>2
    <3>2. known \in SUBSET L /\ \A r \in known : r.addr = a
                            \/ (Book(w)!Binds(p,
                               a) /\ r.addr = 0 /\ r.intent = p.intent /\ ~Book(w)!Over(r))
      BY DEF Book!Known
    <3> HIDE DEF old, known
    <3> QED BY <3>1, <3>2 DEF AllFine
  <2> QED BY <2>1, <2>2
<1>5. a \in 1..Book(w)!ByHand /\ (a \in Book(w)!Intents => a <= b_opened) /\ b_shown[a] # "none"
      /\ b_opened \in 0..OpensIn[w]
  BY ViewIsTrue, BookConstants DEF Chained
<1> HIDE DEF old, known
<1>6. old \in Book(w)!Records BY <1>4 DEF Fine
<1>7. intent \in 0..OpensIn[w] /\ intent <= b_opened /\ (b_opened = 0 => intent = 0)
  BY <1>3, <1>4, <1>5, <1>6, BookConstants DEF Fine, Book!Records
<1>8. life \in {"open", "reconcile_required"} /\ why \in {"none", "awaiting", "missing", "unbound"}
  BY <1>6 DEF Book!Records
<1>9. /\ new \in Book(w)!Records /\ new.intent = intent /\ new.addr = a /\ new.life = life
      /\ new.act = old.act /\ new.fill = old.fill
  <2>1. a \in 0..Book(w)!ByHand BY <1>5, BookConstants
  <2>2. life \in {"open_pending", "open", "lp_exit_pending", "reconcile_required",
                  "failed_terminal", "closed", "superseded"}
    BY <1>8
  <2> HIDE DEF intent, life, why
  <2>3. new \in Book(w)!Records BY <2>1, <2>2, <1>6, <1>7, <1>8 DEF Book!Records
  <2> QED BY <2>3, <1>6 DEF Book!Records
<1>10. ASSUME old.addr # a \/ ~Book(w)!Over(old) PROVE Fine(w, new, q)
  <2>1. About(w, new, q) => About(w, old, q)
    <3> SUFFICES ASSUME About(w, new, q) PROVE About(w, old, q) OBVIOUS
    <3>1. q.do = "open" /\ (intent = q.intent \/ Book(w)!Pool(a) = q.intent) BY <1>9 DEF About
    <3>2. intent = old.intent \/ Book(w)!Binds(p, a) OBVIOUS
    <3> HIDE DEF intent, new
    <3> QED BY <1>3, <1>4, <1>5, <3>1, <3>2, BookConstants DEF About
  <2>2. old.life # "closed" /\ ~Book(w)!Over(old) BY <1>4, <1>10 DEF Book!Over
  <2>3. new.life # "closed" /\ new.life # "lp_exit_pending" BY <1>8, <1>9
  <2> HIDE DEF new, intent, life
  <2> QED BY <1>4, <1>5, <1>7, <1>9, <2>1, <2>2, <2>3 DEF Fine, Exits
<1>11. ASSUME NEW r \in L PROVE Fine(w, r, q) /\ Fine(w, [r EXCEPT !.life = "superseded"], q)
  BY LifeChanges DEF AllFine
<1> HIDE DEF new
<1> QED BY <1>1, <1>10, <1>11 DEF AllFine

\* A record that the wallet does not show is closed only after its exit.
LEMMA UnseenIsFine ==
  ASSUME NEW w \in Ledgers, Chained(w), b_at # "start", NEW q, NEW p \in {Book(w)!None,
           q}, NEW closing \in BOOLEAN,
         closing => p = q, NEW r, Fine(w, r, q)
  PROVE Fine(w, Book(w)!Unseen(r, p, closing), q)
<1> DEFINE close == closing /\ p = Book(w)!None /\ r.act = "exit"
           grace == r.act = "open" /\ r.fill /\ r.young
           failed == r.why = "missing" \/ r.missing
           shows == Book(w)!Over(r) \/ (r.addr # 0 /\ r.addr \in b_view)
           young == r.life = "open_pending" /\ r.addr = 0 /\ grace
           old == r.life = "open_pending" /\ r.addr = 0 /\ ~grace
           lost == r.life = "open" /\ r.addr = 0 /\ ~r.fill
           ends == close \/ (closing /\ p = Book(w)!None /\ r.life = "lp_exit_pending")
           t == Book(w)!Unseen(r, p, closing)
<1>1. /\ shows => t = r
      /\ ~shows /\ Book(w)!Submitted(r, p) => t = [r EXCEPT !.missing = FALSE]
      /\ ~shows /\ ~Book(w)!Submitted(r, p) /\ young
         => t = [r EXCEPT !.why = "awaiting", !.missing = FALSE]
      /\ ~shows /\ ~Book(w)!Submitted(r, p) /\ old /\ failed =>
           t = [r EXCEPT !.life = "failed_terminal", !.why = r.why, !.missing = TRUE]
      /\ ~shows /\ ~Book(w)!Submitted(r, p) /\ old /\ ~failed =>
           t = [r EXCEPT !.life = "reconcile_required", !.why = "none", !.missing = TRUE]
      /\ ~shows /\ ~Book(w)!Submitted(r, p) /\ ~young /\ ~old /\ lost =>
           t = [r EXCEPT !.life = "failed_terminal", !.missing = TRUE]
      /\ ~shows /\ ~Book(w)!Submitted(r, p) /\ ~young /\ ~old /\ ~lost /\ ends =>
           t = [r EXCEPT !.life = "closed"]
      /\ ~shows /\ ~Book(w)!Submitted(r, p) /\ ~young /\ ~old /\ ~lost /\ ~ends =>
           t = [r EXCEPT !.missing = TRUE, !.why = IF closing THEN "missing" ELSE r.why]
  BY DEF Book!Unseen
<1>2. r \in Book(w)!Records BY DEF Fine
<1>3. CASE shows BY <1>1, <1>3
<1>4. CASE ~shows
  <2> HIDE DEF t, failed, young, old, lost
  <2>1. CASE /\ ~Book(w)!Submitted(r, p) /\ ~young /\ ~old /\ ~lost /\ ends
    <3>1. t = [r EXCEPT !.life = "closed"] BY <1>1, <1>4, <2>1
    <3>2. q = Book(w)!None /\ r.addr # 0 /\ b_shown[r.addr] # "none" /\ r.addr \notin b_view
      BY <1>4, <2>1 DEF Fine, Exits
    <3>3. r.addr \in Book(w)!Addresses BY <1>2, <3>2, BookConstants DEF Book!Records
    <3>4. b_chain[r.addr] = "gone" BY <3>2, <3>3, ViewIsTrue
    <3>5. b_opened # 0 BY <2>1 DEF Fine, Exits
    <3>6. ~ About(w, t, q) BY <3>2 DEF About, Book!None
    <3>7. t \in Book(w)!Records /\ t.intent = r.intent /\ t.addr = r.addr /\ t.life = "closed"
      BY <1>2, <3>1 DEF Book!Records
    <3>8. Fine(w, t, q) BY <3>2, <3>4, <3>5, <3>6, <3>7 DEF Fine, Book!Over
    <3> QED BY <3>8 DEF t
  <2>2. CASE ~(~Book(w)!Submitted(r, p) /\ ~young /\ ~old /\ ~lost /\ ends)
    <3>1. /\ t \in Book(w)!Records /\ t.intent = r.intent /\ t.addr = r.addr /\ t.act = r.act
             /\ t.fill = r.fill
          /\ t.life \in {r.life, "failed_terminal", "reconcile_required"}
      <4> HIDE DEF shows, ends
      <4> QED BY <1>1, <1>2, <1>4, <2>2 DEF Book!Records
    <3>2. ~Book(w)!Over(r) BY <1>4
    <3>3. About(w, t, q) => About(w, r, q) BY <3>1 DEF About
    <3>4. r.life # "closed" BY <3>2 DEF Book!Over
    <3>5. t.life # "closed" BY <3>1, <3>4
    <3>6. Exits(t) => Exits(r) BY <3>1 DEF Exits
    <3>7. Fine(w, t, q) BY <3>1, <3>2, <3>3, <3>5, <3>6 DEF Fine
    <3> QED BY <3>7 DEF t
  <2> QED BY <2>1, <2>2
<1> QED BY <1>3, <1>4

LEMMA NormalIsFine ==
  ASSUME NEW w \in Ledgers, NEW q, NEW p, NEW L, AllFine(w, L, q), NEW r, Fine(w, r, q)
  PROVE Fine(w, Book(w)!Normal(r, L, p), q)
<1> DEFINE grace == r.act = "open" /\ r.fill /\ r.young
           waits == r.life = "open_pending" /\ r.act = "open" /\ r.why = "awaiting" /\ r.fill
           done == /\ r.addr = 0 /\ r.intent # 0
                   /\ \E c \in L : c.addr # 0 /\ c.life = "closed" /\ c.intent = r.intent
           back == r.addr = 0 /\ grace /\ r.life = "reconcile_required"
           stale == r.addr = 0 /\ waits /\ ~(p.do = "open" /\ p.intent = r.intent) /\ ~grace
           t == Book(w)!Normal(r, L, p)
<1>1. /\ Book(w)!Over(r) \/ (~done /\ ~back /\ ~stale) => t = r
      /\ ~Book(w)!Over(r) /\ done
         => t = [r EXCEPT !.life = "superseded", !.act = "exit", !.missing = TRUE]
      /\ ~Book(w)!Over(r) /\ ~done /\ back =>
           t = [r EXCEPT !.life = "open_pending", !.why = "awaiting", !.missing = FALSE]
      /\ ~Book(w)!Over(r) /\ ~done /\ ~back /\ stale =>
           t = [r EXCEPT !.life = "reconcile_required", !.why = "none", !.missing = TRUE]
  BY DEF Book!Normal
<1>2. r \in Book(w)!Records BY DEF Fine
<1>3. CASE ~Book(w)!Over(r) /\ done
  <2>1. PICK c \in L : c.addr # 0 /\ c.life = "closed" /\ c.intent = r.intent BY <1>3
  <2>2. Fine(w, c, q) BY DEF AllFine
  <2>3. ~ (q.do = "open" /\ r.intent = q.intent) BY <2>1, <2>2 DEF Fine, About
  <2>4. b_opened # 0 BY <2>1, <2>2 DEF Fine
  <2> HIDE DEF t
  <2>5. t \in Book(w)!Records /\ t.intent = r.intent /\ t.addr = r.addr /\ t.life = "superseded"
    BY <1>1, <1>2, <1>3 DEF Book!Records
  <2>6. ~About(w, t, q) BY <1>3, <2>3, <2>5 DEF About
  <2>7. Fine(w, t, q) BY <2>4, <2>5, <2>6 DEF Fine, Book!Over
  <2> QED BY <2>7 DEF t
<1>4. CASE Book(w)!Over(r) \/ ~done
  <2> HIDE DEF t, done
  <2>1. /\ t \in Book(w)!Records /\ t.intent = r.intent /\ t.addr = r.addr /\ t.act = r.act
           /\ t.fill = r.fill
        /\ t = r \/ (~Book(w)!Over(r) /\ t.life \in {"open_pending", "reconcile_required"})
    BY <1>1, <1>2, <1>4 DEF Book!Records
  <2>2. CASE t = r BY <2>2 DEF t
  <2>3. CASE ~Book(w)!Over(r) /\ t.life \in {"open_pending", "reconcile_required"}
    <3>1. About(w, t, q) => About(w, r, q) BY <2>1 DEF About
    <3>2. Exits(t) => Exits(r) BY <2>1, <2>3 DEF Exits
    <3>3. Fine(w, t, q) BY <2>1, <2>3, <3>1, <3>2 DEF Fine
    <3> QED BY <3>3 DEF t
  <2> QED BY <2>1, <2>2, <2>3
<1> QED BY <1>3, <1>4

LEMMA NormalizedIsFine ==
  ASSUME NEW w \in Ledgers, NEW q, NEW p, NEW L, AllFine(w, L, q)
           PROVE AllFine(w, Book(w)!Normalized(L, p), q)
BY NormalIsFine DEF AllFine, Book!Normalized

\* The records of what the wallet shows, one after the other.
Seen(w, L, p) == Book(w)!FoldSet(LAMBDA a, acc : Book(w)!Observed(acc, p, a), L, b_view)

\* What each step of the import keeps, and what it adds for each position, the import does.
LEMMA SeenIs ==
  ASSUME NEW w \in Ledgers, Chained(w), NEW p, NEW Good, NEW good, NEW L \in Good, L \in good[{}],
         \A a \in b_view, M \in Good : Book(w)!Observed(M, p, a) \in Good,
         \A s \in SUBSET b_view : \A a \in s, M \in Good :
           M \in good[s \ {a}] => Book(w)!Observed(M, p, a) \in good[s]
  PROVE Seen(w, L, p) \in Good /\ Seen(w, L, p) \in good[b_view]
<1> DEFINE pick == [s \in SUBSET b_view |-> CHOOSE a \in s : TRUE]
           step == [a \in b_view |-> [M \in Good |-> Book(w)!Observed(M, p, a)]]
           Rhs(h) == [s \in SUBSET b_view |->
             IF s = {} THEN L
             ELSE Book(w)!Observed(h[s \ {CHOOSE a \in s : TRUE}], p, CHOOSE a \in s : TRUE)]
           folded == CHOOSE h : h = Rhs(h)
<1>1. IsFiniteSet(b_view)
  <2>1. b_view \in SUBSET (1..OpensIn[w] + 1) BY ViewIsTrue, BookConstants
  <2>2. IsFiniteSet(1..OpensIn[w] + 1) BY BookConstants, FS_Interval
  <2> QED BY <2>1, <2>2, FS_Subset
<1>2. Picks(b_view, pick) BY DEF Picks
<1>3. Steps(b_view, Good, step) BY DEF Steps
<1>4. PICK h : Folds(b_view, Good, L, pick, step, h)
  <2> HIDE DEF pick, step
  <2> QED BY <1>1, <1>2, <1>3, FoldExists
<1> DEFINE g == [s \in SUBSET b_view |-> h[s]]
<1>5. g = Rhs(g)
  <2>1. ASSUME NEW s \in SUBSET b_view PROVE g[s] = Rhs(g)[s]
    <3>1. h[s] = Fold(L, pick, step, h, s) BY <1>4 DEF Folds
    <3>2. CASE s = {} BY <3>1, <3>2 DEF Fold
    <3>3. CASE s # {}
      <4> DEFINE a == CHOOSE b \in s : TRUE
                 t == s \ {a}
      <4>1. a \in b_view /\ t \in SUBSET b_view BY <3>3
      <4>2. h[t] \in Good BY <1>4, <4>1 DEF Folds
      <4>3. pick[s] = a OBVIOUS
      <4>4. step[a][h[t]] = Book(w)!Observed(h[t], p, a)
        <5> HIDE DEF a, t
        <5> QED BY <4>1, <4>2
      <4>5. g[t] = h[t] /\ g[s] = h[s] BY <4>1
      <4>6. Rhs(g)[s] = Book(w)!Observed(g[t], p, a) BY <3>3
      <4> HIDE DEF pick, step, g, Rhs, a
      <4> QED BY <3>1, <3>3, <4>3, <4>4, <4>5, <4>6 DEF Fold
    <3> QED BY <3>2, <3>3
  <2>2. g = [s \in SUBSET b_view |-> g[s]] OBVIOUS
  <2>3. Rhs(g) = [s \in SUBSET b_view |-> Rhs(g)[s]] OBVIOUS
  <2> HIDE DEF g, Rhs
  <2> QED BY <2>1, <2>2, <2>3
<1>6. folded = Rhs(folded)
  <2> HIDE DEF g, Rhs
  <2> QED BY <1>5
<1>7. Seen(w, L, p) = folded[b_view] BY Zenon DEF Seen, Book!FoldSet, Book!MapThenFoldSet
<1>8. folded[{}] = L /\ \A s \in SUBSET b_view : s # {} =>
         folded[s] = Book(w)!Observed(folded[s \ {CHOOSE a \in s : TRUE}], p, CHOOSE a \in s : TRUE)
  <2> HIDE DEF folded
  <2> QED BY <1>6
<1> DEFINE fine == [s \in SUBSET b_view |-> Good \cap good[s]]
<1> HIDE DEF folded
<1>9. ASSUME NEW s \in SUBSET b_view, s # {}
       PROVE \E a \in s : folded[s \ {a}] \in fine[s \ {a}] => folded[s] \in fine[s]
  <2> DEFINE a == CHOOSE b \in s : TRUE
  <2>1. a \in s /\ a \in b_view /\ s \ {a} \in SUBSET b_view BY <1>9
  <2>2. folded[s] = Book(w)!Observed(folded[s \ {a}], p, a) BY <1>8, <1>9
  <2> HIDE DEF a
  <2>3. ASSUME folded[s \ {a}] \in Good, folded[s \ {a}] \in good[s \ {a}]
        PROVE folded[s] \in Good /\ folded[s] \in good[s]
    BY <2>1, <2>2, <2>3
  <2> QED BY <2>1, <2>3
<1>10. folded[{}] \in fine[{}] BY <1>8
<1>11. \A s \in SUBSET b_view : folded[s] \in fine[s]
  <2> HIDE DEF fine
  <2> QED BY <1>1, <1>9, <1>10, FoldStays
<1> QED BY <1>7, <1>11

LEMMA ImportedIs ==
  ASSUME NEW w \in Ledgers, NEW L, NEW p, NEW closing
  PROVE Book(w)!Imported(L, p, closing) =
          Book(w)!Normalized({Book(w)!Unseen(r, p, closing) : r \in Seen(w, L, p)}, p)
BY DEF Book!Imported, Seen

\* The import of all that the wallet shows.
LEMMA ImportedIsFine ==
  ASSUME NEW w \in Ledgers, Chained(w), b_at # "start", NEW q, AnOrder(w, q),
         NEW p \in {Book(w)!None, q}, NEW closing \in BOOLEAN, closing => p = q,
         NEW L, AllFine(w, L, q)
  PROVE AllFine(w, Book(w)!Imported(L, p, closing), q)
<1> DEFINE Good == {M \in SUBSET Book(w)!Records : AllFine(w, M, q)}
           good == [s \in SUBSET b_view |-> Good]
<1>1. \A M : AllFine(w, M, q) => M \in Good BY DEF AllFine, Fine
<1>2. L \in Good /\ L \in good[{}] BY <1>1
<1>3. ASSUME NEW a \in b_view, NEW M \in Good PROVE Book(w)!Observed(M, p, a) \in Good
  <2>1. AllFine(w, Book(w)!Observed(M, p, a), q) BY ObservedIsFine
  <2> HIDE DEF Good
  <2> QED BY <1>1, <2>1
<1>4. \A s \in SUBSET b_view : \A a \in s, M \in Good :
        M \in good[s \ {a}] => Book(w)!Observed(M, p, a) \in good[s]
  <2> HIDE DEF Good
  <2> QED BY <1>3
<1>5. Seen(w, L, p) \in Good
  <2> HIDE DEF Good, good
  <2> QED BY <1>2, <1>3, <1>4, SeenIs
<1> DEFINE unseen == {Book(w)!Unseen(r, p, closing) : r \in Seen(w, L, p)}
<1>6. AllFine(w, unseen, q) BY <1>5, UnseenIsFine DEF AllFine
<1>7. Book(w)!Imported(L, p, closing) = Book(w)!Normalized(unseen, p) BY ImportedIs
<1> HIDE DEF unseen
<1> QED BY <1>6, <1>7, NormalizedIsFine

-----------------------------------------------------------------------------
(* What a cycle or a recovery writes.                                      *)

\* An order that the ledger is told of while q is pending.
Told(w, t, q) ==
  /\ t.do \in {"open", "exit"} /\ t.intent \in 0..b_opened /\ b_opened > 0
  /\ t.addr \in 0..Book(w)!ByHand /\ (t.addr \in Book(w)!Intents => t.addr <= b_opened)
  /\ t.do = "open" => t.addr = 0 \/ Book(w)!Pool(t.addr) = t.intent
  /\ t.do = "exit" => t.addr # 0 /\ b_shown[t.addr] # "none"
  /\ q.do = "open" => t.do = "open" /\ t.intent = q.intent

Found(c) == c.sent \in BOOLEAN /\ c.confirmed \in BOOLEAN /\ c.filled \in BOOLEAN
            /\ c.proven \in BOOLEAN /\ c.already \in BOOLEAN

LEMMA BookedIsFine ==
  ASSUME NEW w \in Ledgers, Chained(w), NEW q, NEW p \in {Book(w)!None, q}, NEW L, AllFine(w, L,
           q), NEW o, NEW c, Found(c), NEW kept,
         NEW t, t = IF o # Book(w)!None THEN o ELSE p, Told(w, t, q),
         c.proven \/ c.already => o.do = "exit" /\ b_chain[o.addr] = "gone"
  PROVE AllFine(w, Book(w)!Booked(L, o, c, kept, p), q)
<1> DEFINE match == Book(w)!Targeted(L, t)
           old == IF match = {}
                  THEN [Book(w)!Fresh(t.intent, t.addr) EXCEPT
                          !.life = IF t.do = "open" THEN "open_pending" ELSE "lp_exit_pending",
                          !.act = t.do]
                  ELSE CHOOSE r \in match : TRUE
           exit == t.do = "exit"
           open == o.do = "open"
           gone == c.already /\ old.addr \notin b_view
           life == IF exit /\ kept = Book(w)!None /\ (c.proven \/ gone) THEN "closed"
                   ELSE IF exit /\ (kept # Book(w)!None \/ c.confirmed) THEN "lp_exit_pending"
                   ELSE IF ~exit /\ kept # Book(w)!None THEN "open_pending"
                   ELSE IF open /\ c.confirmed THEN IF t.addr # 0 THEN "open" ELSE "open_pending"
                   ELSE old.life
           intent == IF old.intent = 0 THEN t.intent ELSE old.intent
           addr == IF t.addr # 0 THEN t.addr ELSE old.addr
           act == IF o = Book(w)!None /\ old.life = "reconcile_required" THEN old.act
                  ELSE IF o = Book(w)!None THEN "hold" ELSE o.do
           why == IF o = Book(w)!None /\ old.life = "reconcile_required" THEN old.why ELSE "none"
           fill == old.fill \/ (open /\ c.confirmed /\ c.filled)
           young == old.young \/ (open /\ c.confirmed)
           held == kept # Book(w)!None
           missing == old.missing /\ old.addr \notin b_view
           new == [old EXCEPT !.life = life, !.intent = intent, !.addr = addr, !.act = act,
                              !.why = why, !.fill = fill, !.young = young, !.held = held,
                              !.missing = missing]
           Twin(r) == /\ life = "closed" /\ new.addr # 0 /\ r.addr = 0 /\ ~Book(w)!Over(r)
                      /\ new.intent # 0 /\ r.intent = new.intent
           rest == {IF Twin(r) THEN [r EXCEPT !.life = "superseded"] ELSE r : r \in L \ {old}}
<1>1. Book(w)!Booked(L, o, c, kept, p) = Book(w)!Normalized(rest \cup {new}, p) BY DEF Book!Booked
<1>2. /\ Fine(w, old, q)
      /\ IF t.addr # 0 THEN old.addr = t.addr ELSE old.intent = t.intent
  <2>1. CASE match # {}
    <3>1. old \in match BY <2>1
    <3>2. match \in SUBSET L
          /\ \A r \in match : IF t.addr # 0 THEN r.addr = t.addr ELSE r.intent = t.intent
      BY DEF Book!Targeted
    <3> HIDE DEF old, match
    <3> QED BY <3>1, <3>2 DEF AllFine
  <2>2. CASE match = {}
    <3> DEFINE start == IF t.do = "open" THEN "open_pending" ELSE "lp_exit_pending"
    <3>1. old = [Book(w)!Fresh(t.intent, t.addr) EXCEPT !.life = start, !.act = t.do] BY <2>2
    <3>2. t.intent \in 0..OpensIn[w] /\ t.addr \in 0..Book(w)!ByHand BY BookConstants DEF Told, Chained
    <3>3. Book(w)!Fresh(t.intent, t.addr) \in Book(w)!Records BY <3>2 DEF Book!Fresh, Book!Records
    <3>4. start \in {"open_pending", "lp_exit_pending"} /\ t.do \in {"hold", "open", "exit"} BY DEF Told
    <3> DEFINE fresh == Book(w)!Fresh(t.intent, t.addr)
    <3>5. fresh \in Book(w)!Records /\ fresh.intent = t.intent /\ fresh.addr = t.addr
      BY <3>3 DEF Book!Fresh
    <3> HIDE DEF old, start, fresh
    <3>6. old = [fresh EXCEPT !.life = start, !.act = t.do] BY <3>1 DEF fresh
    <3>7. /\ old \in Book(w)!Records /\ old.life = start /\ old.act = t.do
          /\ old.intent = t.intent /\ old.addr = t.addr
      BY <3>4, <3>5, <3>6 DEF Book!Records
    <3>8. About(w, old, q) => t.do = "open" BY <3>7 DEF About, Told
    <3>9. b_opened \in Nat BY DEF Chained
    <3>10. start # "closed" /\ (start = "lp_exit_pending" => t.do = "exit") BY DEF start, Told
    <3> QED BY <3>7, <3>8, <3>9, <3>10 DEF Fine, Told, Exits, Book!Over
  <2> QED BY <2>1, <2>2
<1> HIDE DEF old
<1>3. old \in Book(w)!Records /\ b_opened \in 1..OpensIn[w]
  BY <1>2, BookConstants DEF Fine, Chained, Told
<1>4. o # Book(w)!None => o = t BY DEF Told
<1>5. addr = old.addr BY <1>2
<1>6. intent \in 0..OpensIn[w] /\ intent <= b_opened
  BY <1>2, <1>3, BookConstants DEF Told, Fine, Book!Records
<1>7. /\ life \in {"open_pending", "open", "lp_exit_pending", "reconcile_required",
                    "failed_terminal", "closed", "superseded"}
      /\ act \in {"hold", "open", "exit"} /\ why \in {"none", "awaiting", "missing", "unbound"}
  BY <1>3, <1>4 DEF Book!Records, Told
<1>8. fill \in BOOLEAN /\ young \in BOOLEAN /\ held \in BOOLEAN /\ missing \in BOOLEAN OBVIOUS
<1>9. addr \in 0..Book(w)!ByHand BY <1>3, <1>5 DEF Book!Records
<1>10. new \in Book(w)!Records /\ new.life = life /\ new.intent = intent /\ new.addr = addr
       /\ new.act = act
  <2> DEFINE half == [old EXCEPT !.life = life, !.intent = intent, !.addr = addr, !.act = act,
                                 !.why = why]
  <2>1. new = [half EXCEPT !.fill = fill, !.young = young, !.held = held, !.missing = missing]
    OBVIOUS
  <2>2. old \in Book(w)!Records BY <1>3
  <2>3. intent \in 0..OpensIn[w] BY <1>6
  <2> HIDE DEF life, intent, addr, act, why, fill, young, held, missing, new
  <2>4. half \in Book(w)!Records
    <3>1. life \in Lives /\ why \in Whys BY <1>7 DEF Lives, Whys
    <3> QED BY <2>2, <2>3, <3>1, <1>7, <1>9, Rewritten, Zenon
  <2>5. half.life = life /\ half.intent = intent /\ half.addr = addr /\ half.act = act
    BY <2>2 DEF Book!Records
  <2> HIDE DEF half
  <2>6. new \in Book(w)!Records BY <1>8, <2>1, <2>4 DEF Book!Records
  <2> QED BY <2>1, <2>4, <2>5, <2>6 DEF Book!Records
<1> HIDE DEF new
<1>11. life = "closed" => addr # 0 /\ b_chain[addr] = "gone"
  <2>1. CASE exit /\ kept = Book(w)!None /\ (c.proven \/ gone)
    <3>1. o = t /\ t.addr # 0 BY <1>4, <2>1 DEF Told, Book!None
    <3>2. b_chain[o.addr] = "gone" BY <2>1
    <3> QED BY <3>1, <3>2
  <2>2. CASE life = old.life BY <1>2, <1>5, <2>2 DEF Fine
  <2> HIDE DEF addr
  <2> QED BY <2>1, <2>2
<1>12. life \notin {"closed", "superseded"} /\ (act = "exit" \/ life = "lp_exit_pending")
       => addr # 0 /\ b_shown[addr] # "none"
  <2>1. CASE exit BY <2>1 DEF Told
  <2>2. CASE ~exit /\ act = "exit"
    <3>1. old.life = "reconcile_required" /\ old.act = "exit" BY <1>4, <2>2 DEF Book!None
    <3> QED BY <1>2, <1>5, <3>1 DEF Fine, Book!Over, Exits
  <2>3. CASE ~exit /\ life = "lp_exit_pending"
    <3>1. old.life = "lp_exit_pending" BY <2>3
    <3> QED BY <1>2, <1>5, <3>1 DEF Fine, Book!Over, Exits
  <2> HIDE DEF addr, life, act
  <2> QED BY <2>1, <2>2, <2>3
<1>13. About(w, new, q) => act # "exit" /\ life # "closed"
  <2> SUFFICES ASSUME About(w, new, q) PROVE act # "exit" /\ life # "closed" OBVIOUS
  <2>1. q.do = "open" /\ t.do = "open" /\ t.intent = q.intent
        /\ (intent = q.intent \/ (old.addr # 0 /\ Book(w)!Pool(old.addr) = q.intent))
    BY <1>5, <1>10 DEF About, Told
  <2>2. About(w, old, q)
    <3>1. CASE t.addr # 0 BY <1>2, <2>1, <3>1 DEF About, Told
    <3>2. CASE t.addr = 0 BY <1>2, <2>1, <3>2 DEF About
    <3> QED BY <3>1, <3>2
  <2>3. old.act # "exit" /\ old.life # "closed" BY <1>2, <2>2 DEF Fine
  <2> QED BY <1>4, <2>1, <2>3 DEF Book!None
<1>14. Fine(w, new, q)
  <2>1. addr \in Book(w)!Intents => addr <= b_opened BY <1>2, <1>5 DEF Fine
  <2>2. b_opened # 0 BY <1>3
  <2> HIDE DEF life, intent, addr, act
  <2> QED BY <1>6, <1>10, <1>11, <1>12, <1>13, <2>1, <2>2 DEF Fine, Book!Over, Exits
<1>15. ASSUME NEW r \in L PROVE Fine(w, r, q) /\ Fine(w, [r EXCEPT !.life = "superseded"], q)
  BY LifeChanges DEF AllFine
<1>16. AllFine(w, rest \cup {new}, q) BY <1>14, <1>15 DEF AllFine
<1> HIDE DEF rest
<1> QED BY <1>1, <1>16, NormalizedIsFine

\* An order that is sent or pending can be told.
LEMMA OrdersAreTold ==
  ASSUME NEW w \in Ledgers, Chained(w), NEW o, AnOrder(w, o), o # Book(w)!None, NEW q, q.do = "open"
           => o = q
  PROVE Told(w, o, q)
<1>1. CASE \E i \in 1..b_opened : o = Book(w)!Order("open", i, 0) \/ o = Book(w)!Order("open", i, i)
  <2>1. PICK i \in 1..b_opened : o = Book(w)!Order("open", i, 0) \/ o = Book(w)!Order("open", i, i)
    BY <1>1
  <2>2. i \in 1..OpensIn[w] /\ b_opened > 0 BY BookConstants DEF Chained
  <2> QED BY <2>1, <2>2, BookConstants DEF Told, Book!Order, Chained
<1>2. CASE \E i \in 0..b_opened, a \in Book(w)!Addresses :
             o = Book(w)!Order("exit", i, a) /\ b_shown[a] # "none" /\ b_opened > 0
  <2>1. PICK i \in 0..b_opened, a \in Book(w)!Addresses :
          o = Book(w)!Order("exit", i, a) /\ b_shown[a] # "none" /\ b_opened > 0
    BY <1>2
  <2>2. a \in 1..Book(w)!ByHand /\ (a \in Book(w)!Intents => a <= b_opened)
    BY <2>1, BookConstants DEF Chained
  <2> QED BY <2>1, <2>2, BookConstants DEF Told, Book!Order, Chained
<1> QED BY <1>1, <1>2 DEF AnOrder

LEMMA AppliedIsFine ==
  ASSUME NEW w \in Ledgers, Chained(w), b_at # "start", NEW q, AnOrder(w, q), NEW L, AllFine(w, L,
           q), NEW o, NEW c, Found(c),
         NEW persisted, NEW before, NEW p \in {Book(w)!None, q},
         p = IF persisted # Book(w)!None THEN persisted ELSE before,
         o # Book(w)!None => Told(w, o, q), c.sent => o # Book(w)!None,
         c.proven \/ c.already => o.do = "exit" /\ b_chain[o.addr] = "gone"
  PROVE AllFine(w, Book(w)!Applied(L, o, c, persisted, before), q)
<1> DEFINE imported == Book(w)!Imported(L, p, FALSE)
           idle == ~c.sent /\ p = Book(w)!None /\ o.do # "exit"
<1>1. Book(w)!Applied(L, o, c, persisted, before) = IF idle THEN imported ELSE Book(w)!Booked(imported,
      o, c, persisted, p)
  BY DEF Book!Applied
<1>2. AllFine(w, imported, q) BY ImportedIsFine
<1>3. CASE idle BY <1>1, <1>2, <1>3
<1>4. CASE ~idle
  <2> DEFINE t == IF o # Book(w)!None THEN o ELSE p
  <2>1. Told(w, t, q)
    <3>1. CASE o # Book(w)!None BY <3>1
    <3>2. CASE o = Book(w)!None
      <4>1. p # Book(w)!None BY <1>4, <3>2 DEF Book!None
      <4>2. p = q BY <4>1
      <4> QED BY <3>2, <4>1, <4>2, OrdersAreTold
    <3> QED BY <3>1, <3>2
  <2> HIDE DEF imported, t
  <2>2. t = IF o # Book(w)!None THEN o ELSE p BY DEF t
  <2>3. AllFine(w, Book(w)!Booked(imported, o, c, persisted, p), q) BY <1>2, <2>1, <2>2, BookedIsFine
  <2> QED BY <1>1, <1>4, <2>3 DEF imported
<1> QED BY <1>3, <1>4

-----------------------------------------------------------------------------
(* The steps.                                                              *)

LEMMA BookStarts == ASSUME NEW w \in Ledgers, Book(w)!Init PROVE BookInv(w)
<1>1. b_view = {} /\ b_ledger = {} /\ AnOrder(w, Book(w)!None) /\ b_at = "start"
  BY DEF Book!Init, AnOrder
<1>2. Chained(w) BY <1>1, BookConstants DEF Book!Init, Chained
<1>3. Ordered(w) /\ Flies(w)
  BY <1>1 DEF Book!Init, Ordered, Flies, Book!NoOrder, Book!NoResult, Results, Book!None
<1> QED BY <1>1, <1>2, <1>3 DEF BookInv, AllFine, Book!Init

\* What a record says depends on what is pending only while an open is.
LEMMA StillFine ==
  ASSUME NEW w \in Ledgers, NEW L, NEW q, AllFine(w, L, q), UNCHANGED <<b_chain, b_shown, b_opened>>,
         b_pending' = q \/ b_pending'.do # "open", b_ledger' = L
  PROVE AllFine(w, b_ledger, b_pending)'
BY DEF AllFine, Fine, About, Book!Over, Exits

\* A step that leaves the chain, the answers and the view alone.
LEMMA StillChained ==
  ASSUME NEW w \in Ledgers, Chained(w), UNCHANGED <<b_chain, b_shown, b_opened>>,
         IF b_at' = "start" THEN b_view' = {} ELSE b_at # "start" /\ b_view' = b_view
  PROVE Chained(w)'
BY DEF Chained

LEMMA MovesKeep ==
  ASSUME NEW w \in Ledgers, BookInv(w), Book(w)!Unresolved \/ Book(w)!RecoverFailed
           \/ Book(w)!ClearRecovered \/ Book(w)!Holds \/ Book(w)!Skips PROVE BookInv(w)'
<1> USE DEF BookInv
<1>1. UNCHANGED <<b_chain, b_shown, b_view, b_ledger, b_order, b_result, b_opened>>
      /\ b_pending' \in {b_pending, Book(w)!None}
      /\ b_at # "start" /\ b_at' \in {"import", "open", "persist"}
      /\ (b_at' # "persist" => b_at \in {"recover", "recovered", "cycle", "open"})
  BY DEF Book!Unresolved, Book!RecoverFailed, Book!ClearRecovered, Book!Holds, Book!Skips
<1>2. Chained(w)' BY <1>1, StillChained
<1>3. b_pending' = b_pending \/ b_pending'.do # "open" BY <1>1 DEF Book!None
<1>4. AllFine(w, b_ledger, b_pending)' BY <1>1, <1>3, StillFine
<1>5. AnOrder(w, b_pending)' /\ AnOrder(w, b_result.order)' /\ AnOrder(w, b_order.what)'
  BY <1>1 DEF Ordered, AnOrder
<1>6. Ordered(w)' BY <1>1, <1>3, <1>5 DEF Ordered, Results
<1>7. Flies(w)' BY <1>1 DEF Flies
<1> QED BY <1>2, <1>4, <1>6, <1>7

\* A step that writes the ledger and nothing else.
LEMMA WritesKeep ==
  ASSUME NEW w \in Ledgers, BookInv(w), b_at # "start", UNCHANGED <<b_chain, b_shown, b_view, b_pending,
           b_order, b_result, b_opened>>,
         NEW L, b_ledger' = L, AllFine(w, L, b_pending), b_at' \in {"recovered", "cycle", "clear"},
         b_at' # "clear" => b_at \in {"recover", "import"}
  PROVE BookInv(w)'
<1> USE DEF BookInv
<1>1. Chained(w)' BY StillChained
<1>2. AllFine(w, b_ledger, b_pending)' BY StillFine
<1>3. AnOrder(w, b_pending)' /\ AnOrder(w, b_result.order)' /\ AnOrder(w, b_order.what)'
  BY DEF Ordered, AnOrder
<1>4. Ordered(w)' BY <1>3 DEF Ordered, Results
<1>5. Flies(w)' BY DEF Flies
<1> QED BY <1>1, <1>2, <1>4, <1>5

LEMMA RecoverOpenKeeps ==
  ASSUME NEW w \in Ledgers, BookInv(w), NEW paid \in BOOLEAN, Book(w)!RecoverOpen(paid) PROVE BookInv(w)'
<1> USE DEF BookInv
<1> DEFINE fits == Book(w)!Fitting(b_pending)
           found == Book(w)!Cardinality(fits) = 1
           addr == IF found THEN CHOOSE a \in fits : TRUE ELSE b_pending.addr
           o == Book(w)!Order("open", b_pending.intent, addr)
           c == [Book(w)!NoResult EXCEPT !.sent = TRUE, !.confirmed = TRUE, !.filled = found /\ paid]
           applied == Book(w)!Applied(b_ledger, o, c, Book(w)!None, b_pending)
           distrusted == {IF r.intent = b_pending.intent
                          THEN [r EXCEPT !.life = "reconcile_required"] ELSE r : r \in applied}
<1>1. /\ b_at = "recover" /\ b_pending.do = "open" /\ b_at' = "recovered"
      /\ b_ledger' = IF found /\ paid THEN applied ELSE distrusted
      /\ UNCHANGED <<b_chain, b_shown, b_view, b_pending, b_order, b_result, b_opened>>
  BY DEF Book!RecoverOpen
<1>2. Told(w, b_pending, b_pending) BY <1>1, OrdersAreTold DEF Ordered, Book!None
<1>3. addr = b_pending.addr \/ (addr \in b_view /\ Book(w)!Pool(addr) = b_pending.intent)
  <2>1. ASSUME found PROVE addr \in fits
    <3> HIDE DEF fits
    <3>1. Book(w)!Cardinality(fits) = Cardinality(fits) BY DEF Cardinality, Book!Cardinality
    <3>2. fits # {} BY <2>1, <3>1, FS_EmptySet DEF found
    <3> QED BY <2>1, <3>2
  <2>2. ASSUME addr \in fits PROVE addr \in b_view
               /\ (addr = b_pending.addr \/ Book(w)!Pool(addr) = b_pending.intent)
    BY <2>2 DEF Book!Fitting
  <2>3. ~found => addr = b_pending.addr OBVIOUS
  <2> HIDE DEF addr, fits
  <2> QED BY <2>1, <2>2, <2>3
<1> HIDE DEF addr, found
<1>4. Told(w, o, b_pending)
  <2>1. o.do = "open" /\ o.intent = b_pending.intent /\ o.addr = addr BY DEF Book!Order
  <2>2. addr \in b_view => addr \in 1..Book(w)!ByHand /\ (addr \in Book(w)!Intents => addr <= b_opened)
    BY ViewIsTrue, BookConstants
  <2>3. Book(w)!ByHand \in Nat BY BookConstants
  <2> QED BY <1>1, <1>2, <1>3, <2>1, <2>2, <2>3 DEF Told
<1>5. Found(c) /\ c.sent /\ ~c.proven /\ ~c.already BY DEF Book!NoResult, Found
<1> HIDE DEF c, o
<1>6. o # Book(w)!None BY DEF Book!None, o, Book!Order
<1>7. b_pending # Book(w)!None BY <1>1 DEF Book!None
<1>8. AllFine(w, applied, b_pending)
  <2>1. b_pending = IF Book(w)!None # Book(w)!None THEN Book(w)!None ELSE b_pending OBVIOUS
  <2> QED BY <1>1, <1>4, <1>5, <1>6, <2>1, AppliedIsFine DEF Ordered
<1>9. AllFine(w, distrusted, b_pending)
  <2> HIDE DEF applied
  <2> SUFFICES ASSUME NEW r \in applied, r.intent = b_pending.intent
               PROVE Fine(w, [r EXCEPT !.life = "reconcile_required"], b_pending)
    BY <1>8 DEF AllFine
  <2>1. Fine(w, r, b_pending) BY <1>8 DEF AllFine
  <2>2. About(w, r, b_pending) BY <1>1 DEF About
  <2>3. ~Exits(r) \/ ~Book(w)!Over(r) BY <2>1, <2>2 DEF Fine, Exits, Book!Over
  <2> QED BY <2>1, <2>3, LifeChanges
<1> HIDE DEF applied, distrusted
<1>10. AllFine(w, IF found /\ paid THEN applied ELSE distrusted, b_pending) BY <1>8, <1>9
<1> QED BY <1>1, <1>10, WritesKeep

LEMMA RecoverExitKeeps ==
  ASSUME NEW w \in Ledgers, BookInv(w), NEW trusted \in BOOLEAN, Book(w)!RecoverExit(trusted)
           PROVE BookInv(w)'
<1> USE DEF BookInv
<1> DEFINE c == [Book(w)!NoResult EXCEPT !.sent = TRUE, !.confirmed = TRUE, !.proven = trusted]
           applied == Book(w)!Applied(b_ledger, b_pending, c, Book(w)!None, b_pending)
           distrusted == {IF r \in Book(w)!Targeted(applied, b_pending)
                          THEN [r EXCEPT !.life = "reconcile_required"] ELSE r : r \in applied}
<1>1. /\ b_at = "recover" /\ b_pending.do = "exit" /\ b_pending.addr \notin b_view /\ b_at' = "recovered"
      /\ b_ledger' = IF trusted THEN applied ELSE distrusted
      /\ UNCHANGED <<b_chain, b_shown, b_view, b_pending, b_order, b_result, b_opened>>
  BY DEF Book!RecoverExit
<1>2. b_pending # Book(w)!None BY <1>1 DEF Book!None
<1>3. Told(w, b_pending, b_pending) BY <1>2, OrdersAreTold DEF Ordered
<1>4. b_pending.addr # 0 /\ b_shown[b_pending.addr] # "none" /\ b_chain[b_pending.addr] = "gone"
  <2>1. b_pending.addr # 0 /\ b_shown[b_pending.addr] # "none" /\ b_pending.addr \in 0..Book(w)!ByHand
    BY <1>1, <1>3 DEF Told
  <2>2. b_pending.addr \in Book(w)!Addresses BY <2>1, BookConstants
  <2> QED BY <1>1, <2>1, <2>2, ViewIsTrue
<1>5. Found(c) /\ c.sent /\ ~c.already BY DEF Book!NoResult, Found
<1> HIDE DEF c
<1>6. AllFine(w, applied, b_pending)
  <2>1. b_pending = IF Book(w)!None # Book(w)!None THEN Book(w)!None ELSE b_pending OBVIOUS
  <2> QED BY <1>1, <1>2, <1>3, <1>4, <1>5, <2>1, AppliedIsFine DEF Ordered
<1>7. AllFine(w, distrusted, b_pending)
  <2> HIDE DEF applied
  <2> SUFFICES ASSUME NEW r \in applied, r \in Book(w)!Targeted(applied, b_pending)
               PROVE Fine(w, [r EXCEPT !.life = "reconcile_required"], b_pending)
    BY <1>6 DEF AllFine
  <2> DEFINE s == [r EXCEPT !.life = "reconcile_required"]
  <2>1. Fine(w, r, b_pending) BY <1>6 DEF AllFine
  <2>2. r.addr = b_pending.addr BY <1>4 DEF Book!Targeted
  <2>3. s \in Book(w)!Records /\ s.intent = r.intent /\ s.addr = r.addr /\ s.life = "reconcile_required"
        /\ s.act = r.act /\ s.fill = r.fill
    BY <2>1 DEF Fine, Book!Records
  <2> HIDE DEF s
  <2>4. ~About(w, s, b_pending) BY <1>1 DEF About
  <2>5. Exits(s) => Exits(r) BY <2>3 DEF Exits
  <2>6. Fine(w, s, b_pending) BY <1>4, <2>1, <2>2, <2>3, <2>4, <2>5 DEF Fine
  <2> QED BY <2>6 DEF s
<1> HIDE DEF applied, distrusted
<1>8. AllFine(w, IF trusted THEN applied ELSE distrusted, b_pending) BY <1>6, <1>7
<1> QED BY <1>1, <1>8, WritesKeep

LEMMA ImportKeeps == ASSUME NEW w \in Ledgers, BookInv(w), Book(w)!Import PROVE BookInv(w)'
<1> USE DEF BookInv
<1> DEFINE first == Book(w)!Imported(b_ledger, b_pending, FALSE)
           L == Book(w)!Imported(first, b_pending, TRUE)
<1>1. /\ b_at = "import" /\ b_at' = "cycle" /\ b_ledger' = L
      /\ UNCHANGED <<b_chain, b_shown, b_view, b_pending, b_order, b_result, b_opened>>
  BY DEF Book!Import
<1>2. AllFine(w, first, b_pending) BY <1>1, ImportedIsFine DEF Ordered
<1> HIDE DEF first
<1>3. AllFine(w, L, b_pending) BY <1>1, <1>2, ImportedIsFine DEF Ordered
<1> HIDE DEF L
<1> QED BY <1>1, <1>3, WritesKeep

LEMMA PersistKeeps == ASSUME NEW w \in Ledgers, BookInv(w), Book(w)!Persist PROVE BookInv(w)'
<1> USE DEF BookInv
<1> DEFINE before == IF b_result.sent THEN Book(w)!None ELSE b_pending
           p == IF Book(w)!Kept # Book(w)!None THEN Book(w)!Kept ELSE before
           L == Book(w)!Applied(b_ledger, b_result.order, b_result, Book(w)!Kept, before)
<1>1. /\ b_at = "persist" /\ b_at' = "clear" /\ b_ledger' = L
      /\ UNCHANGED <<b_chain, b_shown, b_view, b_pending, b_order, b_result, b_opened>>
  BY DEF Book!Persist
<1>2. p \in {Book(w)!None, b_pending} BY DEF Book!Kept
<1>3. Found(b_result) /\ (b_result.sent => b_result.order # Book(w)!None) BY DEF Ordered, Results, Found
<1>4. b_result.order # Book(w)!None => Told(w, b_result.order, b_pending) BY OrdersAreTold DEF Ordered
<1>5. b_result.proven \/ b_result.already => b_result.order.do = "exit"
      /\ b_chain[b_result.order.addr] = "gone"
  BY DEF Ordered
<1>6. AllFine(w, L, b_pending)
  <2> DEFINE kept == Book(w)!Kept
  <2>1. p = IF kept # Book(w)!None THEN kept ELSE before OBVIOUS
  <2> HIDE DEF kept, before, p
  <2>2. AllFine(w, Book(w)!Applied(b_ledger, b_result.order, b_result, kept, before), b_pending)
    BY <1>1, <1>2, <1>3, <1>4, <1>5, <2>1, AppliedIsFine DEF Ordered
  <2> QED BY <2>2 DEF kept
<1> HIDE DEF L
<1> QED BY <1>1, <1>6, WritesKeep

\* An order stays one while more is sent and shown.
LEMMA ReadAccountKeepsBook ==
  ASSUME NEW w \in Ledgers, BookInv(w), NEW news \in SUBSET Book(w)!Addresses, Book(w)!ReadAccount(news)
           PROVE BookInv(w)'
<1> USE DEF BookInv
<1>1. /\ b_at = "start" /\ b_at' = "recover" /\ b_result' = Book(w)!NoResult
      /\ b_shown' = [a \in Book(w)!Addresses |-> IF a \in news THEN b_chain[a] ELSE b_shown[a]]
      /\ b_view' = {a \in Book(w)!Addresses : b_shown'[a] = "live"}
      /\ UNCHANGED <<b_chain, b_ledger, b_pending, b_order, b_opened>>
  BY DEF Book!ReadAccount
<1>2. \A a \in Book(w)!Addresses : b_shown[a] # "none" => b_shown'[a] # "none" BY <1>1 DEF Chained
<1>3. Chained(w)' BY <1>1 DEF Chained
<1>4. AllFine(w, b_ledger, b_pending)'
  <2> SUFFICES ASSUME NEW r \in b_ledger PROVE Fine(w, r, b_pending)' BY <1>1 DEF AllFine
  <2>1. Fine(w, r, b_pending) BY DEF AllFine
  <2>2. r.addr # 0 => r.addr \in Book(w)!Addresses BY <2>1, BookConstants DEF Fine, Book!Records
  <2>3. b_shown[r.addr] # "none" /\ r.addr # 0 => b_shown'[r.addr] # "none" BY <1>2, <2>2
  <2> QED BY <1>1, <2>1, <2>3 DEF Fine, About, Book!Over, Exits
<1>5. AnOrder(w, b_pending)' /\ AnOrder(w, b_order.what)' BY <1>1, <1>2 DEF Ordered, AnOrder
<1>6. AnOrder(w, b_result.order)' BY <1>1 DEF AnOrder, Book!NoResult
<1>7. b_result' \in Results' /\ b_result'.order = Book(w)!None /\ ~b_result'.proven /\ ~b_result'.already
      /\ ~b_result'.sent /\ ~b_result'.cleared
  BY <1>1 DEF Book!NoResult, Results
<1>8. Ordered(w)' BY <1>1, <1>5, <1>6, <1>7 DEF Ordered
<1>9. Flies(w)' BY <1>1 DEF Flies
<1> QED BY <1>3, <1>4, <1>8, <1>9

\* The result of a cycle that sent an order.
LEMMA SentResult ==
  ASSUME NEW w \in Ledgers, NEW o, NEW c, c = [Book(w)!NoResult EXCEPT !.order = o, !.sent = TRUE]
  PROVE /\ c.order = o /\ c.sent /\ ~c.already /\ ~c.proven /\ ~c.cleared
        /\ c \in [order : {o}, sent : BOOLEAN, confirmed : BOOLEAN, filled : BOOLEAN,
                  proven : BOOLEAN, already : BOOLEAN, cleared : BOOLEAN]
BY DEF Book!NoResult

LEMMA ExitRefusedKeeps ==
  ASSUME NEW w \in Ledgers, BookInv(w), NEW a \in Book(w)!Addresses, NEW closed \in BOOLEAN,
           Book(w)!ExitRefused(a, closed) PROVE BookInv(w)'
<1> USE DEF BookInv
<1> DEFINE o == Book(w)!Order("exit", 0, a)
<1>1. /\ b_at = "cycle" /\ b_at' = "persist" /\ b_pending = Book(w)!None /\ a \in b_view
         /\ (closed => b_chain[a] = "gone")
      /\ b_result' = [Book(w)!NoResult EXCEPT !.order = o, !.already = closed]
      /\ UNCHANGED <<b_chain, b_shown, b_view, b_ledger, b_pending, b_order, b_opened>>
  BY DEF Book!ExitRefused, Book!Visible
<1>2. b_opened \in Nat /\ b_opened > 0 /\ b_shown[a] # "none"
  <2>1. PICK r \in b_ledger : Book(w)!Evidenced(r) BY DEF Book!ExitRefused
  <2>2. b_opened # 0 BY <2>1 DEF AllFine, Fine, Book!Evidenced
  <2> QED BY <1>1, <2>2, ViewIsTrue DEF Chained
<1>3. Chained(w)' BY <1>1, StillChained
<1>4. AllFine(w, b_ledger, b_pending)' BY <1>1, StillFine
<1>5. /\ b_result'.order = o /\ ~b_result'.sent /\ b_result'.already = closed /\ ~b_result'.proven
      /\ ~b_result'.cleared /\ b_result' \in Results'
  <2> HIDE DEF o
  <2>1. b_result' = [Book(w)!NoResult EXCEPT !.order = o, !.already = closed] BY <1>1
  <2>2. /\ b_result'.order = o /\ ~b_result'.sent /\ b_result'.already = closed /\ ~b_result'.proven
        /\ ~b_result'.cleared
        /\ b_result' \in [order : {o}, sent : BOOLEAN, confirmed : BOOLEAN, filled : BOOLEAN,
                       proven : BOOLEAN, already : BOOLEAN, cleared : BOOLEAN]
    BY <2>1 DEF Book!NoResult
  <2> QED BY <2>2 DEF Results
<1>6. AnOrder(w, o)' BY <1>1, <1>2 DEF AnOrder
<1>7. AnOrder(w, b_pending)' /\ AnOrder(w, b_order.what)' BY <1>1 DEF Ordered, AnOrder
<1>8. AnOrder(w, b_result.order)' BY <1>5, <1>6
<1>9. o.do = "exit" /\ o.addr = a /\ o # Book(w)!None /\ b_pending.do # "open"
  BY <1>1 DEF Book!Order, Book!None
<1> HIDE DEF o
<1>10. Ordered(w)' BY <1>1, <1>5, <1>7, <1>8, <1>9 DEF Ordered
<1>11. Flies(w)' BY <1>1 DEF Flies
<1> QED BY <1>3, <1>4, <1>10, <1>11

\* What a cycle sends becomes the pending order and the last one.
LEMMA SentKeeps ==
  ASSUME NEW w \in Ledgers, Chained(w)', Flies(w)', AnOrder(w,
           b_pending)', NEW o, o # Book(w)!None, b_pending' = o,
         b_order' = [what |-> o, fate |-> "flying"],
         b_result' = [Book(w)!NoResult EXCEPT !.order = o, !.sent = TRUE], b_at' \in {"after", "polled"}
  PROVE Ordered(w)'
<1>1. b_result'.order = o BY SentResult
<1>2. /\ b_result'.order = o /\ b_result'.sent /\ ~b_result'.already /\ ~b_result'.proven
      /\ ~b_result'.cleared /\ b_result' \in Results'
  BY <1>1, SentResult DEF Results
<1>3. b_order'.what = o /\ b_order'.fate = "flying" OBVIOUS
<1>4. AnOrder(w, b_result.order)' /\ AnOrder(w, b_order.what)' BY <1>2, <1>3
<1> QED BY <1>2, <1>3, <1>4 DEF Ordered

LEMMA ExitSentKeeps ==
  ASSUME NEW w \in Ledgers, BookInv(w), NEW a \in Book(w)!Addresses, Book(w)!ExitSent(a)
           PROVE BookInv(w)'
<1> USE DEF BookInv
<1>1. PICK r \in b_ledger :
        /\ r.addr = a /\ Book(w)!Evidenced(r)
        /\ b_pending' = Book(w)!Order("exit", r.intent, a)
           /\ Book(w)!Send(Book(w)!Order("exit", r.intent, a))
        /\ b_result' = [Book(w)!NoResult EXCEPT !.order = Book(w)!Order("exit", r.intent, a),
           !.sent = TRUE]
  BY DEF Book!ExitSent
<1> DEFINE o == Book(w)!Order("exit", r.intent, a)
<1>2. /\ b_at = "cycle" /\ b_at' = "after" /\ a \in b_view
      /\ UNCHANGED <<b_chain, b_shown, b_view, b_ledger, b_opened>>
  BY DEF Book!ExitSent, Book!Visible
<1>3. Fine(w, r, b_pending) BY DEF AllFine
<1>4. b_opened \in Nat /\ b_opened > 0 /\ r.intent \in 0..b_opened /\ b_shown[a] # "none"
  <2>1. b_opened # 0 BY <1>1, <1>3 DEF Fine, Book!Evidenced
  <2>2. r.intent \in Nat /\ r.intent <= b_opened BY <1>3, BookConstants DEF Fine, Book!Records
  <2> QED BY <1>2, <2>1, <2>2, ViewIsTrue DEF Chained
<1>5. Chained(w)' BY <1>2, StillChained
<1>6. o.do = "exit" /\ o # Book(w)!None BY DEF Book!Order, Book!None
<1>7. AnOrder(w, b_pending)'
  <2>1. \E i \in 0..b_opened', b \in Book(w)!Addresses : b_pending' = Book(w)!Order("exit", i, b)
        /\ b_shown'[b] # "none" /\ b_opened' > 0
    BY <1>1, <1>2, <1>4
  <2> QED BY <2>1 DEF AnOrder
<1>8. b_order' = [what |-> o, fate |-> "flying"] BY <1>1 DEF Book!Send
<1>9. AllFine(w, b_ledger, b_pending)' BY <1>1, <1>2, <1>6, StillFine
<1>10. Flies(w)' BY <1>6, <1>8 DEF Flies
<1> HIDE DEF o
<1>11. Ordered(w)' BY <1>1, <1>2, <1>5, <1>6, <1>7, <1>8, <1>10, SentKeeps DEF o
<1> QED BY <1>5, <1>9, <1>10, <1>11

LEMMA OpenSentKeeps ==
  ASSUME NEW w \in Ledgers, BookInv(w), NEW answered \in BOOLEAN, Book(w)!OpenSent(answered)
           PROVE BookInv(w)'
<1> USE DEF BookInv
<1> DEFINE i == b_opened + 1
           o == Book(w)!Order("open", i, IF answered THEN i ELSE 0)
<1>1. /\ b_at \in {"cycle", "open"} /\ b_at' \in {"after", "polled"} /\ b_pending = Book(w)!None
      /\ b_opened < OpensIn[w] /\ b_opened' = i /\ b_pending' = o
         /\ b_order' = [what |-> o, fate |-> "flying"]
      /\ b_result' = [Book(w)!NoResult EXCEPT !.order = o, !.sent = TRUE]
      /\ UNCHANGED <<b_chain, b_shown, b_view, b_ledger>>
  BY DEF Book!OpenSent, Book!Send
<1>2. b_opened \in Nat /\ i \in 1..OpensIn[w] /\ i # 0 BY <1>1, BookConstants DEF Chained
<1>3. Chained(w)' BY <1>1, <1>2, BookConstants DEF Chained
<1>4. o.do = "open" /\ o.intent = i /\ o # Book(w)!None BY DEF Book!Order, Book!None
<1>5. AnOrder(w, b_pending)' BY <1>1, <1>2 DEF AnOrder
<1>6. b_chain[i] = "none" BY <1>2, BookConstants DEF Chained
<1>7. Flies(w)' BY <1>1, <1>4, <1>6 DEF Flies
<1>8. AllFine(w, b_ledger, b_pending)'
  <2> SUFFICES ASSUME NEW r \in b_ledger PROVE Fine(w, r, b_pending)' BY <1>1 DEF AllFine
  <2>1. Fine(w, r, b_pending) BY DEF AllFine
  <2>2. r.intent \in Nat /\ r.addr \in 0..Book(w)!ByHand BY <2>1, BookConstants DEF Fine, Book!Records
  <2>3. r.intent # i BY <1>2, <2>1, <2>2 DEF Fine
  <2>4. ASSUME r.addr # 0, Book(w)!Pool(r.addr) = i PROVE r.act # "exit" /\ r.life # "closed"
    <3>1. r.addr # i BY <1>2, <2>1, BookConstants DEF Fine
    <3>2. r.addr = Book(w)!ByHand BY <2>2, <2>4, <3>1, BookConstants
    <3>3. i = 1 BY <2>4, <3>2 DEF Book!Pool
    <3>4. b_opened = 0 BY <1>2, <3>3
    <3> QED BY <2>1, <3>4 DEF Fine, Exits
  <2>5. b_opened' # 0 /\ (r.intent <= b_opened => r.intent <= b_opened')
        /\ (r.addr \in Book(w)!Intents /\ r.addr <= b_opened => r.addr <= b_opened')
    BY <1>1, <1>2, <2>2, BookConstants
  <2>6. About(w, r, b_pending)' => r.addr # 0 /\ Book(w)!Pool(r.addr) = i
    BY <1>1, <1>4, <2>3 DEF About
  <2> HIDE DEF i, o
  <2> QED BY <1>1, <2>1, <2>4, <2>5, <2>6 DEF Fine, Book!Over, Exits
<1> HIDE DEF o
<1>9. Ordered(w)' BY <1>1, <1>3, <1>4, <1>5, <1>7, SentKeeps
<1> QED BY <1>3, <1>7, <1>8, <1>9

\* What was sent last stays one of the orders, and the result one of the results.
LEMMA PolledKeeps ==
  ASSUME NEW w \in Ledgers, BookInv(w), NEW filled \in BOOLEAN, Book(w)!Polled(filled) PROVE BookInv(w)'
<1> USE DEF BookInv
<1> DEFINE clears == b_order.fate = "landed" /\ b_pending.addr # 0
<1>1. /\ b_at = "polled" /\ b_at' = "after"
      /\ clears => b_pending' = Book(w)!None
                   /\ b_result' = [b_result EXCEPT !.confirmed = TRUE, !.filled = filled,
                      !.cleared = TRUE]
      /\ ~clears => UNCHANGED <<b_pending, b_result>>
      /\ UNCHANGED <<b_chain, b_shown, b_view, b_ledger, b_order, b_opened>>
  BY DEF Book!Polled
<1>2. b_pending = b_result.order /\ b_order.what = b_pending /\ b_result \in Results BY <1>1 DEF Ordered
<1>3. Chained(w)' BY <1>1, StillChained
<1>4. b_pending' \in {b_pending, Book(w)!None} BY <1>1
<1>5. AllFine(w, b_ledger, b_pending)' BY <1>1, <1>4, StillFine DEF Book!None
<1>6. Flies(w)' BY <1>1 DEF Flies
<1>7. /\ b_result' \in Results /\ b_result'.order = b_result.order /\ b_result'.sent = b_result.sent
      /\ b_result'.proven = b_result.proven /\ b_result'.already = b_result.already
      /\ (b_result'.cleared <=> clears) /\ (clears => b_result.order # Book(w)!None)
  <2>1. ~b_result.cleared BY <1>1 DEF Ordered
  <2>2. clears => b_result.order # Book(w)!None BY <1>2 DEF Book!None
  <2>3. clears \in BOOLEAN OBVIOUS
  <2> HIDE DEF clears
  <2>4. CASE clears BY <1>1, <1>2, <2>2, <2>4 DEF Results
  <2>5. CASE ~clears BY <1>1, <1>2, <2>1, <2>5 DEF Results
  <2> QED BY <2>3, <2>4, <2>5
<1>8. Results' = Results BY <1>7 DEF Results
<1>9. AnOrder(w, b_pending)' /\ AnOrder(w, b_result.order)' /\ AnOrder(w, b_order.what)'
  BY <1>1, <1>4, <1>7 DEF Ordered, AnOrder
<1> HIDE DEF clears
<1>10. Ordered(w)' BY <1>1, <1>2, <1>4, <1>7, <1>8, <1>9 DEF Ordered, Book!None
<1> QED BY <1>3, <1>5, <1>6, <1>10

LEMMA AfterCycleKeeps ==
  ASSUME NEW w \in Ledgers, BookInv(w), NEW filled \in BOOLEAN, Book(w)!AfterCycle(filled)
           PROVE BookInv(w)'
<1> USE DEF BookInv
<1> DEFINE settles == ~(b_result.cleared \/ b_pending.addr = 0 \/ b_order.fate = "flying")
           landed == b_order.fate = "landed"
           proven == landed /\ b_pending.do = "exit"
<1>1. /\ b_at = "after" /\ b_at' = "persist"
      /\ ~settles => UNCHANGED b_result
      /\ settles => b_result' = [b_result EXCEPT !.confirmed = landed, !.filled = filled /\ landed,
                                             !.proven = proven, !.cleared = TRUE]
      /\ UNCHANGED <<b_chain, b_shown, b_view, b_ledger, b_pending, b_order, b_opened>>
  BY DEF Book!AfterCycle
<1>2. b_result \in Results BY DEF Ordered
<1>3. Chained(w)' BY <1>1, StillChained
<1>4. AllFine(w, b_ledger, b_pending)' BY <1>1, StillFine
<1>5. Flies(w)' BY <1>1 DEF Flies
<1>6. settles => b_pending = b_result.order /\ b_order.what = b_pending /\ b_result.order # Book(w)!None
  BY <1>1 DEF Ordered, Book!None
<1>7. proven /\ settles => b_result.order.do = "exit" /\ b_chain[b_result.order.addr] = "gone"
  BY <1>6 DEF Flies
<1>8. landed \in BOOLEAN /\ proven \in BOOLEAN OBVIOUS
<1> HIDE DEF settles, landed, proven
<1>9. /\ b_result' \in Results /\ b_result'.order = b_result.order /\ b_result'.sent = b_result.sent
      /\ b_result'.already = b_result.already
      /\ (b_result'.cleared => b_result.cleared \/ settles)
      /\ (b_result'.proven => b_result.proven \/ (proven /\ settles))
  BY <1>1, <1>2, <1>8 DEF Results
<1>10. Results' = Results BY <1>9 DEF Results
<1>11. AnOrder(w, b_pending)' /\ AnOrder(w, b_result.order)' /\ AnOrder(w, b_order.what)'
  BY <1>1, <1>9 DEF Ordered, AnOrder
<1>12. Ordered(w)' BY <1>1, <1>6, <1>7, <1>9, <1>10, <1>11 DEF Ordered
<1> QED BY <1>3, <1>4, <1>5, <1>12

\* The next tick and the next process start with the files.
LEMMA ForgetsKeeps ==
  ASSUME NEW w \in Ledgers, BookInv(w), NEW kept \in {b_pending,
           Book(w)!None}, b_pending' = kept, Book(w)!Forgets(kept),
         UNCHANGED <<b_chain, b_shown, b_ledger, b_opened>>
  PROVE BookInv(w)'
<1> USE DEF BookInv
<1>1. b_at' = "start" /\ b_view' = {} /\ b_result' = Book(w)!NoResult /\ b_order' \in {b_order,
      Book(w)!NoOrder} BY DEF Book!Forgets
<1>2. Chained(w)' BY <1>1, StillChained
<1>3. AllFine(w, b_ledger, b_pending)' BY StillFine DEF Book!None
<1>4. b_result' \in Results' /\ b_result'.order = Book(w)!None /\ ~b_result'.proven /\ ~b_result'.already
      /\ ~b_result'.sent /\ ~b_result'.cleared
  BY <1>1 DEF Book!NoResult, Results
<1>5. AnOrder(w, b_pending)' /\ AnOrder(w, b_result.order)' /\ AnOrder(w, b_order.what)'
  BY <1>1, <1>4 DEF Ordered, AnOrder, Book!NoOrder
<1>6. b_order' \in [what : {b_order'.what}, fate : {"none", "flying", "landed", "failed"}]
  BY <1>1 DEF Ordered, Book!NoOrder
<1>7. Ordered(w)' BY <1>1, <1>4, <1>5, <1>6 DEF Ordered
<1>8. Flies(w)' BY <1>1 DEF Flies, Book!NoOrder
<1> QED BY <1>2, <1>3, <1>7, <1>8

\* What an order is about.
LEMMA OrdersName ==
  ASSUME NEW w \in Ledgers, NEW o, AnOrder(w, o)
  PROVE (o.do = "exit" => o.addr \in Book(w)!Addresses) /\ (o.do = "open" => o.intent \in 1..b_opened)
<1>1. CASE o = Book(w)!None BY <1>1 DEF Book!None
<1>2. CASE \E i \in 1..b_opened : o = Book(w)!Order("open", i, 0) \/ o = Book(w)!Order("open", i, i)
  BY <1>2 DEF Book!Order
<1>3. CASE \E i \in 0..b_opened, a \in Book(w)!Addresses :
             o = Book(w)!Order("exit", i, a) /\ b_shown[a] # "none" /\ b_opened > 0
  BY <1>3 DEF Book!Order
<1> QED BY <1>1, <1>2, <1>3 DEF AnOrder

\* The chain moves on: what is gone stays gone, and what was there is not undone.
LEMMA ChainKeeps ==
  ASSUME NEW w \in Ledgers, BookInv(w), NEW moved \in [Book(w)!Addresses -> {"none", "live",
           "gone"}], b_chain' = moved,
         \A a \in Book(w)!Addresses :
             /\ b_chain[a] = "gone" => moved[a] = "gone"
             /\ b_chain[a] # "none" => moved[a] # "none"
             /\ a \in Book(w)!Intents /\ moved[a] # "none" => a <= b_opened,
         UNCHANGED <<b_shown, b_view, b_ledger, b_pending, b_at, b_result, b_opened>>,
         b_order'.what = b_order.what, Flies(w)',
         b_order' \in [what : {b_order'.what}, fate : {"none", "flying", "landed", "failed"}]
  PROVE BookInv(w)'
<1> USE DEF BookInv
<1>1. Chained(w)' BY DEF Chained
<1>2. AllFine(w, b_ledger, b_pending)'
  <2> SUFFICES ASSUME NEW r \in b_ledger PROVE Fine(w, r, b_pending)' BY DEF AllFine
  <2>1. Fine(w, r, b_pending) BY DEF AllFine
  <2>2. r.addr # 0 => r.addr \in Book(w)!Addresses BY <2>1, BookConstants DEF Fine, Book!Records
  <2> QED BY <2>1, <2>2 DEF Fine, About, Book!Over, Exits
<1>3. AnOrder(w, b_pending)' /\ AnOrder(w, b_result.order)' /\ AnOrder(w, b_order.what)'
  BY DEF Ordered, AnOrder
<1>4. b_result.order.do = "exit" => b_result.order.addr \in Book(w)!Addresses BY OrdersName DEF Ordered
<1>5. Ordered(w)' BY <1>3, <1>4 DEF Ordered, Results
<1> QED BY <1>1, <1>2, <1>5

LEMMA LandsKeepsBook == ASSUME NEW w \in Ledgers, BookInv(w), Book(w)!Lands PROVE BookInv(w)'
<1> USE DEF BookInv
<1> DEFINE o == b_order.what
           i == IF o.do = "open" THEN o.intent ELSE o.addr
           what == IF o.do = "open" THEN "live" ELSE "gone"
<1>1. /\ b_order.fate = "flying" /\ b_order' = [b_order EXCEPT !.fate = "landed"]
      /\ b_chain' = [b_chain EXCEPT ![i] = what]
      /\ UNCHANGED <<b_shown, b_view, b_ledger, b_pending, b_at, b_result, b_opened>>
  BY DEF Book!Lands
<1>2. AnOrder(w, o) /\ o # Book(w)!None BY <1>1 DEF Ordered, Flies
<1>3. CASE \E j \in 1..b_opened : o = Book(w)!Order("open", j, 0) \/ o = Book(w)!Order("open", j, j)
  <2>1. PICK j \in 1..b_opened : o = Book(w)!Order("open", j, 0) \/ o = Book(w)!Order("open", j, j)
    BY <1>3
  <2>2. o.do = "open" /\ o.intent = j /\ j \in Book(w)!Addresses /\ j <= b_opened
    BY <2>1, BookConstants DEF Book!Order, Chained
  <2>3. b_chain[j] = "none" BY <1>1, <2>2 DEF Flies
  <2>4. b_chain' = [b_chain EXCEPT ![j] = "live"] BY <1>1, <2>2
  <2> DEFINE moved == [b_chain EXCEPT ![j] = "live"]
  <2>5. /\ moved \in [Book(w)!Addresses -> {"none", "live", "gone"}]
        /\ \A a \in Book(w)!Addresses :
             /\ b_chain[a] = "gone" => moved[a] = "gone"
             /\ b_chain[a] # "none" => moved[a] # "none"
             /\ a \in Book(w)!Intents /\ moved[a] # "none" => a <= b_opened
    BY <2>2, <2>3 DEF Chained
  <2>6. b_order'.what = o /\ b_order'.fate = "landed"
        /\ b_order' \in [what : {b_order'.what}, fate : {"none", "flying", "landed", "failed"}]
    BY <1>1 DEF Ordered
  <2>7. Flies(w)' BY <2>2, <2>6 DEF Flies
  <2> HIDE DEF moved
  <2> QED BY <1>1, <2>4, <2>5, <2>6, <2>7, ChainKeeps DEF moved
<1>4. CASE \E j \in 0..b_opened, b \in Book(w)!Addresses :
             o = Book(w)!Order("exit", j, b) /\ b_shown[b] # "none" /\ b_opened > 0
  <2>1. PICK j \in 0..b_opened, b \in Book(w)!Addresses :
          o = Book(w)!Order("exit", j, b) /\ b_shown[b] # "none" /\ b_opened > 0
    BY <1>4
  <2>2. o.do = "exit" /\ o.addr = b BY <2>1 DEF Book!Order
  <2>3. b_chain[b] # "none" /\ (b \in Book(w)!Intents => b <= b_opened) BY <2>1 DEF Chained
  <2>4. b_chain' = [b_chain EXCEPT ![b] = "gone"] BY <1>1, <2>2
  <2> DEFINE moved == [b_chain EXCEPT ![b] = "gone"]
  <2>5. /\ moved \in [Book(w)!Addresses -> {"none", "live", "gone"}]
        /\ \A a \in Book(w)!Addresses :
             /\ b_chain[a] = "gone" => moved[a] = "gone"
             /\ b_chain[a] # "none" => moved[a] # "none"
             /\ a \in Book(w)!Intents /\ moved[a] # "none" => a <= b_opened
    BY <2>3 DEF Chained
  <2>6. b_order'.what = o /\ b_order'.fate = "landed"
        /\ b_order' \in [what : {b_order'.what}, fate : {"none", "flying", "landed", "failed"}]
    BY <1>1 DEF Ordered
  <2>7. b_chain'[b] = "gone" BY <2>4 DEF Chained
  <2>8. Flies(w)' BY <2>2, <2>6, <2>7 DEF Flies
  <2> HIDE DEF moved
  <2> QED BY <1>1, <2>4, <2>5, <2>6, <2>8, ChainKeeps DEF moved
<1> QED BY <1>2, <1>3, <1>4 DEF AnOrder

LEMMA FailsKeepsBook == ASSUME NEW w \in Ledgers, BookInv(w), Book(w)!Fails PROVE BookInv(w)'
<1> USE DEF BookInv
<1>1. /\ b_order' = [b_order EXCEPT !.fate = "failed"]
      /\ UNCHANGED <<b_chain, b_shown, b_view, b_ledger, b_pending, b_at, b_result, b_opened>>
  BY DEF Book!Fails
<1>2. b_order'.what = b_order.what /\ b_order'.fate = "failed"
      /\ b_order' \in [what : {b_order'.what}, fate : {"none", "flying", "landed", "failed"}]
  BY <1>1 DEF Ordered
<1>3. Flies(w)' BY <1>2 DEF Flies
<1>4. b_chain \in [Book(w)!Addresses -> {"none", "live", "gone"}]
      /\ \A a \in Book(w)!Intents : a \in Book(w)!Addresses /\ b_chain[a] # "none" => a <= b_opened
  BY DEF Chained
<1> QED BY <1>1, <1>2, <1>3, <1>4, ChainKeeps

LEMMA UserKeeps ==
  ASSUME NEW w \in Ledgers, BookInv(w), Book(w)!UserOpens
           \/ \E a \in Book(w)!Addresses : Book(w)!UserCloses(a) PROVE BookInv(w)'
<1> USE DEF BookInv
<1>1. PICK a \in Book(w)!Addresses, s \in {"live", "gone"} :
        /\ b_chain' = [b_chain EXCEPT ![a] = s]
        /\ (a = Book(w)!ByHand /\ s = "live" /\ b_chain[a] = "none")
           \/ (b_chain[a] = "live" /\ s = "gone")
        /\ UNCHANGED <<b_shown, b_view, b_ledger, b_pending, b_order, b_at, b_result, b_opened>>
  <2>1. CASE Book(w)!UserOpens BY <2>1, BookConstants DEF Book!UserOpens
  <2>2. CASE \E a \in Book(w)!Addresses : Book(w)!UserCloses(a) BY <2>2 DEF Book!UserCloses
  <2> QED BY <2>1, <2>2
<1> DEFINE moved == [b_chain EXCEPT ![a] = s]
<1>2. Book(w)!ByHand \notin Book(w)!Intents BY BookConstants
<1>3. /\ moved \in [Book(w)!Addresses -> {"none", "live", "gone"}]
      /\ \A b \in Book(w)!Addresses :
           /\ b_chain[b] = "gone" => moved[b] = "gone"
           /\ b_chain[b] # "none" => moved[b] # "none"
           /\ b \in Book(w)!Intents /\ moved[b] # "none" => b <= b_opened
           /\ b \in Book(w)!Intents /\ b_chain[b] = "none" => moved[b] = "none"
  BY <1>1, <1>2 DEF Chained
<1> HIDE DEF moved
<1>4. b_chain' = moved BY <1>1 DEF moved
<1>5. AnOrder(w, b_order.what) BY DEF Ordered
<1>6. b_order.what.do = "exit" => b_order.what.addr \in Book(w)!Addresses BY <1>5, OrdersName
<1>7. b_order.what.do = "open" => b_order.what.intent \in Book(w)!Intents
      /\ b_order.what.intent \in Book(w)!Addresses
  BY <1>5, OrdersName, BookConstants DEF Chained
<1>8. Flies(w)' BY <1>1, <1>3, <1>4, <1>6, <1>7 DEF Flies
<1>9. b_order' \in [what : {b_order'.what}, fate : {"none", "flying", "landed", "failed"}]
  BY <1>1 DEF Ordered
<1> QED BY <1>1, <1>3, <1>4, <1>8, <1>9, ChainKeeps

LEMMA TimePassesKeepsBook == ASSUME NEW w \in Ledgers, BookInv(w), Book(w)!TimePasses PROVE BookInv(w)'
<1> USE DEF BookInv
<1>1. /\ b_ledger' = {[r EXCEPT !.young = FALSE] : r \in b_ledger} /\ b_at = "start"
      /\ UNCHANGED <<b_chain, b_shown, b_view, b_pending, b_order, b_at, b_result, b_opened>>
  BY DEF Book!TimePasses
<1>2. Chained(w)' BY <1>1, StillChained DEF Chained
<1>3. ASSUME NEW r \in b_ledger PROVE Fine(w, [r EXCEPT !.young = FALSE], b_pending)
  <2> DEFINE s == [r EXCEPT !.young = FALSE]
  <2>1. Fine(w, r, b_pending) BY DEF AllFine
  <2>2. s \in Book(w)!Records /\ s.intent = r.intent /\ s.addr = r.addr /\ s.life = r.life
        /\ s.act = r.act
        /\ s.fill = r.fill
    BY <2>1 DEF Fine, Book!Records
  <2> HIDE DEF s
  <2>3. Fine(w, s, b_pending) BY <2>1, <2>2 DEF Fine, About, Book!Over, Exits
  <2> QED BY <2>3 DEF s
<1> DEFINE L == {[r EXCEPT !.young = FALSE] : r \in b_ledger}
<1>4. AllFine(w, L, b_pending) BY <1>3 DEF AllFine
<1> HIDE DEF L
<1>5. AllFine(w, b_ledger, b_pending)' BY <1>1, <1>4, StillFine DEF L
<1>6. AnOrder(w, b_pending)' /\ AnOrder(w, b_result.order)' /\ AnOrder(w, b_order.what)'
  BY <1>1 DEF Ordered, AnOrder
<1>7. Ordered(w)' BY <1>1, <1>6 DEF Ordered, Results
<1>8. Flies(w)' BY <1>1 DEF Flies
<1> QED BY <1>2, <1>5, <1>7, <1>8

LEMMA BookStep == ASSUME NEW w \in Ledgers, BookInv(w), [Book(w)!Next]_bookVars PROVE BookInv(w)'
<1>1. CASE \E news \in SUBSET Book(w)!Addresses : Book(w)!ReadAccount(news) BY <1>1, ReadAccountKeepsBook
<1>2. CASE Book(w)!Unresolved \/ Book(w)!RecoverFailed \/ Book(w)!ClearRecovered \/ Book(w)!Holds
      \/ Book(w)!Skips BY <1>2, MovesKeep
<1>3. CASE \E paid \in BOOLEAN : Book(w)!RecoverOpen(paid) BY <1>3, RecoverOpenKeeps
<1>4. CASE \E trusted \in BOOLEAN : Book(w)!RecoverExit(trusted) BY <1>4, RecoverExitKeeps
<1>5. CASE Book(w)!Import BY <1>5, ImportKeeps
<1>6. CASE \E a \in Book(w)!Addresses, closed \in BOOLEAN : Book(w)!ExitRefused(a, closed)
  BY <1>6, ExitRefusedKeeps
<1>7. CASE \E a \in Book(w)!Addresses : Book(w)!ExitSent(a) BY <1>7, ExitSentKeeps
<1>8. CASE \E answered \in BOOLEAN : Book(w)!OpenSent(answered) BY <1>8, OpenSentKeeps
<1>9. CASE \E filled \in BOOLEAN : Book(w)!Polled(filled) BY <1>9, PolledKeeps
<1>10. CASE \E filled \in BOOLEAN : Book(w)!AfterCycle(filled) BY <1>10, AfterCycleKeeps
<1>11. CASE Book(w)!Persist BY <1>11, PersistKeeps
<1>12. CASE Book(w)!Clear
  <2>1. Book(w)!Kept \in {b_pending, Book(w)!None} BY DEF Book!Kept
  <2> QED BY <1>12, <2>1, ForgetsKeeps DEF Book!Clear
<1>13. CASE Book(w)!Crash BY <1>13, ForgetsKeeps DEF Book!Crash
<1>14. CASE Book(w)!Lands BY <1>14, LandsKeepsBook
<1>15. CASE Book(w)!Fails BY <1>15, FailsKeepsBook
<1>16. CASE Book(w)!UserOpens \/ \E a \in Book(w)!Addresses : Book(w)!UserCloses(a) BY <1>16, UserKeeps
<1>17. CASE Book(w)!TimePasses BY <1>17, TimePassesKeepsBook
<1>18. CASE UNCHANGED bookVars
  BY <1>18 DEF bookVars, BookInv, Chained, Flies, Ordered, AllFine, Fine, About, Book!Over, Exits,
     AnOrder, Results
<1> QED
  BY <1>1, <1>2, <1>3, <1>4, <1>5, <1>6, <1>7, <1>8, <1>9, <1>10, <1>11, <1>12, <1>13, <1>14, <1>15,
     <1>16, <1>17, <1>18 DEF Book!Next, Book!Tick

LEMMA ClosedAreGone == ASSUME NEW w \in Ledgers, BookInv(w) PROVE Book(w)!ClosedIsGone
BY DEF BookInv, AllFine, Fine, Book!ClosedIsGone

\* A record is closed only when its position is gone from the chain, over lagging answers,
\* recoveries, crashes and whatever the user does by hand, for any number of opens
\* (importActiveLpPositionsToLedger, applyLiveCycleResultToLedger).
THEOREM ClosedStaysGone == RecordsSpec => []ClosedIsGone
<1> DEFINE Inv == \A w \in Ledgers : part = w => BookInv(w)
<1>1. ASSUME RecordsInit PROVE Inv
  <2> SUFFICES ASSUME NEW w \in Ledgers, part = w PROVE BookInv(w) OBVIOUS
  <2>1. Book(w)!Init BY <1>1 DEF RecordsInit
  <2> QED BY <2>1, BookStarts
<1>2. ASSUME Inv, [RecordsNext]_records PROVE Inv'
  <2> SUFFICES ASSUME NEW w \in Ledgers, part' = w PROVE BookInv(w)' OBVIOUS
  <2>1. part = w BY <1>2, RecordsStutter
  <2>2. BookInv(w) BY <1>2, <2>1
  <2>3. [Book(w)!Next]_bookVars BY <1>2, <2>1, RecordsStutter
  <2> QED BY <2>2, <2>3, BookStep
<1>3. Inv => ClosedIsGone BY ClosedAreGone DEF ClosedIsGone
<1> HIDE DEF Inv
<1> QED BY <1>1, <1>2, <1>3, PTL DEF RecordsSpec

-----------------------------------------------------------------------------
(* PositionBook: one record for a position.                                *)

\* An open whose answer has not named the position.
Unanswered(q) == q.do = "open" /\ q.addr = 0

\* A record of the program's own is of the pending open that has not been answered, or it has the
\* address of its intent.
Own(w, r, q) ==
  /\ r.addr = 0 => q = Book(w)!Order("open", r.intent, 0) /\ r.life = "open_pending"
  /\ r.addr # 0 /\ r.intent # 0 => r.intent = r.addr

\* No address has two records; without a position opened by hand no intent has two either, and
\* the position of the pending open has no record that does not say so.
OneEach(L) == \A r, s \in L : r.addr # 0 /\ r.addr = s.addr => r = s
OwnOnce(w, L, q) ==
  /\ \A r \in L : Own(w, r, q)
  /\ \A r, s \in L : r.intent # 0 /\ r.intent = s.intent => r = s
  /\ Unanswered(q) => \A r \in L : r.addr = q.intent => r.intent = q.intent
Kin(w, L, q) ==
  /\ L \in SUBSET Book(w)!Records /\ OneEach(L)
  /\ ~ForeignIn[w] => OwnOnce(w, L, q) /\ b_chain[Book(w)!ByHand] = "none"

\* What is pending is told of while it is not answered.
Speaks(w, p, q) == p \in {Book(w)!None, q} /\ (Unanswered(q) => p = q)

\* Without a position opened by hand a pending open stands for the position of its intent.
LEMMA BindsItsOwn ==
  ASSUME NEW w \in Ledgers, Chained(w), b_chain[Book(w)!ByHand] = "none", NEW p, AnOrder(w, p),
         NEW a \in b_view
  PROVE a \in Book(w)!Intents /\ (Book(w)!Binds(p, a) <=> p.do = "open" /\ p.intent = a)
<1>1. \A b \in b_view : b \in Book(w)!Intents /\ Book(w)!Pool(b) = b
  BY BookConstants DEF Chained, Book!Addresses
<1>2. ASSUME p.do = "open" PROVE p.addr = 0 \/ p.addr = p.intent
  BY <1>2 DEF AnOrder, Book!None, Book!Order
<1>3. Book(w)!Binds(p, a) => p.do = "open" /\ p.intent = a BY <1>1, BindsItsPool
<1>4. ASSUME p.do = "open", p.intent = a PROVE Book(w)!Binds(p, a)
  <2>1. {b \in b_view : Book(w)!Pool(b) = p.intent} = {a} BY <1>1, <1>4
  <2> QED BY <1>2, <1>4, <2>1 DEF Book!Binds
<1> QED BY <1>1, <1>3, <1>4

\* What the import of a position does to the ledger: K are the records of the position, old is
\* what the new one is made of.
LEMMA ObservedIs ==
  ASSUME NEW w \in Ledgers, Chained(w), NEW q, AnOrder(w, q), NEW p, Speaks(w, p, q), NEW a \in b_view,
         NEW L \in SUBSET Book(w)!Records, OneEach(L), NEW M, M = Book(w)!Observed(L, p, a)
  PROVE
  \/ M = L /\ \E r \in L : r.addr = a /\ Book(w)!Over(r)
  \/ \E old, new \in Book(w)!Records, K \in SUBSET L :
       /\ \A r \in L : r.addr = a => r \in K /\ r = old
       /\ \A r \in K : r.addr = a \/ (Book(w)!Binds(p, a) /\ r.addr = 0 /\ r.intent = p.intent)
       /\ \A r \in L : Book(w)!Binds(p, a) /\ r.addr = 0 /\ r.intent = p.intent
                      /\ r.life = "open_pending" /\ (\A s \in L : s.addr # a) => r \in K
       /\ old \in K \/ (K = {} /\ old.intent = 0 /\ old.addr = a /\ ~old.fill)
       /\ new.addr = a /\ new.life \in {"open", "reconcile_required"} /\ new.fill = old.fill
       /\ new.intent = IF old.intent = 0 /\ Book(w)!Binds(p, a) THEN p.intent ELSE old.intent
       /\ new \in M
       /\ \A s \in M \ {new} : \E r \in L \ K :
            s = r \/ (/\ s \in Book(w)!Records /\ s.addr = 0 /\ r.addr = 0 /\ s.intent = r.intent
                     /\ new.intent # 0 /\ r.intent = new.intent)
       /\ \A r \in L \ K : r \in M \/ (r.addr = 0 /\ new.intent # 0 /\ r.intent = new.intent)
<1> DEFINE known == Book(w)!Known(L, p, a)
           old == IF known = {} THEN Book(w)!Fresh(0, a) ELSE CHOOSE r \in known : TRUE
           owned == \/ old.addr = a /\ Book(w)!Evidenced(old)
                    \/ Book(w)!Binds(p, a)
           intent == IF old.intent = 0 /\ Book(w)!Binds(p, a) THEN p.intent ELSE old.intent
           life == IF owned THEN "open" ELSE "reconcile_required"
           why == IF owned THEN IF old.why = "unbound" THEN "none" ELSE old.why ELSE "unbound"
           new == [old EXCEPT !.addr = a, !.missing = FALSE, !.intent = intent, !.life = life,
             !.why = why]
           Twin(r) == r.addr = 0 /\ ~Book(w)!Over(r) /\ r.life # "failed_terminal"
                      /\ new.intent # 0 /\ r.intent = new.intent
<1>1. M = IF old.addr = a /\ Book(w)!Over(old) THEN L
          ELSE {new} \cup {IF Twin(r) THEN [r EXCEPT !.life = "superseded"] ELSE r : r \in L \ known}
  BY DEF Book!Observed
<1>2. AnOrder(w, p) BY DEF AnOrder, Speaks
<1>3. ASSUME Book(w)!Binds(p, a) PROVE p.intent \in 0..OpensIn[w]
  <2>1. p.intent \in 1..b_opened BY <1>2, <1>3, BindsItsPool
  <2>2. b_opened \in 0..OpensIn[w] /\ OpensIn[w] \in Nat BY BookConstants DEF Chained
  <2> QED BY <2>1, <2>2
<1>4. /\ known \in SUBSET L /\ (\A r \in L : r.addr = a => r \in known)
      /\ \A r \in known : r.addr = a \/ (Book(w)!Binds(p, a) /\ r.addr = 0 /\ r.intent = p.intent)
      /\ \A r \in L : Book(w)!Binds(p, a) /\ r.addr = 0 /\ r.intent = p.intent
                     /\ r.life = "open_pending" /\ (\A s \in L : s.addr # a) => r \in known
      /\ (\E r \in L : r.addr = a) => \A r \in known : r.addr = a
  BY DEF Book!Known, Book!Over
<1>5. a \in 1..Book(w)!ByHand /\ a # 0 BY ViewIsTrue, BookConstants
<1>6. Book(w)!Fresh(0, a) \in Book(w)!Records /\ Book(w)!Fresh(0, a).addr = a
      /\ Book(w)!Fresh(0, a).intent = 0 /\ ~Book(w)!Fresh(0, a).fill /\ ~Book(w)!Over(Book(w)!Fresh(0, a))
  BY <1>5, BookConstants DEF Book!Fresh, Book!Records, Book!Over
<1>7. old \in known \/ (known = {} /\ old = Book(w)!Fresh(0, a)) OBVIOUS
<1> HIDE DEF known, old
<1>8. old \in Book(w)!Records BY <1>4, <1>6, <1>7
<1>9. \A r \in L : r.addr = a => r \in known /\ r = old BY <1>4, <1>5, <1>7 DEF OneEach
<1>10. intent \in 0..OpensIn[w] BY <1>3, <1>8, BookConstants DEF Book!Records
<1>11. life \in {"open", "reconcile_required"} /\ why \in {"none", "awaiting", "missing", "unbound"}
  BY <1>8 DEF Book!Records
<1>12. new \in Book(w)!Records /\ new.intent = intent /\ new.addr = a /\ new.life = life
       /\ new.fill = old.fill
  <2>1. a \in 0..Book(w)!ByHand BY <1>5, BookConstants
  <2>2. life \in {"open_pending", "open", "lp_exit_pending", "reconcile_required",
                  "failed_terminal", "closed", "superseded"}
    BY <1>11
  <2> HIDE DEF intent, life, why
  <2>3. new \in Book(w)!Records BY <2>1, <2>2, <1>8, <1>10, <1>11 DEF Book!Records
  <2> QED BY <2>3, <1>8 DEF Book!Records
<1>13. CASE old.addr = a /\ Book(w)!Over(old)
  <2>1. old \in L BY <1>4, <1>6, <1>7, <1>13
  <2> QED BY <1>1, <1>13, <2>1
<1>14. CASE ~(old.addr = a /\ Book(w)!Over(old))
  <2> HIDE DEF new
  <2>1. M = {new} \cup {IF Twin(r) THEN [r EXCEPT !.life = "superseded"] ELSE r : r \in L \ known}
    BY <1>1, <1>14
  <2>2. ASSUME NEW r \in L PROVE LET s == [r EXCEPT !.life = "superseded"] IN
          s \in Book(w)!Records /\ s.addr = r.addr /\ s.intent = r.intent
    BY DEF Book!Records
  <2>3. \A s \in M \ {new} : \E r \in L \ known :
          s = r \/ (/\ s \in Book(w)!Records /\ s.addr = 0 /\ r.addr = 0 /\ s.intent = r.intent
                   /\ new.intent # 0 /\ r.intent = new.intent)
    BY <2>1, <2>2
  <2>4. \A r \in L \ known : r \in M \/ (r.addr = 0 /\ new.intent # 0 /\ r.intent = new.intent)
    BY <2>1
  <2>5. new \in M BY <2>1
  <2>6. old \in known \/ (known = {} /\ old.intent = 0 /\ old.addr = a /\ ~old.fill) BY <1>6, <1>7
  <2>7. new.addr = a /\ new.life \in {"open", "reconcile_required"} /\ new.fill = old.fill
        /\ new.intent = IF old.intent = 0 /\ Book(w)!Binds(p, a) THEN p.intent ELSE old.intent
    BY <1>11, <1>12
  <2> HIDE DEF intent, life, why, owned, Twin
  <2>8. old \in Book(w)!Records /\ new \in Book(w)!Records BY <1>8, <1>12
  <2>9. known \in SUBSET L BY <1>4
  <2>10. \A r \in known : r.addr = a \/ (Book(w)!Binds(p, a) /\ r.addr = 0 /\ r.intent = p.intent)
    BY <1>4
  <2>11. \A r \in L : Book(w)!Binds(p, a) /\ r.addr = 0 /\ r.intent = p.intent
                     /\ r.life = "open_pending" /\ (\A s \in L : s.addr # a) => r \in known
    BY <1>4
  <2> QED BY <1>9, <2>3, <2>4, <2>5, <2>6, <2>7, <2>8, <2>9, <2>10, <2>11
<1> QED BY <1>13, <1>14

\* The position that an exit is about has a record, with the intent that the exit was ordered for.
Has(L, o) == o.do = "exit" => \E r \in L : r.addr = o.addr /\ (o.intent # 0 => r.intent = o.intent)
\* A living record that says position x is the program's own.
Names(w, L, x) == \E r \in L : Book(w)!Alive(r) /\ (r.intent = x \/ (r.addr = x /\ r.fill))

\* What is asked of a ledger while q is pending: that it is in order, knows the exit o, has not
\* taken over a position opened by hand (if u), and names position x (unless it is 0).
Sound(w, L, q, o, u, x) ==
  /\ Kin(w, L, q) /\ Has(L, o)
  /\ u => ~Book(w)!Taken(L)
  /\ x # 0 => Names(w, L, x)
Asked(w, q, o, u, x) ==
  /\ AnOrder(w, q) /\ (o.do = "exit" => o.addr # 0) /\ u \in BOOLEAN
  /\ u => ~Unanswered(q)
  /\ x # 0 => ~ForeignIn[w] /\ x \in Book(w)!Intents /\ b_chain[x] = "live"

LEMMA ObservedIsSound ==
  ASSUME NEW w \in Ledgers, Chained(w), NEW q, NEW o, NEW u, NEW x, Asked(w, q, o, u, x),
         NEW p, Speaks(w, p, q), NEW a \in b_view, NEW L, Sound(w, L, q, o, u, x),
         NEW M, M = Book(w)!Observed(L, p, a)
  PROVE /\ Sound(w, M, q, o, u, x)
        /\ \E r \in M : r.addr = a
        /\ \A r \in L : r.addr # 0 => \E s \in M : s.addr = r.addr
<1>1. L \in SUBSET Book(w)!Records /\ OneEach(L) /\ AnOrder(w, q) BY DEF Sound, Kin, Asked
<1>2. CASE M = L /\ \E r \in L : r.addr = a /\ Book(w)!Over(r) BY <1>2
<1>3. CASE ~(M = L /\ \E r \in L : r.addr = a /\ Book(w)!Over(r))
  <2>1. PICK old \in Book(w)!Records, new \in Book(w)!Records, K \in SUBSET L :
       /\ \A r \in L : r.addr = a => r \in K /\ r = old
       /\ \A r \in K : r.addr = a \/ (Book(w)!Binds(p, a) /\ r.addr = 0 /\ r.intent = p.intent)
       /\ \A r \in L : Book(w)!Binds(p, a) /\ r.addr = 0 /\ r.intent = p.intent
                      /\ r.life = "open_pending" /\ (\A s \in L : s.addr # a) => r \in K
       /\ old \in K \/ (K = {} /\ old.intent = 0 /\ old.addr = a /\ ~old.fill)
       /\ new.addr = a /\ new.life \in {"open", "reconcile_required"} /\ new.fill = old.fill
       /\ new.intent = IF old.intent = 0 /\ Book(w)!Binds(p, a) THEN p.intent ELSE old.intent
       /\ new \in M
       /\ \A s \in M \ {new} : \E r \in L \ K :
            s = r \/ (/\ s \in Book(w)!Records /\ s.addr = 0 /\ r.addr = 0 /\ s.intent = r.intent
                     /\ new.intent # 0 /\ r.intent = new.intent)
       /\ \A r \in L \ K : r \in M \/ (r.addr = 0 /\ new.intent # 0 /\ r.intent = new.intent)
    BY <1>1, <1>3, ObservedIs
  <2>2. a # 0 /\ a \in 1..Book(w)!ByHand BY ViewIsTrue, BookConstants
  <2>3. M \in SUBSET Book(w)!Records BY <1>1, <2>1
  <2>4. OneEach(M)
    <3> SUFFICES ASSUME NEW r \in M, NEW s \in M, r.addr # 0, r.addr = s.addr PROVE r = s BY DEF OneEach
    <3>1. ASSUME NEW t \in M, t # new, t.addr # 0 PROVE t \in L \ K /\ t.addr # a BY <2>1, <3>1
    <3> QED BY <1>1, <2>1, <3>1 DEF OneEach
  <2>5. \A r \in L : r.addr # 0 => \E s \in M : s.addr = r.addr /\ (r.intent # 0 => s.intent = r.intent)
    <3> SUFFICES ASSUME NEW r \in L, r.addr # 0
                 PROVE \E s \in M : s.addr = r.addr /\ (r.intent # 0 => s.intent = r.intent)
      OBVIOUS
    <3>1. CASE r.addr = a BY <2>1, <3>1
    <3>2. CASE r.addr # a BY <2>1, <3>2
    <3> QED BY <3>1, <3>2
  <2>6. Has(M, o)
    <3> SUFFICES ASSUME o.do = "exit"
                 PROVE \E s \in M : s.addr = o.addr /\ (o.intent # 0 => s.intent = o.intent)
      BY DEF Has
    <3>1. PICK r \in L : r.addr = o.addr /\ (o.intent # 0 => r.intent = o.intent) BY DEF Sound, Has
    <3>2. r.addr # 0 BY <3>1 DEF Asked
    <3> QED BY <2>5, <3>1, <3>2
  <2>7. u => ~Book(w)!Taken(M)
    <3> SUFFICES ASSUME u, NEW s \in M, s.addr = Book(w)!ByHand PROVE s.intent = 0 /\ ~s.fill
      BY DEF Book!Taken
    <3>1. \A r \in L : r.addr = Book(w)!ByHand => r.intent = 0 /\ ~r.fill BY DEF Sound, Book!Taken
    <3>2. Book(w)!ByHand # 0 BY BookConstants
    <3>3. CASE s # new BY <2>1, <3>1, <3>2, <3>3
    <3>4. CASE s = new
      <4>1. a = Book(w)!ByHand BY <2>1, <3>4
      <4>2. ~Book(w)!Binds(p, a)
        <5> SUFFICES ASSUME Book(w)!Binds(p, a) PROVE FALSE OBVIOUS
        <5>1. p = q /\ p.do = "open" BY DEF Speaks, Book!Binds, Book!None
        <5>2. p.addr = a BY <5>1 DEF Book!Binds, Asked, Unanswered
        <5>3. p.addr \in Book(w)!Intents
          BY <2>2, <5>1, <5>2, BookConstants DEF Asked, AnOrder, Book!None, Book!Order, Chained
        <5> QED BY <4>1, <5>2, <5>3, BookConstants
      <4>3. old.addr = a BY <2>1, <4>2
      <4>4. old.intent = 0 /\ ~old.fill BY <2>1, <3>1, <4>1, <4>3
      <4> QED BY <2>1, <3>4, <4>2, <4>4
    <3> QED BY <3>3, <3>4
  <2>8. ASSUME ~ForeignIn[w]
        PROVE /\ OwnOnce(w, M, q)
              /\ \A r \in L \ K : r \in M
              /\ \A s \in M : s # new => s \in L \ K
    <3>1. OwnOnce(w, L, q) /\ b_chain[Book(w)!ByHand] = "none" BY <2>8 DEF Sound, Kin
    <3>2. AnOrder(w, p) BY <1>1 DEF Speaks, AnOrder
    <3>3. a \in Book(w)!Intents /\ (Book(w)!Binds(p, a) <=> p.do = "open" /\ p.intent = a)
      BY <3>1, <3>2, BindsItsOwn
    <3>4. ASSUME NEW r \in L, r.addr = 0
          PROVE /\ r.life = "open_pending" /\ q.do = "open" /\ q.addr = 0 /\ q.intent = r.intent
                /\ p = q /\ r.intent # 0
      <4>1. q = Book(w)!Order("open", r.intent, 0) /\ r.life = "open_pending"
        BY <3>1, <3>4 DEF OwnOnce, Own
      <4>2. q.do = "open" /\ q.addr = 0 /\ q.intent = r.intent BY <4>1 DEF Book!Order
      <4>3. q.intent # 0 BY <1>1, <4>2, OrdersName DEF Chained
      <4> QED BY <4>1, <4>2, <4>3 DEF Speaks, Unanswered
    <3>5. new.intent = 0 \/ new.intent = a
      <4>1. CASE old \in K
        <5>1. CASE old.addr = a BY <2>1, <2>2, <3>1, <3>3, <4>1, <5>1 DEF OwnOnce, Own
        <5>2. CASE old.addr # a BY <2>1, <3>3, <4>1, <5>2
        <5> QED BY <5>1, <5>2
      <4>2. CASE old \notin K BY <2>1, <3>3, <4>2
      <4> QED BY <4>1, <4>2
    <3>6. ASSUME NEW r \in L, r \notin K, r.addr = 0, r.intent = a PROVE FALSE
      <4>1. Book(w)!Binds(p, a) /\ r.intent = p.intent /\ r.life = "open_pending"
        BY <3>3, <3>4, <3>6
      <4>2. PICK s \in L : s.addr = a BY <2>1, <3>6, <4>1
      <4>3. s.intent = a BY <3>1, <3>4, <3>6, <4>2 DEF OwnOnce, Unanswered
      <4>4. r = s BY <2>2, <3>1, <3>6, <4>3 DEF OwnOnce
      <4> QED BY <2>2, <3>6, <4>2, <4>4
    <3>7. \A r \in L \ K : r \in M BY <2>1, <3>5, <3>6
    <3>8. \A s \in M : s # new => s \in L \ K BY <2>1, <3>5, <3>6
    <3>9. \A s \in M : Own(w, s, q)
      <4>1. Own(w, new, q) BY <2>1, <2>2, <3>5 DEF Own
      <4> QED BY <3>1, <3>8, <4>1 DEF OwnOnce
    <3>10. ASSUME NEW s \in M, s # new, s.intent # 0, s.intent = new.intent PROVE FALSE
      <4>1. s \in L /\ s \notin K /\ s.intent = a BY <3>5, <3>8, <3>10
      <4>2. s.addr # 0 BY <3>6, <4>1
      <4>3. s.addr = a BY <2>2, <3>1, <4>1, <4>2 DEF OwnOnce, Own
      <4> QED BY <2>1, <4>1, <4>3
    <3>11. \A r, s \in M : r.intent # 0 /\ r.intent = s.intent => r = s
      BY <3>1, <3>8, <3>10 DEF OwnOnce
    <3>12. ASSUME Unanswered(q), NEW s \in M, s.addr = q.intent PROVE s.intent = q.intent
      <4>1. CASE s # new BY <3>1, <3>8, <3>12, <4>1 DEF OwnOnce
      <4>2. CASE s = new
        <5>1. p = q /\ Book(w)!Binds(p, a) BY <2>1, <3>3, <3>12, <4>2 DEF Speaks, Unanswered
        <5>2. new.intent # 0 BY <2>1, <2>2, <3>3, <5>1
        <5> QED BY <2>1, <3>5, <3>12, <4>2, <5>2
      <4> QED BY <4>1, <4>2
    <3> QED BY <3>7, <3>8, <3>9, <3>11, <3>12 DEF OwnOnce
  <2>9. Kin(w, M, q) BY <2>3, <2>4, <2>8 DEF Sound, Kin
  <2>10. ASSUME x # 0 PROVE Names(w, M, x)
    <3>1. ~ForeignIn[w] BY <2>10 DEF Asked
    <3>2. PICK r \in L : Book(w)!Alive(r) /\ (r.intent = x \/ (r.addr = x /\ r.fill))
      BY <2>10 DEF Sound, Names
    <3>3. CASE r \notin K BY <2>8, <3>1, <3>2, <3>3 DEF Names
    <3>4. CASE r \in K
      <4>1. Book(w)!Alive(new) BY <2>1 DEF Book!Alive, Book!Over
      <4>2. CASE r.addr = a
        <5>1. r = old BY <2>1, <4>2
        <5>2. new.intent = x \/ (new.addr = x /\ new.fill) BY <2>1, <2>10, <3>2, <4>2, <5>1
        <5> QED BY <2>1, <4>1, <5>2 DEF Names
      <4>3. CASE r.addr # a
        <5>1. r.addr = 0 /\ r.intent = p.intent /\ Book(w)!Binds(p, a) BY <2>1, <3>4, <4>3
        <5>2. r.intent = x BY <2>10, <3>2, <5>1
        <5>3. old \in K /\ (old.intent = 0 => new.intent = x)
          BY <2>1, <3>4, <5>1, <5>2
        <5>4. ASSUME old.intent # 0 PROVE old.intent = x
          <6>1. old.addr # a => old.intent = p.intent BY <2>1, <5>3
          <6>2. old.addr = a => old.intent = a
            BY <2>2, <3>1, <5>3, <5>4 DEF Sound, Kin, OwnOnce, Own
          <6>3. p.intent = a
            <7>1. AnOrder(w, p) BY <1>1 DEF Speaks, AnOrder
            <7>2. b_chain[Book(w)!ByHand] = "none" BY <3>1 DEF Sound, Kin
            <7> QED BY <5>1, <7>1, <7>2, BindsItsOwn
          <6> QED BY <5>1, <5>2, <6>1, <6>2, <6>3
        <5>5. new.intent = x BY <2>1, <5>3, <5>4
        <5> QED BY <2>1, <4>1, <5>5 DEF Names
      <4> QED BY <4>2, <4>3
    <3> QED BY <3>3, <3>4
  <2> QED BY <2>1, <2>5, <2>6, <2>7, <2>9, <2>10 DEF Sound
<1> QED BY <1>2, <1>3

\* Records that are rewritten one by one, and stay whose they are.
LEMMA RewrittenIsSound ==
  ASSUME NEW w \in Ledgers, NEW q, NEW o, NEW u, NEW x, Asked(w, q, o, u, x),
         NEW L, Sound(w, L, q, o, u, x), NEW f,
         \A r \in L : /\ f[r] \in Book(w)!Records /\ f[r].addr = r.addr /\ f[r].intent = r.intent
                      /\ f[r].fill = r.fill
                      /\ ~ForeignIn[w] /\ r.addr = 0 => f[r].life = r.life
                      /\ x # 0 /\ Book(w)!Alive(r) /\ r.addr \in {0, x} => Book(w)!Alive(f[r])
  PROVE Sound(w, {f[r] : r \in L}, q, o, u, x)
<1> DEFINE M == {f[r] : r \in L}
<1>1. \A s \in M : \E r \in L : s = f[r] OBVIOUS
<1>2. \A r \in L : f[r] \in M OBVIOUS
<1> HIDE DEF M
<1>3. OneEach(L) /\ L \in SUBSET Book(w)!Records BY DEF Sound, Kin
<1>4. M \in SUBSET Book(w)!Records /\ OneEach(M)
  <2>1. M \in SUBSET Book(w)!Records BY <1>1
  <2>2. OneEach(M)
    <3> SUFFICES ASSUME NEW s \in M, NEW t \in M, s.addr # 0, s.addr = t.addr PROVE s = t BY DEF OneEach
    <3>1. PICK r \in L : s = f[r] BY <1>1
    <3>2. PICK v \in L : t = f[v] BY <1>1
    <3>3. r.addr = s.addr /\ v.addr = t.addr BY <3>1, <3>2
    <3> QED BY <1>3, <3>1, <3>2, <3>3 DEF OneEach
  <2> QED BY <2>1, <2>2
<1>5. ASSUME ~ForeignIn[w] PROVE OwnOnce(w, M, q)
  <2>1. OwnOnce(w, L, q) BY <1>5 DEF Sound, Kin
  <2>2. \A s \in M : Own(w, s, q)
    <3> SUFFICES ASSUME NEW r \in L PROVE Own(w, f[r], q) BY <1>1
    <3>1. Own(w, r, q) BY <2>1 DEF OwnOnce
    <3> QED BY <1>5, <3>1 DEF Own
  <2>3. \A s, t \in M : s.intent # 0 /\ s.intent = t.intent => s = t
    <3> SUFFICES ASSUME NEW s \in M, NEW t \in M, s.intent # 0, s.intent = t.intent PROVE s = t OBVIOUS
    <3>1. PICK r \in L : s = f[r] BY <1>1
    <3>2. PICK v \in L : t = f[v] BY <1>1
    <3>3. r.intent = s.intent /\ v.intent = t.intent BY <3>1, <3>2
    <3> QED BY <2>1, <3>1, <3>2, <3>3 DEF OwnOnce
  <2>4. Unanswered(q) => \A s \in M : s.addr = q.intent => s.intent = q.intent
    BY <1>1, <2>1 DEF OwnOnce
  <2> QED BY <2>2, <2>3, <2>4 DEF OwnOnce
<1>6. Has(M, o) BY <1>2 DEF Sound, Has
<1>7. u => ~Book(w)!Taken(M) BY <1>1 DEF Sound, Book!Taken
<1>8. ASSUME x # 0 PROVE Names(w, M, x)
  <2>1. PICK r \in L : Book(w)!Alive(r) /\ (r.intent = x \/ (r.addr = x /\ r.fill))
    BY <1>8 DEF Sound, Names
  <2>2. r.addr \in {0, x} BY <1>8, <2>1 DEF Sound, Kin, OwnOnce, Own, Asked
  <2> QED BY <1>2, <1>8, <2>1, <2>2 DEF Names
<1> QED BY <1>4, <1>5, <1>6, <1>7, <1>8 DEF Sound, Kin, M

LEMMA UnseenRecord ==
  ASSUME NEW w \in Ledgers, NEW r \in Book(w)!Records, NEW p, NEW closing \in BOOLEAN,
         NEW t, t = Book(w)!Unseen(r, p, closing)
  PROVE /\ t \in Book(w)!Records /\ t.intent = r.intent /\ t.addr = r.addr /\ t.fill = r.fill
        /\ r.addr # 0 => t.life \in {r.life, "closed"}
        /\ Book(w)!Over(r) => t = r
        /\ r.addr = 0 /\ Book(w)!Submitted(r, p) => t.life = r.life
<1> DEFINE close == closing /\ p = Book(w)!None /\ r.act = "exit"
           grace == r.act = "open" /\ r.fill /\ r.young
           failed == r.why = "missing" \/ r.missing
           shows == Book(w)!Over(r) \/ (r.addr # 0 /\ r.addr \in b_view)
           young == r.life = "open_pending" /\ r.addr = 0 /\ grace
           old == r.life = "open_pending" /\ r.addr = 0 /\ ~grace
           lost == r.life = "open" /\ r.addr = 0 /\ ~r.fill
           ends == close \/ (closing /\ p = Book(w)!None /\ r.life = "lp_exit_pending")
<1>1. /\ shows => t = r
      /\ ~shows /\ Book(w)!Submitted(r, p) => t = [r EXCEPT !.missing = FALSE]
      /\ ~shows /\ ~Book(w)!Submitted(r, p) /\ young
         => t = [r EXCEPT !.why = "awaiting", !.missing = FALSE]
      /\ ~shows /\ ~Book(w)!Submitted(r, p) /\ old /\ failed =>
           t = [r EXCEPT !.life = "failed_terminal", !.why = r.why, !.missing = TRUE]
      /\ ~shows /\ ~Book(w)!Submitted(r, p) /\ old /\ ~failed =>
           t = [r EXCEPT !.life = "reconcile_required", !.why = "none", !.missing = TRUE]
      /\ ~shows /\ ~Book(w)!Submitted(r, p) /\ ~young /\ ~old /\ lost =>
           t = [r EXCEPT !.life = "failed_terminal", !.missing = TRUE]
      /\ ~shows /\ ~Book(w)!Submitted(r, p) /\ ~young /\ ~old /\ ~lost /\ ends =>
           t = [r EXCEPT !.life = "closed"]
      /\ ~shows /\ ~Book(w)!Submitted(r, p) /\ ~young /\ ~old /\ ~lost /\ ~ends =>
           t = [r EXCEPT !.missing = TRUE, !.why = IF closing THEN "missing" ELSE r.why]
  BY DEF Book!Unseen
<1>2. young \/ old => r.addr = 0 OBVIOUS
<1>3. lost => r.addr = 0 OBVIOUS
<1>4. Book(w)!Over(r) => shows OBVIOUS
<1> HIDE DEF shows, failed, young, old, lost, ends
<1> QED BY <1>1, <1>2, <1>3, <1>4 DEF Book!Records

LEMMA NormalRecord ==
  ASSUME NEW w \in Ledgers, NEW r \in Book(w)!Records, NEW L, NEW p,
         NEW t, t = Book(w)!Normal(r, L, p)
  PROVE /\ t \in Book(w)!Records /\ t.intent = r.intent /\ t.addr = r.addr /\ t.fill = r.fill
        /\ r.addr # 0 => t = r
        /\ /\ r.life = "open_pending" /\ p.do = "open" /\ p.intent = r.intent
           /\ ~\E c \in L : c.addr # 0 /\ c.life = "closed" /\ c.intent = r.intent
           => t = r
<1> DEFINE grace == r.act = "open" /\ r.fill /\ r.young
           waits == r.life = "open_pending" /\ r.act = "open" /\ r.why = "awaiting" /\ r.fill
           done == /\ r.addr = 0 /\ r.intent # 0
                   /\ \E c \in L : c.addr # 0 /\ c.life = "closed" /\ c.intent = r.intent
           back == r.addr = 0 /\ grace /\ r.life = "reconcile_required"
           stale == r.addr = 0 /\ waits /\ ~(p.do = "open" /\ p.intent = r.intent) /\ ~grace
<1>1. /\ Book(w)!Over(r) \/ (~done /\ ~back /\ ~stale) => t = r
      /\ ~Book(w)!Over(r) /\ done
         => t = [r EXCEPT !.life = "superseded", !.act = "exit", !.missing = TRUE]
      /\ ~Book(w)!Over(r) /\ ~done /\ back =>
           t = [r EXCEPT !.life = "open_pending", !.why = "awaiting", !.missing = FALSE]
      /\ ~Book(w)!Over(r) /\ ~done /\ ~back /\ stale =>
           t = [r EXCEPT !.life = "reconcile_required", !.why = "none", !.missing = TRUE]
  BY DEF Book!Normal
<1>2. done \/ back \/ stale => r.addr = 0 OBVIOUS
<1>3. /\ r.life = "open_pending" /\ p.do = "open" /\ p.intent = r.intent
      /\ ~\E c \in L : c.addr # 0 /\ c.life = "closed" /\ c.intent = r.intent
      => ~done /\ ~back /\ ~stale
  OBVIOUS
<1> HIDE DEF done, back, stale
<1> QED BY <1>1, <1>2, <1>3 DEF Book!Records

\* What an unanswered open has to do with a record without an address.
LEMMA UnaddressedIsPending ==
  ASSUME NEW w \in Ledgers, NEW q, NEW p, Speaks(w, p, q), NEW L, OwnOnce(w, L, q),
         NEW r \in L, r.addr = 0
  PROVE r.life = "open_pending" /\ p = q /\ q.do = "open" /\ q.addr = 0 /\ q.intent = r.intent
<1>1. q = Book(w)!Order("open", r.intent, 0) /\ r.life = "open_pending" BY DEF OwnOnce, Own
<1> QED BY <1>1 DEF Book!Order, Speaks, Unanswered

LEMMA NormalizedIsSound ==
  ASSUME NEW w \in Ledgers, Chained(w), NEW q, NEW o, NEW u, NEW x, Asked(w, q, o, u, x),
         NEW p, Speaks(w, p, q), NEW L, Sound(w, L, q, o, u, x)
  PROVE Sound(w, Book(w)!Normalized(L, p), q, o, u, x)
<1> DEFINE f == [r \in L |-> Book(w)!Normal(r, L, p)]
<1>1. ASSUME NEW r \in L
      PROVE /\ f[r] \in Book(w)!Records /\ f[r].addr = r.addr /\ f[r].intent = r.intent
            /\ f[r].fill = r.fill
            /\ r.addr # 0 => f[r] = r
            /\ ~ForeignIn[w] => f[r] = r
  <2>1. r \in Book(w)!Records BY DEF Sound, Kin
  <2>2. f[r] = Book(w)!Normal(r, L, p) OBVIOUS
  <2> HIDE DEF f
  <2>3. ASSUME ~ForeignIn[w], r.addr = 0 PROVE f[r] = r
    <3>1. OwnOnce(w, L, q) BY <2>3 DEF Sound, Kin
    <3>2. r.life = "open_pending" /\ p = q /\ q.do = "open" /\ q.intent = r.intent
      BY <2>3, <3>1, UnaddressedIsPending
    <3>3. r.intent # 0 BY <3>2, OrdersName DEF Asked, Chained
    <3>4. ~\E c \in L : c.addr # 0 /\ c.life = "closed" /\ c.intent = r.intent
      BY <2>3, <3>1, <3>3 DEF OwnOnce
    <3> QED BY <2>1, <2>2, <3>2, <3>4, NormalRecord
  <2> QED BY <2>1, <2>2, <2>3, NormalRecord
<1>2. Book(w)!Normalized(L, p) = {f[r] : r \in L} BY DEF Book!Normalized
<1> HIDE DEF f
<1>3. \A r \in L : x # 0 => f[r] = r BY <1>1 DEF Asked
<1>4. \A r \in L : ~ForeignIn[w] => f[r] = r BY <1>1
<1>5. Sound(w, {f[r] : r \in L}, q, o, u, x) BY <1>1, <1>3, <1>4, RewrittenIsSound
<1> QED BY <1>2, <1>5

LEMMA UnseenIsSound ==
  ASSUME NEW w \in Ledgers, Chained(w), b_at # "start", NEW q, NEW o, NEW u, NEW x,
         Asked(w, q, o, u, x), NEW p, Speaks(w, p, q), NEW closing \in BOOLEAN, closing => p = q,
         NEW L, Sound(w, L, q, o, u, x), AllFine(w, L, q)
  PROVE Sound(w, {Book(w)!Unseen(r, p, closing) : r \in L}, q, o, u, x)
<1> DEFINE f == [r \in L |-> Book(w)!Unseen(r, p, closing)]
<1>1. ASSUME NEW r \in L
      PROVE /\ f[r] \in Book(w)!Records /\ f[r].addr = r.addr /\ f[r].intent = r.intent
            /\ f[r].fill = r.fill
            /\ ~ForeignIn[w] /\ r.addr = 0 => f[r].life = r.life
            /\ x # 0 /\ Book(w)!Alive(r) /\ r.addr \in {0, x} => Book(w)!Alive(f[r])
  <2>1. r \in Book(w)!Records BY DEF Sound, Kin
  <2>2. f[r] = Book(w)!Unseen(r, p, closing) OBVIOUS
  <2> HIDE DEF f
  <2>3. /\ f[r] \in Book(w)!Records /\ f[r].addr = r.addr /\ f[r].intent = r.intent
        /\ f[r].fill = r.fill
        /\ r.addr # 0 => f[r].life \in {r.life, "closed"}
    BY <2>1, <2>2, UnseenRecord
  <2>4. ASSUME ~ForeignIn[w], r.addr = 0 PROVE f[r].life = r.life
    <3>1. OwnOnce(w, L, q) BY <2>4 DEF Sound, Kin
    <3>2. r.life = "open_pending" /\ p = q /\ q.do = "open" /\ q.intent = r.intent
      BY <2>4, <3>1, UnaddressedIsPending
    <3>3. Book(w)!Submitted(r, p) BY <3>2 DEF Book!Submitted
    <3> QED BY <2>1, <2>2, <2>4, <3>3, UnseenRecord
  <2>5. ASSUME x # 0, Book(w)!Alive(r), r.addr \in {0, x} PROVE Book(w)!Alive(f[r])
    <3>1. ~ForeignIn[w] /\ b_chain[x] = "live" BY <2>5 DEF Asked
    <3>2. CASE r.addr = 0 BY <2>4, <2>5, <3>1, <3>2 DEF Book!Alive, Book!Over
    <3>3. CASE r.addr # 0
      <4>1. Fine(w, f[r], q)
        <5>1. p \in {Book(w)!None, q} BY DEF Speaks
        <5>2. Fine(w, r, q) BY DEF AllFine
        <5> QED BY <2>2, <5>1, <5>2, UnseenIsFine
      <4>2. f[r].life # "closed" BY <2>3, <2>5, <3>1, <3>3, <4>1 DEF Fine
      <4> QED BY <2>3, <2>5, <3>3, <4>2 DEF Book!Alive, Book!Over
    <3> QED BY <3>2, <3>3
  <2> QED BY <2>3, <2>4, <2>5
<1>2. {Book(w)!Unseen(r, p, closing) : r \in L} = {f[r] : r \in L} OBVIOUS
<1> HIDE DEF f
<1>3. Sound(w, {f[r] : r \in L}, q, o, u, x) BY <1>1, RewrittenIsSound
<1> QED BY <1>2, <1>3

\* The import keeps what is asked of the ledger, and every position the wallet shows has a record.
KnowsView(L) == \A a \in b_view : \E r \in L : r.addr = a
LEMMA ImportedIsSound ==
  ASSUME NEW w \in Ledgers, Chained(w), b_at # "start", NEW q, NEW o, NEW u, NEW x,
         Asked(w, q, o, u, x), NEW p, Speaks(w, p, q), NEW closing \in BOOLEAN, closing => p = q,
         NEW L, Sound(w, L, q, o, u, x), AllFine(w, L, q)
  PROVE /\ Sound(w, Book(w)!Imported(L, p, closing), q, o, u, x)
        /\ AllFine(w, Book(w)!Imported(L, p, closing), q)
        /\ KnowsView(Book(w)!Imported(L, p, closing))
<1> DEFINE Good == {M \in SUBSET Book(w)!Records : AllFine(w, M, q) /\ Sound(w, M, q, o, u, x)}
           good == [s \in SUBSET b_view |->
             {M \in SUBSET Book(w)!Records : \A a \in s : \E r \in M : r.addr = a}]
           seen == Seen(w, L, p)
           unseen == {Book(w)!Unseen(r, p, closing) : r \in seen}
<1>1. AnOrder(w, q) /\ p \in {Book(w)!None, q} BY DEF Asked, Speaks
<1>2. L \in Good /\ L \in good[{}] BY DEF Sound, Kin
<1>3. ASSUME NEW a \in b_view, NEW M \in Good
      PROVE LET N == Book(w)!Observed(M, p, a) IN
              /\ N \in Good /\ \E r \in N : r.addr = a
              /\ \A r \in M : r.addr # 0 => \E s \in N : s.addr = r.addr
  <2> DEFINE N == Book(w)!Observed(M, p, a)
  <2>1. AllFine(w, N, q) BY <1>1, ObservedIsFine
  <2>2. Sound(w, M, q, o, u, x) OBVIOUS
  <2> HIDE DEF Good
  <2>3. /\ Sound(w, N, q, o, u, x) /\ \E r \in N : r.addr = a
        /\ \A r \in M : r.addr # 0 => \E s \in N : s.addr = r.addr
    BY <2>2, ObservedIsSound
  <2>4. N \in SUBSET Book(w)!Records BY <2>3 DEF Sound, Kin
  <2> HIDE DEF N
  <2>5. N \in Good BY <2>1, <2>3, <2>4 DEF Good
  <2> QED BY <2>3, <2>5 DEF N
<1>4. ASSUME NEW s \in SUBSET b_view, NEW a \in s, NEW M \in Good, M \in good[s \ {a}]
      PROVE Book(w)!Observed(M, p, a) \in good[s]
  <2>1. a \in b_view OBVIOUS
  <2>2. \A b \in s \ {a} : \E r \in M : r.addr = b BY <1>4
  <2>3. \A b \in b_view : b # 0 BY ViewIsTrue, BookConstants
  <2> DEFINE N == Book(w)!Observed(M, p, a)
  <2> HIDE DEF Good
  <2>4. N \in SUBSET Book(w)!Records
    <3>1. N \in Good BY <1>3, <2>1
    <3> QED BY <3>1 DEF Good
  <2>5. (\E r \in N : r.addr = a) /\ \A r \in M : r.addr # 0 => \E t \in N : t.addr = r.addr
    BY <1>3, <2>1
  <2> HIDE DEF N
  <2>6. \A b \in s : \E r \in N : r.addr = b BY <2>2, <2>3, <2>5
  <2>7. N \in good[s] BY <2>4, <2>6
  <2> QED BY <2>7 DEF N
<1>5. seen \in Good /\ seen \in good[b_view]
  <2>1. \A a \in b_view, M \in Good : Book(w)!Observed(M, p, a) \in Good
    <3> HIDE DEF Good
    <3> QED BY <1>3
  <2> HIDE DEF Good, good, seen
  <2> QED BY <1>2, <1>4, <2>1, SeenIs DEF seen
<1>6. AllFine(w, seen, q) /\ Sound(w, seen, q, o, u, x) /\ \A a \in b_view : \E r \in seen : r.addr = a
  <2> HIDE DEF seen
  <2> QED BY <1>5
<1> HIDE DEF seen
<1>7. Sound(w, unseen, q, o, u, x) BY <1>6, UnseenIsSound
<1>8. AllFine(w, unseen, q) BY <1>1, <1>6, UnseenIsFine DEF AllFine
<1>9. \A r \in seen : Book(w)!Unseen(r, p, closing).addr = r.addr
  BY <1>6, UnseenRecord DEF Sound, Kin
<1>10. \A a \in b_view : \E r \in unseen : r.addr = a BY <1>6, <1>9
<1> HIDE DEF unseen
<1>11. \A r \in unseen : Book(w)!Normal(r, unseen, p).addr = r.addr
  BY <1>7, NormalRecord DEF Sound, Kin
<1>12. \A a \in b_view : \E r \in Book(w)!Normalized(unseen, p) : r.addr = a
  BY <1>10, <1>11 DEF Book!Normalized
<1>13. Book(w)!Imported(L, p, closing) = Book(w)!Normalized(unseen, p) BY ImportedIs DEF unseen, seen
<1>14. Sound(w, Book(w)!Normalized(unseen, p), q, o, u, x) BY <1>7, NormalizedIsSound
<1>15. AllFine(w, Book(w)!Normalized(unseen, p), q) BY <1>8, NormalizedIsFine
<1> QED BY <1>12, <1>13, <1>14, <1>15 DEF KnowsView

\* What booking an order of target t makes of a ledger: old is the record of the target, if there
\* is one, new is made of it, and R are the others.
Superseded(r, new) ==
  r.addr = 0 /\ r.intent = new.intent /\ new.intent # 0 /\ new.addr # 0 /\ new.life = "closed"
IsBooked(w, L, o, c, kept, t, old, new, R) ==
  /\ \/ old \in L /\ IF t.addr # 0 THEN old.addr = t.addr ELSE old.intent = t.intent
     \/ /\ old.addr = t.addr /\ old.intent = t.intent /\ ~old.fill
        /\ \A r \in L : IF t.addr # 0 THEN r.addr # t.addr ELSE r.intent # t.intent
  /\ new.addr = old.addr /\ new.intent = IF old.intent = 0 THEN t.intent ELSE old.intent
  /\ new.fill => old.fill \/ o.do = "open"
  /\ old.fill => new.fill
  /\ new.life \in {old.life, "closed", "lp_exit_pending", "open_pending", "open"}
  /\ new.life = "closed" => old.life = "closed" \/ (t.do = "exit" /\ (c.proven \/ c.already))
  /\ t.do = "open" /\ kept # Book(w)!None => new.life = "open_pending"
  /\ t.do = "open" /\ kept = Book(w)!None /\ o = t /\ c.confirmed /\ t.addr # 0 => new.life = "open"
  /\ \A s \in R : \E r \in L :
       r # old /\ (s = r \/ (Superseded(r, new) /\ s.addr = 0 /\ s.intent = r.intent))
  /\ \A r \in L : r # old => r \in R \/ Superseded(r, new)

LEMMA BookedIs ==
  ASSUME NEW w \in Ledgers, Chained(w), NEW q, NEW p, NEW L \in SUBSET Book(w)!Records, NEW o, NEW c,
         NEW kept, NEW t, t = IF o # Book(w)!None THEN o ELSE p, Told(w, t, q), Found(c)
  PROVE \E old, new \in Book(w)!Records, R \in SUBSET Book(w)!Records :
          /\ Book(w)!Booked(L, o, c, kept, p) = Book(w)!Normalized(R \cup {new}, p)
          /\ IsBooked(w, L, o, c, kept, t, old, new, R)
<1> DEFINE match == Book(w)!Targeted(L, t)
           start == IF t.do = "open" THEN "open_pending" ELSE "lp_exit_pending"
           old == IF match = {}
                  THEN [Book(w)!Fresh(t.intent, t.addr) EXCEPT
                          !.life = IF t.do = "open" THEN "open_pending" ELSE "lp_exit_pending",
                          !.act = t.do]
                  ELSE CHOOSE r \in match : TRUE
           exit == t.do = "exit"
           open == o.do = "open"
           gone == c.already /\ old.addr \notin b_view
           life == IF exit /\ kept = Book(w)!None /\ (c.proven \/ gone) THEN "closed"
                   ELSE IF exit /\ (kept # Book(w)!None \/ c.confirmed) THEN "lp_exit_pending"
                   ELSE IF ~exit /\ kept # Book(w)!None THEN "open_pending"
                   ELSE IF open /\ c.confirmed THEN IF t.addr # 0 THEN "open" ELSE "open_pending"
                   ELSE old.life
           intent == IF old.intent = 0 THEN t.intent ELSE old.intent
           addr == IF t.addr # 0 THEN t.addr ELSE old.addr
           act == IF o = Book(w)!None /\ old.life = "reconcile_required" THEN old.act
                  ELSE IF o = Book(w)!None THEN "hold" ELSE o.do
           why == IF o = Book(w)!None /\ old.life = "reconcile_required" THEN old.why ELSE "none"
           fill == old.fill \/ (open /\ c.confirmed /\ c.filled)
           young == old.young \/ (open /\ c.confirmed)
           held == kept # Book(w)!None
           missing == old.missing /\ old.addr \notin b_view
           new == [old EXCEPT !.life = life, !.intent = intent, !.addr = addr, !.act = act,
                              !.why = why, !.fill = fill, !.young = young, !.held = held,
                              !.missing = missing]
           Twin(r) == /\ life = "closed" /\ new.addr # 0 /\ r.addr = 0 /\ ~Book(w)!Over(r)
                      /\ new.intent # 0 /\ r.intent = new.intent
           rest == {IF Twin(r) THEN [r EXCEPT !.life = "superseded"] ELSE r : r \in L \ {old}}
<1>1. Book(w)!Booked(L, o, c, kept, p) = Book(w)!Normalized(rest \cup {new}, p) BY DEF Book!Booked
<1>2. /\ old \in Book(w)!Records
      /\ \/ old \in L /\ IF t.addr # 0 THEN old.addr = t.addr ELSE old.intent = t.intent
         \/ /\ old.addr = t.addr /\ old.intent = t.intent /\ ~old.fill
            /\ \A r \in L : IF t.addr # 0 THEN r.addr # t.addr ELSE r.intent # t.intent
  <2>0. match \in SUBSET L
        /\ \A r \in L : r \in match <=> IF t.addr # 0 THEN r.addr = t.addr ELSE r.intent = t.intent
    BY DEF Book!Targeted
  <2>1. CASE match # {}
    <3>1. old \in match BY <2>1
    <3> HIDE DEF old, match
    <3> QED BY <2>0, <3>1
  <2>2. CASE match = {}
    <3>1. old = [Book(w)!Fresh(t.intent, t.addr) EXCEPT !.life = start, !.act = t.do] BY <2>2
    <3>2. t.intent \in 0..OpensIn[w] /\ t.addr \in 0..Book(w)!ByHand BY BookConstants DEF Told, Chained
    <3>3. Book(w)!Fresh(t.intent, t.addr) \in Book(w)!Records BY <3>2 DEF Book!Fresh, Book!Records
    <3>4. start \in {"open_pending", "lp_exit_pending"} /\ t.do \in {"hold", "open", "exit"} BY DEF Told
    <3> DEFINE fresh == Book(w)!Fresh(t.intent, t.addr)
    <3>5. fresh \in Book(w)!Records /\ fresh.intent = t.intent /\ fresh.addr = t.addr /\ ~fresh.fill
      BY <3>3 DEF Book!Fresh
    <3> HIDE DEF old, start, fresh
    <3>6. old = [fresh EXCEPT !.life = start, !.act = t.do] BY <3>1 DEF fresh
    <3>7. /\ old \in Book(w)!Records /\ old.intent = t.intent /\ old.addr = t.addr /\ ~old.fill
      BY <3>4, <3>5, <3>6 DEF Book!Records
    <3> QED BY <2>0, <2>2, <3>7
  <2> QED BY <2>1, <2>2
<1> HIDE DEF old
<1>3. o # Book(w)!None => o = t OBVIOUS
<1>4. addr = old.addr BY <1>2
<1>5. intent \in 0..OpensIn[w] BY <1>2, BookConstants DEF Told, Chained, Book!Records
<1>6. /\ life \in {"open_pending", "open", "lp_exit_pending", "reconcile_required",
                    "failed_terminal", "closed", "superseded"}
      /\ act \in {"hold", "open", "exit"} /\ why \in {"none", "awaiting", "missing", "unbound"}
  BY <1>2, <1>3 DEF Book!Records, Told
<1>7. fill \in BOOLEAN /\ young \in BOOLEAN /\ held \in BOOLEAN /\ missing \in BOOLEAN
  BY <1>2 DEF Book!Records, Found
<1>8. addr \in 0..Book(w)!ByHand BY <1>2, <1>4 DEF Book!Records
<1>9. new \in Book(w)!Records /\ new.life = life /\ new.intent = intent /\ new.addr = addr
      /\ new.fill = fill
  <2> DEFINE half == [old EXCEPT !.life = life, !.intent = intent, !.addr = addr, !.act = act,
                                 !.why = why]
  <2>1. new = [half EXCEPT !.fill = fill, !.young = young, !.held = held, !.missing = missing]
    OBVIOUS
  <2>2. old \in Book(w)!Records BY <1>2
  <2>3. intent \in 0..OpensIn[w] BY <1>5
  <2> HIDE DEF life, intent, addr, act, why, fill, young, held, missing, new
  <2>4. half \in Book(w)!Records
    <3>1. life \in Lives /\ why \in Whys BY <1>6 DEF Lives, Whys
    <3> QED BY <2>2, <2>3, <3>1, <1>6, <1>8, Rewritten, Zenon
  <2>5. half.life = life /\ half.intent = intent /\ half.addr = addr BY <2>2 DEF Book!Records
  <2> HIDE DEF half
  <2>6. new \in Book(w)!Records /\ new.fill = fill BY <1>7, <2>1, <2>4 DEF Book!Records
  <2> QED BY <2>1, <2>4, <2>5, <2>6 DEF Book!Records
<1> HIDE DEF new
<1>10. /\ life \in {old.life, "closed", "lp_exit_pending", "open_pending", "open"}
       /\ life = "closed" => old.life = "closed" \/ (t.do = "exit" /\ (c.proven \/ c.already))
       /\ t.do = "open" /\ kept # Book(w)!None => life = "open_pending"
       /\ t.do = "open" /\ kept = Book(w)!None /\ o = t /\ c.confirmed /\ t.addr # 0 => life = "open"
  OBVIOUS
<1>11. (fill => old.fill \/ o.do = "open") /\ (old.fill => fill) OBVIOUS
<1>12. ASSUME NEW r \in L PROVE LET s == [r EXCEPT !.life = "superseded"] IN
         s \in Book(w)!Records /\ s.addr = r.addr /\ s.intent = r.intent
  BY DEF Book!Records
<1> HIDE DEF life, fill
<1>13. /\ rest \in SUBSET Book(w)!Records
       /\ \A s \in rest : \E r \in L :
            r # old /\ (s = r \/ (Superseded(r, new) /\ s.addr = 0 /\ s.intent = r.intent))
  <2>1. ASSUME NEW r \in L
        PROVE /\ Twin(r) => Superseded(r, new)
              /\ LET s == IF Twin(r) THEN [r EXCEPT !.life = "superseded"] ELSE r IN
                   /\ s \in Book(w)!Records
                   /\ s = r \/ (Superseded(r, new) /\ s.addr = 0 /\ s.intent = r.intent)
    <3>1. Twin(r) => Superseded(r, new) BY <1>9 DEF Superseded
    <3>2. r \in Book(w)!Records /\ (Superseded(r, new) => r.addr = 0) BY DEF Superseded
    <3> HIDE DEF Twin
    <3> QED BY <3>1, <3>2, <1>12
  <2> HIDE DEF Twin
  <2> QED BY <2>1
<1>14. \A r \in L : r # old => r \in rest \/ Superseded(r, new) BY <1>9 DEF Superseded
<1>15. new.addr = old.addr /\ new.intent = IF old.intent = 0 THEN t.intent ELSE old.intent BY <1>4, <1>9
<1> HIDE DEF rest, intent, addr
<1>16. IsBooked(w, L, o, c, kept, t, old, new, rest)
  BY <1>2, <1>9, <1>10, <1>11, <1>13, <1>14, <1>15, SMTT(30) DEF IsBooked
<1> QED BY <1>1, <1>2, <1>9, <1>13, <1>16

\* An open, as it is sent.
LEMMA OrdersShape ==
  ASSUME NEW w \in Ledgers, NEW o, AnOrder(w, o), o.do = "open"
  PROVE o = Book(w)!Order("open", o.intent, o.addr) /\ (o.addr = 0 \/ o.addr = o.intent)
<1>1. PICK i \in 1..b_opened : o = Book(w)!Order("open", i, 0) \/ o = Book(w)!Order("open", i, i)
  BY DEF AnOrder, Book!None, Book!Order
<1>2. o.intent = i /\ (o.addr = 0 \/ o.addr = i) BY <1>1 DEF Book!Order
<1>3. o = Book(w)!Order("open", o.intent, o.addr) BY <1>1 DEF Book!Order
<1> QED BY <1>2, <1>3

\* The ledger has the position of open i.
Held(w, L, i) == \E r \in L : Book(w)!Alive(r) /\ r.intent = i /\ r.addr # 0

\* What an order of target t may be booked on: an exit of what the ledger knows, and an open that
\* is pending still or whose position has an address.
FitsIn(w, L, q, kept, t, u) ==
  /\ t.do = "exit" => Has(L, t)
  /\ t.do = "open" => t.intent # 0 /\ (u => t.addr # Book(w)!ByHand)
  /\ ~ForeignIn[w] =>
       /\ t.addr = 0 => t = q /\ kept # Book(w)!None
       /\ t.do = "open" /\ t.addr # 0 => t.addr = t.intent /\ \A r \in L : r.addr # 0

LEMMA BookedIsSound ==
  ASSUME NEW w \in Ledgers, Chained(w), NEW q, NEW e, NEW u, NEW x, Asked(w, q, e, u, x),
         NEW p, Speaks(w, p, q), NEW L, Sound(w, L, q, e, u, x), NEW o, NEW c, Found(c), NEW kept,
         NEW t, t = IF o # Book(w)!None THEN o ELSE p, Told(w, t, q), FitsIn(w, L, q, kept, t, u),
         c.proven \/ c.already => o.do = "exit" /\ b_chain[o.addr] = "gone",
         NEW N, N = Book(w)!Booked(L, o, c, kept, p)
  PROVE /\ Sound(w, N, q, e, u, x)
        /\ ~ForeignIn[w] /\ t.do = "open" /\ t.addr # 0 =>
             /\ \A s \in N : s.addr # 0
             /\ kept = Book(w)!None /\ o = t /\ c.confirmed => Held(w, N, t.intent)
<1>1. L \in SUBSET Book(w)!Records /\ OneEach(L) BY DEF Sound, Kin
<1>2. PICK old \in Book(w)!Records, new \in Book(w)!Records, R \in SUBSET Book(w)!Records :
        /\ Book(w)!Booked(L, o, c, kept, p) = Book(w)!Normalized(R \cup {new}, p)
        /\ IsBooked(w, L, o, c, kept, t, old, new, R)
  BY <1>1, BookedIs
<1> DEFINE M == R \cup {new}
<1>3. N = Book(w)!Normalized(M, p) BY <1>2
<1>4. M \in SUBSET Book(w)!Records OBVIOUS
<1>5. ASSUME NEW s \in M, s # new, s.addr # 0 PROVE s \in L /\ s # old BY <1>2, <1>5 DEF IsBooked
<1>6. ASSUME NEW r \in L, r.addr # 0
      PROVE \E s \in M : s.addr = r.addr /\ (r.intent # 0 => s.intent = r.intent)
  <2>1. CASE r = old BY <1>2, <1>6, <2>1 DEF IsBooked
  <2>2. CASE r # old BY <1>2, <1>6, <2>2 DEF IsBooked, Superseded
  <2> QED BY <2>1, <2>2
<1>7. t.do \in {"open", "exit"} /\ t.intent \in Nat /\ (t.do = "exit" => t.addr # 0)
      /\ (t.do = "open" => t.intent # 0) /\ (q.do = "open" => t.do = "open" /\ t.intent = q.intent)
  <2>1. b_opened \in Nat BY DEF Chained
  <2> QED BY <2>1 DEF Told, FitsIn
<1>8. ASSUME t.do = "exit"
      PROVE old \in L /\ old.addr = t.addr /\ new.intent = old.intent /\ new.addr # 0
            /\ (t.intent # 0 => old.intent = t.intent)
  <2>1. PICK r \in L : r.addr = t.addr /\ (t.intent # 0 => r.intent = t.intent)
    BY <1>8 DEF FitsIn, Has
  <2>2. old \in L /\ old.addr = t.addr BY <1>2, <1>7, <1>8, <2>1 DEF IsBooked
  <2>3. r = old BY <1>1, <1>7, <1>8, <2>1, <2>2 DEF OneEach
  <2> QED BY <1>2, <1>7, <1>8, <2>1, <2>2, <2>3 DEF IsBooked
<1> HIDE DEF M
<1>9. new \in M BY DEF M
<1>10. OneEach(M)
  <2> SUFFICES ASSUME NEW r \in M, NEW s \in M, r.addr # 0, r.addr = s.addr PROVE r = s BY DEF OneEach
  <2>1. ASSUME NEW v \in M, v # new, v.addr # 0 PROVE v.addr # new.addr
    <3> SUFFICES ASSUME v.addr = new.addr PROVE FALSE OBVIOUS
    <3>1. v \in L /\ v # old /\ v.addr = old.addr BY <1>2, <1>5, <2>1 DEF IsBooked
    <3>2. old \notin L BY <1>1, <2>1, <3>1 DEF OneEach
    <3>3. old.addr = t.addr /\ t.addr # 0 BY <1>2, <2>1, <3>1, <3>2 DEF IsBooked
    <3> QED BY <1>2, <3>1, <3>2, <3>3 DEF IsBooked
  <2> QED BY <1>1, <1>5, <2>1 DEF OneEach
<1>11. Has(M, e)
  <2> SUFFICES ASSUME e.do = "exit"
               PROVE \E s \in M : s.addr = e.addr /\ (e.intent # 0 => s.intent = e.intent)
    BY DEF Has
  <2>1. PICK r \in L : r.addr = e.addr /\ (e.intent # 0 => r.intent = e.intent) BY DEF Sound, Has
  <2>2. r.addr # 0 BY <2>1 DEF Asked
  <2> QED BY <1>6, <2>1, <2>2
<1>12. u => ~Book(w)!Taken(M)
  <2> SUFFICES ASSUME u, NEW s \in M, s.addr = Book(w)!ByHand PROVE s.intent = 0 /\ ~s.fill
    BY DEF Book!Taken
  <2>1. \A r \in L : r.addr = Book(w)!ByHand => r.intent = 0 /\ ~r.fill BY DEF Sound, Book!Taken
  <2>2. Book(w)!ByHand # 0 BY BookConstants
  <2>3. CASE s # new BY <1>5, <2>1, <2>2, <2>3
  <2>4. CASE s = new
    <3>1. old.addr = Book(w)!ByHand BY <1>2, <2>4 DEF IsBooked
    <3>2. CASE t.do = "exit"
      <4>1. old.intent = 0 /\ ~old.fill /\ new.intent = 0 BY <1>8, <2>1, <3>1, <3>2
      <4>2. o.do # "open" BY <3>2 DEF Book!None
      <4> QED BY <1>2, <2>4, <4>1, <4>2 DEF IsBooked
    <3>3. CASE t.do = "open"
      <4>1. t.addr # Book(w)!ByHand BY <3>3 DEF FitsIn
      <4>2. old \in L /\ t.addr = 0 /\ old.intent = t.intent BY <1>2, <2>2, <3>1, <4>1 DEF IsBooked
      <4> QED BY <1>7, <2>1, <3>1, <3>3, <4>2
    <3> QED BY <1>7, <3>2, <3>3
  <2> QED BY <2>3, <2>4
<1>13. ASSUME ~ForeignIn[w]
       PROVE /\ \A r \in L : r # old => r \in M
             /\ \A s \in M : s # new => s \in L /\ s # old
             /\ OwnOnce(w, M, q)
             /\ old \in L => new.intent = old.intent \/ (old.intent = 0 /\ new.intent = new.addr)
  <2>1. OwnOnce(w, L, q) BY <1>13 DEF Sound, Kin
  <2>2. ASSUME NEW r \in L PROVE ~Superseded(r, new)
    <3> SUFFICES ASSUME Superseded(r, new) PROVE FALSE OBVIOUS
    <3>1. r.addr = 0 /\ r.intent = new.intent /\ new.intent # 0 /\ new.addr # 0 /\ new.life = "closed"
      BY DEF Superseded
    <3>2. CASE t.do = "exit"
      <4>1. r = old BY <1>8, <2>1, <3>1, <3>2 DEF OwnOnce
      <4> QED BY <1>7, <1>8, <3>1, <3>2, <4>1
    <3>3. CASE t.do = "open"
      <4>1. t.addr = 0 /\ kept # Book(w)!None BY <1>13, <3>1, <3>3 DEF FitsIn
      <4> QED BY <1>2, <3>1, <3>3, <4>1 DEF IsBooked
    <3> QED BY <1>7, <3>2, <3>3
  <2>3. (\A r \in L : r # old => r \in M) /\ (\A s \in M : s # new => s \in L /\ s # old)
    BY <1>2, <2>2 DEF IsBooked, M
  <2>4. ASSUME t.do = "open", t.addr = 0
        PROVE t = q /\ Unanswered(q) /\ new.life = "open_pending" /\ new.intent = t.intent
              /\ (old \in L => old.intent = t.intent)
    <3>1. t = q /\ kept # Book(w)!None BY <1>13, <2>4 DEF FitsIn
    <3> QED BY <1>2, <1>7, <2>4, <3>1 DEF IsBooked, Unanswered
  <2>5. ASSUME t.do = "open", t.addr # 0
        PROVE t.addr = t.intent /\ new.addr = t.addr /\ new.intent = t.intent /\ old.addr = t.addr
              /\ (old \in L => old.intent \in {0, t.intent}) /\ \A r \in L : r.addr # 0
    <3>1. t.addr = t.intent /\ \A r \in L : r.addr # 0 BY <1>13, <2>5 DEF FitsIn
    <3>2. old.addr = t.addr /\ new.addr = t.addr BY <1>2, <2>5 DEF IsBooked
    <3>3. old \in L => old.intent \in {0, t.intent} BY <2>1, <2>5, <3>1, <3>2 DEF OwnOnce, Own
    <3>4. old \notin L => old.intent = t.intent BY <1>2 DEF IsBooked
    <3> QED BY <1>2, <3>1, <3>2, <3>3, <3>4 DEF IsBooked
  <2>6. Own(w, new, q)
    <3>1. CASE t.do = "exit"
      <4>1. Own(w, old, q) BY <1>8, <2>1, <3>1 DEF OwnOnce
      <4> QED BY <1>2, <1>8, <3>1, <4>1 DEF Own, IsBooked
    <3>2. CASE t.do = "open" /\ t.addr = 0
      <4>1. t = Book(w)!Order("open", t.intent, 0)
        <5>1. AnOrder(w, t) BY <2>4, <3>2 DEF Asked
        <5> QED BY <3>2, <5>1, OrdersShape
      <4>2. ASSUME new.addr # 0 PROVE new.intent = new.addr
        <5>1. old \in L /\ old.intent = t.intent BY <1>2, <2>4, <3>2, <4>2 DEF IsBooked
        <5>2. Own(w, old, q) BY <2>1, <5>1 DEF OwnOnce
        <5> QED BY <1>2, <1>7, <2>4, <3>2, <4>2, <5>1, <5>2 DEF Own, IsBooked
      <4> QED BY <2>4, <3>2, <4>1, <4>2 DEF Own
    <3>3. CASE t.do = "open" /\ t.addr # 0 BY <2>5, <3>3 DEF Own
    <3> QED BY <1>7, <3>1, <3>2, <3>3
  <2>7. ASSUME NEW s \in M, s # new, s.intent # 0, s.intent = new.intent PROVE FALSE
    <3>1. s \in L /\ s # old BY <2>3, <2>7
    <3>2. CASE t.do = "exit" BY <1>8, <2>1, <2>7, <3>1, <3>2 DEF OwnOnce
    <3>3. CASE t.do = "open" /\ t.addr = 0
      <4>1. s.intent = t.intent BY <2>4, <2>7, <3>3
      <4>2. old \in L BY <1>2, <3>1, <3>3, <4>1 DEF IsBooked
      <4> QED BY <2>1, <2>4, <2>7, <3>1, <3>3, <4>1, <4>2 DEF OwnOnce
    <3>4. CASE t.do = "open" /\ t.addr # 0
      <4>1. s.intent = t.intent /\ s.addr # 0 BY <2>5, <2>7, <3>1, <3>4
      <4>2. s.addr = t.addr BY <2>1, <2>5, <2>7, <3>1, <3>4, <4>1 DEF OwnOnce, Own
      <4>3. old \in L BY <1>2, <3>1, <3>4, <4>2 DEF IsBooked
      <4> QED BY <1>1, <2>5, <3>1, <3>4, <4>1, <4>2, <4>3 DEF OneEach
    <3> QED BY <1>7, <3>2, <3>3, <3>4
  <2>8. ASSUME Unanswered(q), NEW s \in M, s.addr = q.intent PROVE s.intent = q.intent
    <3>1. CASE s # new BY <2>1, <2>3, <2>8, <3>1 DEF OwnOnce
    <3>2. CASE s = new
      <4>1. t.do = "open" /\ t.intent = q.intent BY <1>7, <2>8 DEF Unanswered
      <4> QED BY <2>4, <2>5, <3>2, <4>1
    <3> QED BY <3>1, <3>2
  <2>9. \A s \in M : Own(w, s, q) BY <2>1, <2>3, <2>6 DEF OwnOnce
  <2>10. \A r, s \in M : r.intent # 0 /\ r.intent = s.intent => r = s BY <2>1, <2>3, <2>7 DEF OwnOnce
  <2>11. OwnOnce(w, M, q) BY <2>8, <2>9, <2>10 DEF OwnOnce
  <2>12. old \in L => new.intent = old.intent \/ (old.intent = 0 /\ new.intent = new.addr)
    <3>1. CASE t.do = "exit" BY <1>8, <3>1
    <3>2. CASE t.do = "open" BY <2>4, <2>5, <3>2
    <3> QED BY <1>7, <3>1, <3>2
  <2> QED BY <2>3, <2>11, <2>12
<1>14. ASSUME x # 0 PROVE Names(w, M, x)
  <2>1. ~ForeignIn[w] /\ b_chain[x] = "live" BY <1>14 DEF Asked
  <2>2. PICK r \in L : Book(w)!Alive(r) /\ (r.intent = x \/ (r.addr = x /\ r.fill))
    BY <1>14 DEF Sound, Names
  <2>3. CASE r # old BY <1>13, <2>1, <2>2, <2>3 DEF Names
  <2>4. CASE r = old
    <3>1. new.intent = x \/ (new.addr = x /\ new.fill)
      BY <1>2, <1>13, <1>14, <2>1, <2>2, <2>4 DEF IsBooked
    <3>2. new.life # "closed"
      <4> SUFFICES ASSUME new.life = "closed" PROVE FALSE OBVIOUS
      <4>1. old.life # "closed" BY <2>2, <2>4 DEF Book!Alive, Book!Over
      <4>2. t.do = "exit" /\ (c.proven \/ c.already) BY <1>2, <4>1 DEF IsBooked
      <4>3. o = t BY <4>2 DEF Book!None
      <4>4. b_chain[old.addr] = "gone" /\ old.addr # 0 BY <1>7, <1>8, <4>2, <4>3
      <4>5. Own(w, old, q) BY <1>8, <2>1, <4>2 DEF Sound, Kin, OwnOnce
      <4>6. old.addr = x BY <1>14, <2>2, <2>4, <4>4, <4>5 DEF Own
      <4> QED BY <2>1, <4>4, <4>6
    <3>3. Book(w)!Alive(new)
      <4>1. old.life \notin {"closed", "superseded", "failed_terminal"}
        BY <2>2, <2>4 DEF Book!Alive, Book!Over
      <4>2. new.life \in {old.life, "closed", "lp_exit_pending", "open_pending", "open"}
        BY <1>2 DEF IsBooked
      <4> QED BY <3>2, <4>1, <4>2 DEF Book!Alive, Book!Over
    <3> QED BY <1>9, <3>1, <3>3 DEF Names
  <2> QED BY <2>3, <2>4
<1>15. Sound(w, M, q, e, u, x)
  <2>1. Kin(w, M, q) BY <1>4, <1>10, <1>13 DEF Sound, Kin, M
  <2> QED BY <1>11, <1>12, <1>14, <2>1 DEF Sound
<1>16. Sound(w, N, q, e, u, x) BY <1>3, <1>15, NormalizedIsSound
<1>17. ASSUME ~ForeignIn[w], t.do = "open", t.addr # 0
       PROVE /\ \A s \in N : s.addr # 0
             /\ kept = Book(w)!None /\ o = t /\ c.confirmed => Held(w, N, t.intent)
  <2>1. t.addr = t.intent /\ \A r \in L : r.addr # 0 BY <1>17 DEF FitsIn
  <2>2. old.addr = t.addr /\ new.addr = t.addr BY <1>2, <1>17 DEF IsBooked
  <2>3. \A s \in M : s.addr # 0 BY <1>13, <1>17, <2>1, <2>2
  <2>4. \A s \in M : Book(w)!Normal(s, M, p) = s BY <1>4, <2>3, NormalRecord
  <2>5. N = M BY <1>3, <2>4 DEF Book!Normalized
  <2>6. new.intent = t.intent
    <3>1. old \notin L => old.intent = t.intent BY <1>2 DEF IsBooked
    <3>2. old \in L => old.intent \in {0, t.intent}
      BY <1>17, <2>1, <2>2 DEF Sound, Kin, OwnOnce, Own
    <3> QED BY <1>2, <3>1, <3>2 DEF IsBooked
  <2>7. ASSUME kept = Book(w)!None, o = t, c.confirmed PROVE Held(w, N, t.intent)
    <3>1. new.life = "open" BY <1>2, <1>17, <2>7 DEF IsBooked
    <3>2. Book(w)!Alive(new) BY <3>1 DEF Book!Alive, Book!Over
    <3> QED BY <1>9, <1>17, <2>2, <2>5, <2>6, <3>2 DEF Held
  <2> QED BY <2>3, <2>5, <2>7
<1> QED BY <1>16, <1>17

\* The same before the import: an unanswered open is booked with an address that the wallet shows.
BooksOf(w, L, q, kept, t, u) ==
  /\ t.do = "exit" => Has(L, t)
  /\ t.do = "open" => t.intent # 0 /\ (u => t.addr # Book(w)!ByHand)
  /\ ~ForeignIn[w] =>
       /\ t.do = "open" /\ t.addr = 0 => t = q /\ kept # Book(w)!None
       /\ t.do = "open" /\ t.addr # 0 => t.addr = t.intent /\ (Unanswered(q) => t.addr \in b_view)

LEMMA AppliedIsSound ==
  ASSUME NEW w \in Ledgers, Chained(w), b_at # "start", NEW q, NEW e, NEW u, NEW x,
         Asked(w, q, e, u, x), NEW L, Sound(w, L, q, e, u, x), AllFine(w, L, q),
         NEW o, NEW c, Found(c), NEW persisted, NEW before,
         NEW p, p = IF persisted # Book(w)!None THEN persisted ELSE before, Speaks(w, p, q),
         o # Book(w)!None => Told(w, o, q), c.sent => o # Book(w)!None,
         NEW t, t = IF o # Book(w)!None THEN o ELSE p, BooksOf(w, L, q, persisted, t, u),
         c.proven \/ c.already => o.do = "exit" /\ b_chain[o.addr] = "gone",
         NEW N, N = Book(w)!Applied(L, o, c, persisted, before)
  PROVE /\ Sound(w, N, q, e, u, x)
        /\ ~ForeignIn[w] /\ t.do = "open" /\ t.addr # 0 /\ c.sent =>
             /\ \A s \in N : s.addr # 0
             /\ persisted = Book(w)!None /\ o = t /\ c.confirmed => Held(w, N, t.intent)
<1> DEFINE M == Book(w)!Imported(L, p, FALSE)
           idle == ~c.sent /\ p = Book(w)!None /\ o.do # "exit"
<1>1. N = IF idle THEN M ELSE Book(w)!Booked(M, o, c, persisted, p) BY DEF Book!Applied
<1>2. Sound(w, M, q, e, u, x) /\ AllFine(w, M, q) /\ KnowsView(M)
  <2>1. FALSE \in BOOLEAN /\ (FALSE => p = q) OBVIOUS
  <2> HIDE DEF idle, M
  <2>2. Sound(w, Book(w)!Imported(L, p, FALSE), q, e, u, x) BY <2>1, ImportedIsSound
  <2>3. AllFine(w, Book(w)!Imported(L, p, FALSE), q) BY <2>1, ImportedIsSound
  <2>4. KnowsView(Book(w)!Imported(L, p, FALSE)) BY <2>1, ImportedIsSound
  <2> QED BY <2>2, <2>3, <2>4 DEF M
<1> HIDE DEF M
<1>3. CASE idle BY <1>1, <1>2, <1>3
<1>4. CASE ~idle
  <2>1. t # Book(w)!None /\ Told(w, t, q)
    <3>1. CASE o # Book(w)!None BY <3>1
    <3>2. CASE o = Book(w)!None
      <4>1. p # Book(w)!None BY <1>4, <3>2 DEF Book!None
      <4>2. p = q /\ AnOrder(w, q) BY <4>1 DEF Speaks, Asked
      <4> QED BY <3>2, <4>1, <4>2, OrdersAreTold
    <3> QED BY <3>1, <3>2
  <2>2. Has(M, t)
    <3> SUFFICES ASSUME t.do = "exit" PROVE Has(M, t) BY DEF Has
    <3>1. Sound(w, L, q, t, FALSE, 0) BY DEF Sound, BooksOf
    <3>2. Asked(w, q, t, FALSE, 0) BY <2>1 DEF Asked, Told
    <3>3. FALSE \in BOOLEAN /\ (FALSE => p = q) OBVIOUS
    <3>4. Sound(w, M, q, t, FALSE, 0) BY <3>1, <3>2, <3>3, ImportedIsSound DEF M
    <3> QED BY <3>4 DEF Sound
  <2>3. ASSUME ~ForeignIn[w], t.do = "open", t.addr # 0, NEW r \in M, r.addr = 0 PROVE FALSE
    <3>1. OwnOnce(w, M, q) /\ AnOrder(w, q) BY <1>2, <2>3 DEF Sound, Kin, Asked
    <3>2. q.do = "open" /\ q.addr = 0 /\ q.intent = r.intent BY <2>3, <3>1 DEF OwnOnce, Own, Book!Order
    <3>3. t.intent = q.intent /\ t.addr = t.intent /\ t.addr \in b_view
      BY <2>1, <2>3, <3>2 DEF Told, BooksOf, Unanswered
    <3>4. PICK s \in M : s.addr = t.addr BY <1>2, <3>3 DEF KnowsView
    <3>5. s.intent = q.intent BY <3>1, <3>2, <3>3, <3>4 DEF OwnOnce, Unanswered
    <3> QED BY <2>3, <3>1, <3>2, <3>3, <3>4, <3>5 DEF OwnOnce
  <2>4. FitsIn(w, M, q, persisted, t, u)
    <3>1. t.addr = 0 => t.do = "open" BY <2>1 DEF Told
    <3> QED BY <2>2, <2>3, <3>1 DEF FitsIn, BooksOf
  <2>5. N = Book(w)!Booked(M, o, c, persisted, p) BY <1>1, <1>4
  <2> QED BY <1>2, <2>1, <2>4, <2>5, BookedIsSound
<1>5. idle => ~c.sent OBVIOUS
<1> HIDE DEF idle
<1> QED BY <1>3, <1>4, <1>5

-----------------------------------------------------------------------------
(* The steps keep one record for a position.                               *)

\* The order sent last is the pending one or the one of the result, and the ledger knows what an
\* exit is of.
OrdersAgree(w) ==
  /\ b_pending # Book(w)!None => b_order.what = b_pending
  /\ b_result.order.do = "open" =>
       b_result.sent /\ (b_pending = b_result.order \/ (b_result.cleared /\ b_pending = Book(w)!None))
  /\ b_result.cleared =>
       b_result.order.addr # 0 /\ b_order.fate # "flying" /\ b_order.what = b_result.order
  /\ b_order.fate = "none" => b_order.what = Book(w)!None
  /\ Has(b_ledger, b_pending) /\ Has(b_ledger, b_result.order)

\* Without a position opened by hand, what became of an open is what the chain says, and before a
\* landed open is forgotten the ledger has its position.
OpensAgree(w) ==
  /\ b_order.what.do = "open" =>
       /\ b_order.fate = "flying" => b_pending = b_order.what
       /\ b_order.fate = "failed" => b_chain[b_order.what.intent] = "none"
       /\ b_order.fate = "landed" => b_chain[b_order.what.intent] # "none"
  /\ b_at = "recovered" /\ b_pending.do = "open" =>
       b_chain[b_pending.intent] # "none" /\ Held(w, b_ledger, b_pending.intent)
  /\ b_result.cleared /\ b_result.order.do = "open" =>
       /\ b_chain[b_result.order.intent] # "none" => b_result.confirmed
       /\ b_at = "clear" /\ b_result.confirmed => Held(w, b_ledger, b_result.order.intent)

KinInv(w) ==
  /\ BookInv(w) /\ Kin(w, b_ledger, b_pending) /\ OrdersAgree(w)
  /\ ~ForeignIn[w] => OpensAgree(w)

\* Without a position opened by hand the wallet shows the positions of the opens.
LEMMA ViewIsOwn ==
  ASSUME NEW w \in Ledgers, Chained(w), b_chain[Book(w)!ByHand] = "none", NEW a \in b_view
  PROVE a \in Book(w)!Intents /\ Book(w)!Pool(a) = a /\ b_chain[a] # "none"
BY BookConstants DEF Chained, Book!Addresses

\* A record whose life an untrusted recovery rewrites.
LEMMA DistrustedIsSound ==
  ASSUME NEW w \in Ledgers, NEW q, NEW e, NEW u, NEW x, Asked(w, q, e, u, x),
         NEW L, Sound(w, L, q, e, u, x), NEW D \in SUBSET L, ~ForeignIn[w] => \A r \in D : r.addr # 0,
         NEW N, N = {IF r \in D THEN [r EXCEPT !.life = "reconcile_required"] ELSE r : r \in L}
  PROVE /\ Sound(w, N, q, e, u, x)
        /\ \A i : Held(w, L, i) => Held(w, N, i)
<1> DEFINE f == [r \in L |-> IF r \in D THEN [r EXCEPT !.life = "reconcile_required"] ELSE r]
<1>1. ASSUME NEW r \in L
      PROVE /\ f[r] \in Book(w)!Records /\ f[r].addr = r.addr /\ f[r].intent = r.intent
            /\ f[r].fill = r.fill
            /\ ~ForeignIn[w] /\ r.addr = 0 => f[r].life = r.life
            /\ Book(w)!Alive(r) => Book(w)!Alive(f[r])
  <2>1. r \in Book(w)!Records BY DEF Sound, Kin
  <2>2. CASE r \in D
    <3> DEFINE s == [r EXCEPT !.life = "reconcile_required"]
    <3>1. s \in Book(w)!Records /\ s.addr = r.addr /\ s.intent = r.intent /\ s.fill = r.fill
          /\ s.life = "reconcile_required"
      BY <2>1 DEF Book!Records
    <3>2. f[r] = s BY <2>2
    <3> HIDE DEF f, s
    <3> QED BY <2>2, <3>1, <3>2 DEF Book!Alive, Book!Over
  <2>3. CASE r \notin D BY <2>1, <2>3
  <2> QED BY <2>2, <2>3
<1>2. N = {f[r] : r \in L} OBVIOUS
<1> HIDE DEF f
<1>3. Sound(w, {f[r] : r \in L}, q, e, u, x) BY <1>1, RewrittenIsSound
<1>4. ASSUME NEW i, Held(w, L, i) PROVE Held(w, N, i)
  <2>1. PICK r \in L : Book(w)!Alive(r) /\ r.intent = i /\ r.addr # 0 BY <1>4 DEF Held
  <2> QED BY <1>1, <1>2, <2>1 DEF Held
<1> QED BY <1>2, <1>3, <1>4

LEMMA RecoverOpenIsSound ==
  ASSUME NEW w \in Ledgers, KinInv(w), NEW paid \in BOOLEAN, Book(w)!RecoverOpen(paid),
         NEW e, NEW u, NEW x, Asked(w, b_pending, e, u, x), Sound(w, b_ledger, b_pending, e, u, x),
         NEW N, N = b_ledger'
  PROVE /\ Sound(w, N, b_pending, e, u, x)
        /\ ~ForeignIn[w] => b_chain[b_pending.intent] # "none" /\ Held(w, N, b_pending.intent)
<1> DEFINE fits == Book(w)!Fitting(b_pending)
           found == Book(w)!Cardinality(fits) = 1
           addr == IF found THEN CHOOSE a \in fits : TRUE ELSE b_pending.addr
           o == Book(w)!Order("open", b_pending.intent, addr)
           c == [Book(w)!NoResult EXCEPT !.sent = TRUE, !.confirmed = TRUE, !.filled = found /\ paid]
           applied == Book(w)!Applied(b_ledger, o, c, Book(w)!None, b_pending)
           D == {r \in applied : r.intent = b_pending.intent}
           distrusted == {IF r.intent = b_pending.intent
                          THEN [r EXCEPT !.life = "reconcile_required"] ELSE r : r \in applied}
<1>1. /\ b_at = "recover" /\ b_pending.do = "open"
      /\ fits # {} \/ (b_order.fate = "landed" /\ b_pending.addr # 0)
      /\ b_ledger' = IF found /\ paid THEN applied ELSE distrusted
  BY DEF Book!RecoverOpen
<1>2. /\ Chained(w) /\ AnOrder(w, b_pending) /\ AllFine(w, b_ledger, b_pending)
      /\ b_pending # Book(w)!None
  BY <1>1 DEF KinInv, BookInv, Ordered, Book!None
<1>3. Told(w, b_pending, b_pending) BY <1>2, OrdersAreTold
<1>4. b_pending.intent \in Book(w)!Intents /\ b_pending.intent # 0
      /\ (b_pending.addr = 0 \/ b_pending.addr = b_pending.intent)
  <2>1. b_opened \in 0..OpensIn[w] BY <1>2 DEF Chained
  <2> QED BY <1>1, <1>2, <2>1, OrdersShape, OrdersName, BookConstants
<1>5. \A a \in fits : a \in b_view /\ IF b_pending.addr # 0 THEN a = b_pending.addr
                                      ELSE Book(w)!Pool(a) = b_pending.intent
  BY DEF Book!Fitting
<1>6. (found => addr \in fits) /\ (~found => addr = b_pending.addr)
  <2> HIDE DEF fits
  <2>1. Book(w)!Cardinality(fits) = Cardinality(fits) BY DEF Cardinality, Book!Cardinality
  <2>2. ASSUME found PROVE fits # {}
    <3> HIDE DEF o, c, applied, D, distrusted, addr
    <3>1. Cardinality({}) = 0 BY FS_EmptySet
    <3>2. Cardinality(fits) = 1 BY <2>1, <2>2
    <3> HIDE DEF found
    <3> QED BY <3>1, <3>2
  <2>3. ASSUME found PROVE addr \in fits BY <2>2, <2>3
  <2>4. ASSUME ~found PROVE addr = b_pending.addr BY <2>4
  <2> HIDE DEF addr, found
  <2> QED BY <2>3, <2>4
<1>7. fits = {b_pending.intent} => found
  <2> DEFINE S == {b_pending.intent}
  <2>1. Cardinality(S) = 1 BY FS_Singleton
  <2>2. Book(w)!Cardinality(S) = Cardinality(S) BY DEF Cardinality, Book!Cardinality
  <2> HIDE DEF fits
  <2> QED BY <2>1, <2>2
<1> HIDE DEF fits, addr, found
<1>8. addr = b_pending.addr \/ (b_pending.addr = 0 /\ addr \in b_view
                               /\ Book(w)!Pool(addr) = b_pending.intent)
  BY <1>5, <1>6
<1>9. o.do = "open" /\ o.intent = b_pending.intent /\ o.addr = addr /\ o # Book(w)!None
  BY DEF Book!Order, Book!None
<1>10. Told(w, o, b_pending)
  <2>1. addr \in b_view => addr \in 1..Book(w)!ByHand /\ (addr \in Book(w)!Intents => addr <= b_opened)
    BY <1>2, ViewIsTrue, BookConstants
  <2>2. Book(w)!ByHand \in Nat BY BookConstants
  <2> QED BY <1>1, <1>3, <1>8, <1>9, <2>1, <2>2 DEF Told
<1>11. Found(c) /\ c.sent /\ c.confirmed /\ ~c.proven /\ ~c.already BY DEF Book!NoResult, Found
<1>12. ASSUME ~ForeignIn[w]
       PROVE /\ addr = b_pending.intent /\ (Unanswered(b_pending) => addr \in b_view)
             /\ b_chain[b_pending.intent] # "none"
  <2>1. b_chain[Book(w)!ByHand] = "none" BY <1>12 DEF KinInv, Kin
  <2>2. \A a \in fits : a = b_pending.intent /\ a \in b_view /\ b_chain[a] # "none"
    BY <1>2, <1>4, <1>5, <2>1, ViewIsOwn
  <2>3. CASE fits # {}
    <3>1. fits = {b_pending.intent} BY <2>2, <2>3
    <3> QED BY <1>6, <1>7, <2>2, <3>1
  <2>4. CASE fits = {}
    <3>1. b_order.fate = "landed" /\ b_pending.addr # 0 BY <1>1, <2>4
    <3>2. b_order.what = b_pending BY <1>2 DEF KinInv, OrdersAgree
    <3>3. b_chain[b_pending.intent] # "none" BY <1>1, <1>12, <3>1, <3>2 DEF KinInv, OpensAgree
    <3> QED BY <1>4, <1>6, <2>4, <3>1, <3>3 DEF Unanswered
  <2> QED BY <2>3, <2>4
<1> HIDE DEF o, c
<1>13. BooksOf(w, b_ledger, b_pending, Book(w)!None, o, u)
  <2>1. u => addr # Book(w)!ByHand
    <3>1. u => b_pending.addr # 0 BY <1>1 DEF Asked, Unanswered
    <3>2. Book(w)!ByHand \notin Book(w)!Intents BY BookConstants
    <3> QED BY <1>4, <1>8, <3>1, <3>2
  <2> QED BY <1>4, <1>9, <1>12, <2>1 DEF BooksOf
<1>14. /\ Sound(w, applied, b_pending, e, u, x)
       /\ ~ForeignIn[w] => Held(w, applied, b_pending.intent) /\ \A s \in applied : s.addr # 0
  <2>1. b_pending = IF Book(w)!None # Book(w)!None THEN Book(w)!None ELSE b_pending OBVIOUS
  <2>2. Speaks(w, b_pending, b_pending) BY DEF Speaks
  <2>3. o = IF o # Book(w)!None THEN o ELSE b_pending BY <1>9
  <2> HIDE DEF applied
  <2>4. applied = Book(w)!Applied(b_ledger, o, c, Book(w)!None, b_pending) BY DEF applied
  <2>5. b_at # "start" BY <1>1
  <2>6. /\ Sound(w, applied, b_pending, e, u, x)
        /\ ~ForeignIn[w] /\ o.do = "open" /\ o.addr # 0 /\ c.sent =>
             /\ \A s \in applied : s.addr # 0
             /\ Book(w)!None = Book(w)!None /\ o = o /\ c.confirmed => Held(w, applied, o.intent)
    BY <1>2, <1>9, <1>10, <1>11, <1>13, <2>1, <2>2, <2>3, <2>4, <2>5, AppliedIsSound
  <2> QED BY <1>4, <1>9, <1>11, <1>12, <2>6
<1> HIDE DEF applied
<1>15. /\ Sound(w, distrusted, b_pending, e, u, x)
       /\ ~ForeignIn[w] => Held(w, distrusted, b_pending.intent)
  <2>1. distrusted = {IF r \in D THEN [r EXCEPT !.life = "reconcile_required"] ELSE r : r \in applied}
    OBVIOUS
  <2>2. D \in SUBSET applied OBVIOUS
  <2> HIDE DEF D, distrusted
  <2>3. ~ForeignIn[w] => \A r \in D : r.addr # 0 BY <1>14, <2>2
  <2> QED BY <1>14, <2>1, <2>2, <2>3, DistrustedIsSound
<1> HIDE DEF distrusted
<1> QED BY <1>1, <1>12, <1>14, <1>15

LEMMA RecoverExitIsSound ==
  ASSUME NEW w \in Ledgers, KinInv(w), NEW trusted \in BOOLEAN, Book(w)!RecoverExit(trusted),
         NEW e, NEW u, NEW x, Asked(w, b_pending, e, u, x), Sound(w, b_ledger, b_pending, e, u, x),
         NEW N, N = b_ledger'
  PROVE Sound(w, N, b_pending, e, u, x)
<1> DEFINE c == [Book(w)!NoResult EXCEPT !.sent = TRUE, !.confirmed = TRUE, !.proven = trusted]
           applied == Book(w)!Applied(b_ledger, b_pending, c, Book(w)!None, b_pending)
           D == Book(w)!Targeted(applied, b_pending)
           distrusted ==
             {IF r \in D THEN [r EXCEPT !.life = "reconcile_required"] ELSE r : r \in applied}
<1>1. /\ b_at = "recover" /\ b_pending.do = "exit" /\ b_pending.addr \notin b_view
      /\ b_ledger' = IF trusted THEN applied ELSE distrusted
  BY DEF Book!RecoverExit
<1>2. /\ Chained(w) /\ AnOrder(w, b_pending) /\ AllFine(w, b_ledger, b_pending)
      /\ b_pending # Book(w)!None /\ Has(b_ledger, b_pending)
  BY <1>1 DEF KinInv, BookInv, Ordered, OrdersAgree, Book!None
<1>3. Told(w, b_pending, b_pending) BY <1>2, OrdersAreTold
<1>4. b_pending.addr # 0 /\ b_chain[b_pending.addr] = "gone"
  <2>1. b_pending.addr # 0 /\ b_shown[b_pending.addr] # "none" /\ b_pending.addr \in 0..Book(w)!ByHand
    BY <1>1, <1>3 DEF Told
  <2>2. b_pending.addr \in Book(w)!Addresses BY <2>1, BookConstants
  <2> QED BY <1>1, <1>2, <2>1, <2>2, ViewIsTrue
<1>5. Found(c) /\ c.sent /\ ~c.already BY DEF Book!NoResult, Found
<1> HIDE DEF c
<1>6. BooksOf(w, b_ledger, b_pending, Book(w)!None, b_pending, u) BY <1>1, <1>2 DEF BooksOf
<1>7. Sound(w, applied, b_pending, e, u, x)
  <2>1. b_pending = IF Book(w)!None # Book(w)!None THEN Book(w)!None ELSE b_pending OBVIOUS
  <2>2. b_pending = IF b_pending # Book(w)!None THEN b_pending ELSE b_pending OBVIOUS
  <2>3. Speaks(w, b_pending, b_pending) BY DEF Speaks
  <2> HIDE DEF applied
  <2>4. applied = Book(w)!Applied(b_ledger, b_pending, c, Book(w)!None, b_pending) BY DEF applied
  <2>5. b_at # "start" BY <1>1
  <2> QED
    BY <1>1, <1>2, <1>3, <1>4, <1>5, <1>6, <2>1, <2>2, <2>3, <2>4, <2>5, AppliedIsSound
<1> HIDE DEF applied
<1>8. D \in SUBSET applied /\ \A r \in D : r.addr # 0 BY <1>4 DEF Book!Targeted
<1> HIDE DEF D
<1>9. Sound(w, distrusted, b_pending, e, u, x)
  <2>1. distrusted = {IF r \in D THEN [r EXCEPT !.life = "reconcile_required"] ELSE r : r \in applied}
    OBVIOUS
  <2> HIDE DEF distrusted
  <2> QED BY <1>7, <1>8, <2>1, DistrustedIsSound
<1> HIDE DEF distrusted
<1> QED BY <1>1, <1>7, <1>9

LEMMA ImportIsSound ==
  ASSUME NEW w \in Ledgers, KinInv(w), Book(w)!Import,
         NEW e, NEW u, NEW x, Asked(w, b_pending, e, u, x), Sound(w, b_ledger, b_pending, e, u, x),
         NEW N, N = b_ledger'
  PROVE Sound(w, N, b_pending, e, u, x)
<1> DEFINE first == Book(w)!Imported(b_ledger, b_pending, FALSE)
           L == Book(w)!Imported(first, b_pending, TRUE)
<1>1. b_at = "import" /\ b_ledger' = L BY DEF Book!Import
<1>2. Chained(w) /\ AllFine(w, b_ledger, b_pending) BY DEF KinInv, BookInv
<1>3. Speaks(w, b_pending, b_pending) BY DEF Speaks
<1>4. b_at # "start" /\ FALSE \in BOOLEAN /\ TRUE \in BOOLEAN /\ b_pending = b_pending BY <1>1
<1>5. Sound(w, first, b_pending, e, u, x) BY <1>2, <1>3, <1>4, ImportedIsSound
<1>6. AllFine(w, first, b_pending) BY <1>2, <1>3, <1>4, ImportedIsSound
<1> HIDE DEF first
<1>7. Sound(w, L, b_pending, e, u, x) BY <1>2, <1>3, <1>4, <1>5, <1>6, ImportedIsSound
<1> HIDE DEF L
<1> QED BY <1>1, <1>7

LEMMA PersistIsSound ==
  ASSUME NEW w \in Ledgers, KinInv(w), Book(w)!Persist,
         NEW e, NEW u, NEW x, Asked(w, b_pending, e, u, x), Sound(w, b_ledger, b_pending, e, u, x),
         NEW N, N = b_ledger'
  PROVE /\ Sound(w, N, b_pending, e, u, x)
        /\ ~ForeignIn[w] /\ b_result.order.do = "open" /\ b_result.cleared /\ b_result.confirmed =>
             Held(w, N, b_result.order.intent)
<1> DEFINE kept == Book(w)!Kept
           before == IF b_result.sent THEN Book(w)!None ELSE b_pending
           p == IF kept # Book(w)!None THEN kept ELSE before
           o == b_result.order
           t == IF o # Book(w)!None THEN o ELSE p
           L == Book(w)!Applied(b_ledger, o, b_result, kept, before)
<1>1. b_at = "persist" /\ b_ledger' = L BY DEF Book!Persist
<1>2. /\ Chained(w) /\ AnOrder(w, b_pending) /\ AnOrder(w, o) /\ AllFine(w, b_ledger, b_pending)
      /\ (b_pending.do = "open" => o \in {Book(w)!None, b_pending})
      /\ (b_result.proven \/ b_result.already => o.do = "exit" /\ b_chain[o.addr] = "gone")
      /\ (b_result.sent => o # Book(w)!None) /\ (b_result.cleared => o # Book(w)!None)
  BY DEF KinInv, BookInv, Ordered
<1>3. /\ (o.do = "open" => /\ b_result.sent
                           /\ b_pending = o \/ (b_result.cleared /\ b_pending = Book(w)!None))
      /\ (b_result.cleared => o.addr # 0)
      /\ Has(b_ledger, b_pending) /\ Has(b_ledger, o)
  BY DEF KinInv, OrdersAgree
<1>4. Found(b_result) BY DEF KinInv, BookInv, Ordered, Results, Found
<1>5. kept = IF b_result.cleared THEN Book(w)!None ELSE b_pending BY DEF Book!Kept
<1>6. Book(w)!None.do = "none" /\ Book(w)!None.addr = 0 BY DEF Book!None
<1> HIDE DEF kept, o
<1>7. p \in {Book(w)!None, b_pending} BY <1>5
<1>8. Unanswered(b_pending) => p = b_pending /\ kept = b_pending /\ kept # Book(w)!None
  BY <1>2, <1>3, <1>5, <1>6 DEF Unanswered
<1>9. o # Book(w)!None => Told(w, o, b_pending) BY <1>2, OrdersAreTold
<1>10. ~b_result.cleared => kept = b_pending BY <1>5
<1>11. BooksOf(w, b_ledger, b_pending, kept, t, u)
  <2>1. t = o \/ t \in {Book(w)!None, b_pending} BY <1>7
  <2>2. AnOrder(w, t) /\ (t.do = "exit" => Has(b_ledger, t))
    BY <1>2, <1>3, <1>6, <2>1 DEF AnOrder, Has
  <2>3. b_opened \in 0..OpensIn[w] BY <1>2 DEF Chained
  <2>4. ASSUME t.do = "open" PROVE t.intent \in Book(w)!Intents /\ t.intent # 0
                                    /\ (t.addr = 0 \/ t.addr = t.intent)
    BY <2>2, <2>3, <2>4, OrdersName, OrdersShape, BookConstants
  <2>5. Book(w)!ByHand \notin Book(w)!Intents /\ Book(w)!ByHand # 0 BY BookConstants
  <2>6. ASSUME t.do = "open", t.addr = 0 PROVE t = b_pending /\ kept # Book(w)!None
    <3>1. t = b_pending
      <4>1. CASE o # Book(w)!None BY <1>3, <2>6, <4>1
      <4>2. CASE o = Book(w)!None BY <1>6, <1>7, <2>6, <4>2
      <4> QED BY <4>1, <4>2
    <3>2. Unanswered(b_pending) BY <2>6, <3>1 DEF Unanswered
    <3> QED BY <1>8, <3>1, <3>2
  <2>7. ASSUME t.do = "open", t.addr # 0 PROVE ~Unanswered(b_pending)
    <3> SUFFICES ASSUME Unanswered(b_pending) PROVE FALSE OBVIOUS
    <3>1. t = b_pending BY <1>2, <1>7, <1>8 DEF Unanswered
    <3> QED BY <2>7, <3>1 DEF Unanswered
  <2> HIDE DEF t
  <2> QED BY <2>2, <2>4, <2>5, <2>6, <2>7 DEF BooksOf
<1>12. /\ Sound(w, L, b_pending, e, u, x)
       /\ /\ ~ForeignIn[w] /\ t.do = "open" /\ t.addr # 0 /\ b_result.sent
          /\ kept = Book(w)!None /\ o = t /\ b_result.confirmed
          => Held(w, L, t.intent)
  <2>1. p = IF kept # Book(w)!None THEN kept ELSE before OBVIOUS
  <2>2. t = IF o # Book(w)!None THEN o ELSE p OBVIOUS
  <2>3. Speaks(w, p, b_pending) BY <1>7, <1>8 DEF Speaks
  <2>4. L = Book(w)!Applied(b_ledger, o, b_result, kept, before) OBVIOUS
  <2>5. b_at # "start" BY <1>1
  <2> HIDE DEF p, t, L, before
  <2> QED
    BY <1>2, <1>4, <1>9, <1>11, <2>1, <2>2, <2>3, <2>4, <2>5, AppliedIsSound
<1>13. ASSUME o.do = "open", b_result.cleared
       PROVE t = o /\ t.addr # 0 /\ b_result.sent /\ kept = Book(w)!None
  BY <1>2, <1>3, <1>5, <1>13
<1> HIDE DEF L, t
<1> QED BY <1>1, <1>12, <1>13 DEF o

LEMMA TimePassesIsSound ==
  ASSUME NEW w \in Ledgers, KinInv(w), Book(w)!TimePasses,
         NEW e, NEW u, NEW x, Asked(w, b_pending, e, u, x), Sound(w, b_ledger, b_pending, e, u, x),
         NEW N, N = b_ledger'
  PROVE Sound(w, N, b_pending, e, u, x)
<1> DEFINE f == [r \in b_ledger |-> [r EXCEPT !.young = FALSE]]
<1>1. N = {f[r] : r \in b_ledger} BY DEF Book!TimePasses
<1>2. ASSUME NEW r \in b_ledger
      PROVE /\ f[r] \in Book(w)!Records /\ f[r].addr = r.addr /\ f[r].intent = r.intent
            /\ f[r].fill = r.fill /\ f[r].life = r.life
            /\ Book(w)!Alive(r) => Book(w)!Alive(f[r])
  <2>1. r \in Book(w)!Records BY DEF Sound, Kin
  <2> DEFINE s == [r EXCEPT !.young = FALSE]
  <2>2. f[r] = s OBVIOUS
  <2>3. s \in Book(w)!Records /\ s.addr = r.addr /\ s.intent = r.intent /\ s.fill = r.fill
        /\ s.life = r.life
    BY <2>1 DEF Book!Records
  <2> HIDE DEF f, s
  <2> QED BY <2>2, <2>3 DEF Book!Alive, Book!Over
<1> HIDE DEF f
<1>3. Sound(w, {f[r] : r \in b_ledger}, b_pending, e, u, x) BY <1>2, RewrittenIsSound
<1> QED BY <1>1, <1>3

\* A step that writes the ledger: a recovery, an import, the end of a tick, or time.
Writes(w) ==
  \/ \E paid \in BOOLEAN : Book(w)!RecoverOpen(paid)
  \/ \E trusted \in BOOLEAN : Book(w)!RecoverExit(trusted)
  \/ Book(w)!Import \/ Book(w)!Persist \/ Book(w)!TimePasses

LEMMA WrittenIsSound ==
  ASSUME NEW w \in Ledgers, KinInv(w), Writes(w),
         NEW e, NEW u, NEW x, Asked(w, b_pending, e, u, x), Sound(w, b_ledger, b_pending, e, u, x),
         NEW N, N = b_ledger'
  PROVE Sound(w, N, b_pending, e, u, x)
BY RecoverOpenIsSound, RecoverExitIsSound, ImportIsSound, PersistIsSound, TimePassesIsSound DEF Writes

LEMMA WritesLeave ==
  ASSUME NEW w \in Ledgers, Writes(w)
  PROVE /\ UNCHANGED <<b_chain, b_pending, b_order, b_result>> /\ b_crashes' = b_crashes
        /\ b_at' = "recovered" =>
             (\E paid \in BOOLEAN : Book(w)!RecoverOpen(paid)) \/ b_pending.do = "exit"
        /\ b_at' = "clear" => Book(w)!Persist
BY DEF Writes, Book!RecoverOpen, Book!RecoverExit, Book!Import, Book!Persist, Book!TimePasses

\* What the ledger is asked for as it is.
LEMMA AskedAsItIs ==
  ASSUME NEW w \in Ledgers, KinInv(w)
  PROVE \A e \in {b_pending, b_result.order} :
          Asked(w, b_pending, e, FALSE, 0) /\ Sound(w, b_ledger, b_pending, e, FALSE, 0)
<1>1. AnOrder(w, b_pending) /\ AnOrder(w, b_result.order) BY DEF KinInv, BookInv, Ordered
<1>2. ASSUME NEW e \in {b_pending, b_result.order} PROVE e.do = "exit" => e.addr # 0
  <2>1. e.do = "exit" => e.addr \in Book(w)!Addresses BY <1>1, OrdersName
  <2> QED BY <2>1, BookConstants
<1>3. Kin(w, b_ledger, b_pending) /\ Has(b_ledger, b_pending) /\ Has(b_ledger, b_result.order)
  BY DEF KinInv, OrdersAgree
<1> QED BY <1>1, <1>2, <1>3 DEF Asked, Sound

LEMMA WritesKeepKin ==
  ASSUME NEW w \in Ledgers, KinInv(w), BookInv(w)', Writes(w) PROVE KinInv(w)'
<1> DEFINE N == b_ledger'
<1>1. UNCHANGED <<b_chain, b_pending, b_order, b_result>> BY WritesLeave
<1>2. Sound(w, N, b_pending, b_pending, FALSE, 0) /\ Sound(w, N, b_pending, b_result.order, FALSE, 0)
  <2> HIDE DEF N
  <2>1. N = b_ledger' BY DEF N
  <2>2. Asked(w, b_pending, b_pending, FALSE, 0) /\ Sound(w, b_ledger, b_pending, b_pending, FALSE, 0)
    BY AskedAsItIs
  <2>3. Asked(w, b_pending, b_result.order, FALSE, 0)
        /\ Sound(w, b_ledger, b_pending, b_result.order, FALSE, 0)
    BY AskedAsItIs
  <2> QED BY <2>1, <2>2, <2>3, WrittenIsSound
<1>3. Kin(w, b_ledger, b_pending)'
  <2>1. Kin(w, N, b_pending) BY <1>2 DEF Sound
  <2> QED BY <1>1, <2>1 DEF Kin, OwnOnce, Own, Unanswered
<1>4. OrdersAgree(w)' BY <1>1, <1>2 DEF KinInv, OrdersAgree, Sound
<1>5. ASSUME ~ForeignIn[w] PROVE OpensAgree(w)'
  <2>1. OpensAgree(w) BY <1>5 DEF KinInv
  <2>2. b_at' = "recovered" /\ b_pending.do = "open" =>
          b_chain[b_pending.intent] # "none" /\ Held(w, N, b_pending.intent)
    <3> SUFFICES ASSUME b_at' = "recovered", b_pending.do = "open"
                 PROVE b_chain[b_pending.intent] # "none" /\ Held(w, N, b_pending.intent)
      OBVIOUS
    <3>1. PICK paid \in BOOLEAN : Book(w)!RecoverOpen(paid) BY WritesLeave
    <3> HIDE DEF N
    <3>2. Asked(w, b_pending, b_pending, FALSE, 0) /\ Sound(w, b_ledger, b_pending, b_pending, FALSE, 0)
      BY AskedAsItIs
    <3> QED BY <1>5, <3>1, <3>2, RecoverOpenIsSound DEF N
  <2>3. b_at' = "clear" /\ b_result.order.do = "open" /\ b_result.cleared /\ b_result.confirmed =>
          Held(w, N, b_result.order.intent)
    <3> SUFFICES ASSUME b_at' = "clear", b_result.order.do = "open", b_result.cleared, b_result.confirmed
                 PROVE Held(w, N, b_result.order.intent)
      OBVIOUS
    <3>1. Book(w)!Persist BY WritesLeave
    <3> HIDE DEF N
    <3>2. Asked(w, b_pending, b_pending, FALSE, 0) /\ Sound(w, b_ledger, b_pending, b_pending, FALSE, 0)
      BY AskedAsItIs
    <3> QED BY <1>5, <3>1, <3>2, PersistIsSound DEF N
  <2> QED BY <1>1, <2>1, <2>2, <2>3 DEF OpensAgree, Held
<1> QED BY <1>3, <1>4, <1>5 DEF KinInv

\* An order that is answered leaves no record without an address.
LEMMA AnsweredIsAddressed ==
  ASSUME NEW w, NEW L, NEW q, OwnOnce(w, L, q), ~Unanswered(q), NEW r \in L PROVE r.addr # 0
<1> SUFFICES ASSUME r.addr = 0 PROVE FALSE OBVIOUS
<1>1. q = Book(w)!Order("open", r.intent, 0) BY DEF OwnOnce, Own
<1> QED BY <1>1 DEF Unanswered, Book!Order

\* Another order is pending, and every record has an address.
LEMMA StillKin ==
  ASSUME NEW w \in Ledgers, Kin(w, b_ledger, b_pending), b_ledger' = b_ledger, NEW q, b_pending' = q,
         ~ForeignIn[w] => /\ b_chain'[Book(w)!ByHand] = "none"
                          /\ q = b_pending \/ \A r \in b_ledger : r.addr # 0
                          /\ q = b_pending \/ ~Unanswered(q) \/ \A r \in b_ledger : r.addr # q.intent
  PROVE Kin(w, b_ledger, b_pending)'
BY DEF Kin, OwnOnce, Own

LEMMA ChainKeepsKin ==
  ASSUME NEW w \in Ledgers, KinInv(w), BookInv(w)', UNCHANGED <<b_ledger, b_pending, b_at, b_result>>,
         b_order'.what = b_order.what,
         b_order'.fate # b_order.fate =>
           b_order.fate = "flying" /\ b_order'.fate \in {"landed", "failed"},
         ~ForeignIn[w] =>
           /\ b_chain'[Book(w)!ByHand] = "none"
           /\ \A a \in Book(w)!Intents :
                /\ b_chain[a] # "none" => b_chain'[a] # "none"
                /\ b_chain[a] = "none" /\ b_chain'[a] # "none" =>
                     b_order.fate = "flying" /\ b_order'.fate = "landed"
           /\ b_order.what.do = "open" /\ b_order'.fate = "landed" =>
                b_chain'[b_order.what.intent] # "none"
  PROVE KinInv(w)'
<1>1. Kin(w, b_ledger, b_pending)' BY StillKin DEF KinInv
<1>2. OrdersAgree(w)' BY DEF KinInv, OrdersAgree
<1>3. ASSUME ~ForeignIn[w] PROVE OpensAgree(w)'
  <2>1. OpensAgree(w) /\ OrdersAgree(w) /\ BookInv(w) BY <1>3 DEF KinInv
  <2>2. /\ b_order.what.do = "open" => b_order.what.intent \in Book(w)!Intents
        /\ b_pending.do = "open" => b_pending.intent \in Book(w)!Intents
        /\ b_result.order.do = "open" => b_result.order.intent \in Book(w)!Intents
    <3>1. AnOrder(w, b_order.what) /\ AnOrder(w, b_pending) /\ AnOrder(w, b_result.order)
          /\ b_opened \in 0..OpensIn[w]
      BY <2>1 DEF BookInv, Ordered, Chained
    <3>2. \A i \in 1..b_opened : i \in Book(w)!Intents BY <3>1, BookConstants
    <3> QED BY <3>1, <3>2, OrdersName
  <2>3. b_order.what.do = "open" /\ b_order.fate = "flying" => b_chain[b_order.what.intent] = "none"
    BY <2>1 DEF BookInv, Flies
  <2>4. /\ b_order'.fate = "flying" => b_order.fate = "flying"
        /\ b_order'.fate = "failed" => b_order.fate \in {"failed", "flying"}
    OBVIOUS
  <2>5. b_order.what.do = "open" =>
          /\ b_order'.fate = "flying" => b_pending = b_order.what
          /\ b_order'.fate = "failed" => b_chain'[b_order.what.intent] = "none"
          /\ b_order'.fate = "landed" => b_chain'[b_order.what.intent] # "none"
    BY <1>3, <2>1, <2>2, <2>3, <2>4 DEF OpensAgree
  <2>6. b_at = "recovered" /\ b_pending.do = "open" =>
          b_chain'[b_pending.intent] # "none" /\ Held(w, b_ledger, b_pending.intent)
    BY <1>3, <2>1, <2>2 DEF OpensAgree
  <2>7. b_result.cleared /\ b_result.order.do = "open" =>
          /\ b_chain'[b_result.order.intent] # "none" => b_result.confirmed
          /\ b_at = "clear" /\ b_result.confirmed => Held(w, b_ledger, b_result.order.intent)
    BY <1>3, <2>1, <2>2 DEF OpensAgree, OrdersAgree
  <2> QED BY <2>5, <2>6, <2>7 DEF OpensAgree, Held
<1> QED BY <1>1, <1>2, <1>3 DEF KinInv

\* What a step that writes no file leaves as it is.
LEMMA MovesKeepKin ==
  ASSUME NEW w \in Ledgers, KinInv(w), BookInv(w)',
         UNCHANGED <<b_chain, b_ledger, b_pending, b_order, b_result>>,
         b_at' = b_at \/ b_at' \notin {"recovered", "clear"}
  PROVE KinInv(w)'
<1>1. Kin(w, b_ledger, b_pending)' BY StillKin DEF KinInv, Kin
<1>2. OrdersAgree(w)' BY DEF KinInv, OrdersAgree
<1>3. ~ForeignIn[w] => OpensAgree(w)' BY DEF KinInv, OpensAgree, Held
<1> QED BY <1>1, <1>2, <1>3 DEF KinInv

\* The pending order is dropped, or a tick starts over with the files.
LEMMA DropsKeepKin ==
  ASSUME NEW w \in Ledgers, KinInv(w), BookInv(w)', UNCHANGED <<b_chain, b_ledger>>,
         b_pending' \in {b_pending, Book(w)!None}, b_result' = Book(w)!NoResult,
         b_at' \notin {"recovered", "clear"},
         b_order' = b_order \/ (b_order' = Book(w)!NoOrder /\ b_pending' = Book(w)!None),
         ~ForeignIn[w] /\ b_pending' # b_pending =>
           (\A r \in b_ledger : r.addr # 0) /\ ~(b_order.fate = "flying" /\ b_order.what.do = "open")
  PROVE KinInv(w)'
<1>1. ~Unanswered(Book(w)!None) /\ Book(w)!None.do = "none" BY DEF Unanswered, Book!None
<1>2. Kin(w, b_ledger, b_pending)'
  <2>1. Kin(w, b_ledger, b_pending) BY DEF KinInv
  <2> QED BY <1>1, <2>1, StillKin DEF Kin
<1>3. b_result'.order = Book(w)!None /\ ~b_result'.cleared BY DEF Book!NoResult
<1>4. b_order' = Book(w)!NoOrder => b_order'.what = Book(w)!None /\ b_order'.fate = "none"
  BY DEF Book!NoOrder
<1>5. OrdersAgree(w)' BY <1>1, <1>3, <1>4 DEF KinInv, OrdersAgree, Has
<1>6. ~ForeignIn[w] => OpensAgree(w)' BY <1>1, <1>3, <1>4 DEF KinInv, OpensAgree
<1> QED BY <1>2, <1>5, <1>6 DEF KinInv

LEMMA RecoverFailedKeepsKin ==
  ASSUME NEW w \in Ledgers, KinInv(w), BookInv(w)', Book(w)!RecoverFailed PROVE KinInv(w)'
<1>1. /\ b_at = "recover" /\ b_at' = "import" /\ b_pending.addr # 0 /\ b_order.fate = "failed"
      /\ b_pending' = Book(w)!None /\ UNCHANGED <<b_chain, b_ledger, b_order, b_result>>
  BY DEF Book!RecoverFailed
<1>2. b_result' = Book(w)!NoResult BY <1>1 DEF KinInv, BookInv, Ordered
<1>3. ~Unanswered(b_pending) BY <1>1 DEF Unanswered
<1>4. ~ForeignIn[w] => \A r \in b_ledger : r.addr # 0
  BY <1>3, AnsweredIsAddressed DEF KinInv, Kin
<1> QED BY <1>1, <1>2, <1>4, DropsKeepKin

\* The ledger has the position of a recovered open when the pending file goes.
LEMMA ClearRecoveredKeepsKin ==
  ASSUME NEW w \in Ledgers, KinInv(w), BookInv(w)', Book(w)!ClearRecovered PROVE KinInv(w)'
<1>1. /\ b_at = "recovered" /\ b_at' = "import"
      /\ b_pending' = Book(w)!None /\ UNCHANGED <<b_chain, b_ledger, b_order, b_result>>
  BY DEF Book!ClearRecovered
<1>2. b_result' = Book(w)!NoResult BY <1>1 DEF KinInv, BookInv, Ordered
<1>3. ASSUME ~ForeignIn[w]
      PROVE (\A r \in b_ledger : r.addr # 0) /\ ~(b_order.fate = "flying" /\ b_order.what.do = "open")
  <2>1. OwnOnce(w, b_ledger, b_pending) /\ OpensAgree(w) /\ BookInv(w) BY <1>3 DEF KinInv, Kin
  <2>2. b_pending.do = "open" =>
          b_chain[b_pending.intent] # "none" /\ Held(w, b_ledger, b_pending.intent)
    BY <1>1, <2>1 DEF OpensAgree
  <2>3. ~(b_order.fate = "flying" /\ b_order.what.do = "open")
    BY <2>1, <2>2 DEF OpensAgree, BookInv, Flies
  <2>4. ASSUME NEW r \in b_ledger, r.addr = 0 PROVE FALSE
    <3>1. Unanswered(b_pending) BY <2>1, <2>4, AnsweredIsAddressed
    <3>2. b_pending = Book(w)!Order("open", r.intent, 0) BY <2>1, <2>4 DEF OwnOnce, Own
    <3>3. b_pending.do = "open" /\ b_pending.intent = r.intent BY <3>2 DEF Book!Order
    <3>4. PICK s \in b_ledger : s.intent = b_pending.intent /\ s.addr # 0 BY <2>2, <3>3 DEF Held
    <3>5. AnOrder(w, b_pending) /\ b_opened \in Nat
      BY <2>1, BookConstants DEF BookInv, Ordered, Chained
    <3>6. b_pending.intent # 0 BY <3>3, <3>5, OrdersName
    <3> QED BY <2>1, <2>4, <3>3, <3>4, <3>6 DEF OwnOnce
  <2> QED BY <2>3, <2>4
<1> QED BY <1>1, <1>2, <1>3, DropsKeepKin

LEMMA ReadAccountKeepsKin ==
  ASSUME NEW w \in Ledgers, KinInv(w), BookInv(w)', NEW news, Book(w)!ReadAccount(news)
  PROVE KinInv(w)'
BY DropsKeepKin DEF Book!ReadAccount

\* Only an answered order is settled in the tick that sent it.
LEMMA SettledIsAnswered ==
  ASSUME NEW w \in Ledgers, KinInv(w), b_result.cleared
  PROVE ~Unanswered(b_pending) /\ b_order.fate # "flying"
<1>1. b_result.order.addr # 0 /\ b_order.fate # "flying" BY DEF KinInv, OrdersAgree
<1>2. b_pending.do = "open" => b_result.order = b_pending
  BY DEF KinInv, BookInv, Ordered
<1> QED BY <1>1, <1>2 DEF Unanswered

LEMMA ClearKeepsKin ==
  ASSUME NEW w \in Ledgers, KinInv(w), BookInv(w)', Book(w)!Clear PROVE KinInv(w)'
<1>1. /\ b_pending' = Book(w)!Kept /\ b_at' = "start" /\ b_result' = Book(w)!NoResult
      /\ b_order' = b_order \/ (b_order' = Book(w)!NoOrder /\ b_pending' = Book(w)!None)
      /\ UNCHANGED <<b_chain, b_ledger>>
  BY DEF Book!Clear, Book!Forgets
<1>2. b_pending' = IF b_result.cleared THEN Book(w)!None ELSE b_pending BY <1>1 DEF Book!Kept
<1>3. ASSUME ~ForeignIn[w], b_pending' # b_pending
      PROVE (\A r \in b_ledger : r.addr # 0) /\ b_order.fate # "flying"
  <2>1. ~Unanswered(b_pending) /\ b_order.fate # "flying" BY <1>2, <1>3, SettledIsAnswered
  <2> QED BY <1>3, <2>1, AnsweredIsAddressed DEF KinInv, Kin
<1> QED BY <1>1, <1>2, <1>3, DropsKeepKin

LEMMA CrashKeepsKin ==
  ASSUME NEW w \in Ledgers, KinInv(w), BookInv(w)', Book(w)!Crash PROVE KinInv(w)'
<1>1. /\ b_pending' = b_pending /\ b_at' = "start" /\ b_result' = Book(w)!NoResult
      /\ b_order' = b_order \/ (b_order' = Book(w)!NoOrder /\ b_pending' = Book(w)!None)
      /\ UNCHANGED <<b_chain, b_ledger>>
  BY DEF Book!Crash, Book!Forgets
<1> QED BY <1>1, DropsKeepKin

\* What a cycle sends is pending, and the ledger can tell what it is about.
LEMMA SendsKeepKin ==
  ASSUME NEW w \in Ledgers, KinInv(w), BookInv(w)', UNCHANGED <<b_chain, b_ledger>>,
         b_pending = Book(w)!None, NEW o, b_pending' = o, o # Book(w)!None,
         b_order' = [what |-> o, fate |-> "flying"],
         b_result' = [Book(w)!NoResult EXCEPT !.order = o, !.sent = TRUE],
         b_at' \in {"after", "polled"}, Has(b_ledger, o),
         ~ForeignIn[w] => ~Unanswered(o) \/ \A r \in b_ledger : r.addr # o.intent
  PROVE KinInv(w)'
<1>1. ~Unanswered(b_pending) BY DEF Unanswered, Book!None
<1>2. ~ForeignIn[w] => \A r \in b_ledger : r.addr # 0
  BY <1>1, AnsweredIsAddressed DEF KinInv, Kin
<1>3. Kin(w, b_ledger, b_pending)'
  <2>1. Kin(w, b_ledger, b_pending) BY DEF KinInv
  <2> QED BY <1>2, <2>1, StillKin DEF Kin
<1>4. b_result'.order = o /\ b_result'.sent /\ ~b_result'.cleared BY DEF Book!NoResult
<1>5. b_order'.what = o /\ b_order'.fate = "flying" OBVIOUS
<1>6. OrdersAgree(w)' BY <1>4, <1>5 DEF OrdersAgree
<1>7. OpensAgree(w)' BY <1>4, <1>5 DEF OpensAgree
<1> QED BY <1>3, <1>6, <1>7 DEF KinInv

LEMMA ExitRefusedKeepsKin ==
  ASSUME NEW w \in Ledgers, KinInv(w), BookInv(w)', NEW a, NEW closed \in BOOLEAN,
         Book(w)!ExitRefused(a, closed)
  PROVE KinInv(w)'
<1> DEFINE o == Book(w)!Order("exit", 0, a)
<1>1. /\ b_pending = Book(w)!None /\ b_at' = "persist"
      /\ b_result' = [Book(w)!NoResult EXCEPT !.order = o, !.already = closed]
      /\ \E r \in b_ledger : r.addr = a
      /\ UNCHANGED <<b_chain, b_ledger, b_pending, b_order>>
  BY DEF Book!ExitRefused
<1>2. o.do = "exit" /\ o.addr = a /\ o.intent = 0 BY DEF Book!Order
<1> HIDE DEF o
<1>3. b_result'.order = o /\ ~b_result'.cleared BY <1>1 DEF Book!NoResult
<1>4. Has(b_ledger, o) BY <1>1, <1>2 DEF Has
<1>5. Kin(w, b_ledger, b_pending)' BY <1>1, StillKin DEF KinInv, Kin
<1>6. OrdersAgree(w)' BY <1>1, <1>2, <1>3, <1>4 DEF KinInv, OrdersAgree
<1>7. ~ForeignIn[w] => OpensAgree(w)' BY <1>1, <1>2, <1>3 DEF KinInv, OpensAgree
<1> QED BY <1>5, <1>6, <1>7 DEF KinInv

LEMMA ExitSentKeepsKin ==
  ASSUME NEW w \in Ledgers, KinInv(w), BookInv(w)', NEW a, Book(w)!ExitSent(a) PROVE KinInv(w)'
<1>1. PICK r \in b_ledger :
        /\ r.addr = a
        /\ b_pending' = Book(w)!Order("exit", r.intent, a)
           /\ Book(w)!Send(Book(w)!Order("exit", r.intent, a))
        /\ b_result' = [Book(w)!NoResult EXCEPT !.order = Book(w)!Order("exit", r.intent, a),
           !.sent = TRUE]
  BY DEF Book!ExitSent
<1> DEFINE o == Book(w)!Order("exit", r.intent, a)
<1>2. b_pending = Book(w)!None /\ b_at' = "after" /\ UNCHANGED <<b_chain, b_ledger>>
  BY DEF Book!ExitSent
<1>3. o.do = "exit" /\ o.addr = a /\ o.intent = r.intent /\ o # Book(w)!None
  BY DEF Book!Order, Book!None
<1>4. b_order' = [what |-> o, fate |-> "flying"] BY <1>1 DEF Book!Send
<1>5. Has(b_ledger, o) BY <1>1, <1>3 DEF Has
<1>6. ~Unanswered(o) BY <1>3 DEF Unanswered
<1> HIDE DEF o
<1> QED BY <1>1, <1>2, <1>3, <1>4, <1>5, <1>6, SendsKeepKin DEF o

\* No record has the address of an open that was not sent before.
LEMMA OpenSentKeepsKin ==
  ASSUME NEW w \in Ledgers, KinInv(w), BookInv(w)', NEW answered \in BOOLEAN,
         Book(w)!OpenSent(answered)
  PROVE KinInv(w)'
<1> DEFINE i == b_opened + 1
           o == Book(w)!Order("open", i, IF answered THEN i ELSE 0)
<1>1. /\ b_at' \in {"after", "polled"} /\ b_pending = Book(w)!None
      /\ b_opened < OpensIn[w] /\ b_pending' = o /\ b_order' = [what |-> o, fate |-> "flying"]
      /\ b_result' = [Book(w)!NoResult EXCEPT !.order = o, !.sent = TRUE]
      /\ UNCHANGED <<b_chain, b_ledger>>
  BY DEF Book!OpenSent, Book!Send
<1>2. o.do = "open" /\ o.intent = i /\ o # Book(w)!None BY DEF Book!Order, Book!None
<1>3. \A r \in b_ledger : r.addr # i
  <2> SUFFICES ASSUME NEW r \in b_ledger, r.addr = i PROVE FALSE OBVIOUS
  <2>1. Fine(w, r, b_pending) BY DEF KinInv, BookInv, AllFine
  <2>2. b_opened \in Nat /\ i \in 1..OpensIn[w] BY <1>1, BookConstants DEF KinInv, BookInv, Chained
  <2> QED BY <2>1, <2>2, BookConstants DEF Fine
<1>4. Has(b_ledger, o) BY <1>2 DEF Has
<1> HIDE DEF o, i
<1> QED BY <1>1, <1>2, <1>3, <1>4, SendsKeepKin

LEMMA PolledKeepsKin ==
  ASSUME NEW w \in Ledgers, KinInv(w), BookInv(w)', NEW filled \in BOOLEAN, Book(w)!Polled(filled)
  PROVE KinInv(w)'
<1>1. b_at = "polled" /\ b_at' = "after" /\ UNCHANGED <<b_chain, b_ledger, b_order>>
  BY DEF Book!Polled
<1>2. CASE ~(b_order.fate = "landed" /\ b_pending.addr # 0)
  <2>1. UNCHANGED <<b_pending, b_result>> BY <1>2 DEF Book!Polled
  <2> QED BY <1>1, <2>1, MovesKeepKin
<1>3. CASE b_order.fate = "landed" /\ b_pending.addr # 0
  <2>1. /\ b_pending' = Book(w)!None
        /\ b_result' = [b_result EXCEPT !.confirmed = TRUE, !.filled = filled, !.cleared = TRUE]
    BY <1>3 DEF Book!Polled
  <2>2. b_pending = b_result.order /\ b_order.what = b_pending /\ b_result \in Results
    BY <1>1 DEF KinInv, BookInv, Ordered
  <2>3. /\ b_result'.order = b_result.order /\ b_result'.sent = b_result.sent
        /\ b_result'.confirmed /\ b_result'.cleared
    BY <2>1, <2>2 DEF Results
  <2>4. ~Unanswered(b_pending) /\ ~Unanswered(Book(w)!None) BY <1>3 DEF Unanswered, Book!None
  <2>5. ~ForeignIn[w] => \A r \in b_ledger : r.addr # 0
    BY <2>4, AnsweredIsAddressed DEF KinInv, Kin
  <2>6. Kin(w, b_ledger, b_pending)'
    <3>1. Kin(w, b_ledger, b_pending) BY DEF KinInv
    <3> QED BY <1>1, <2>1, <2>4, <2>5, <3>1, StillKin DEF Kin
  <2>7. OrdersAgree(w)'
    <3>1. Has(b_ledger, Book(w)!None) BY DEF Has, Book!None
    <3> QED BY <1>1, <1>3, <2>1, <2>2, <2>3, <3>1 DEF KinInv, OrdersAgree
  <2>8. ~ForeignIn[w] => OpensAgree(w)' BY <1>1, <1>3, <2>3 DEF KinInv, OpensAgree
  <2> QED BY <2>6, <2>7, <2>8 DEF KinInv
<1> QED BY <1>2, <1>3

LEMMA AfterCycleKeepsKin ==
  ASSUME NEW w \in Ledgers, KinInv(w), BookInv(w)', NEW filled \in BOOLEAN,
         Book(w)!AfterCycle(filled)
  PROVE KinInv(w)'
<1> DEFINE landed == b_order.fate = "landed"
           proven == landed /\ b_pending.do = "exit"
<1>1. b_at = "after" /\ b_at' = "persist" /\ UNCHANGED <<b_chain, b_ledger, b_pending, b_order>>
  BY DEF Book!AfterCycle
<1>2. CASE b_result.cleared \/ b_pending.addr = 0 \/ b_order.fate = "flying"
  <2>1. UNCHANGED b_result BY <1>2 DEF Book!AfterCycle
  <2> QED BY <1>1, <2>1, MovesKeepKin
<1>3. CASE ~(b_result.cleared \/ b_pending.addr = 0 \/ b_order.fate = "flying")
  <2>1. b_result' = [b_result EXCEPT !.confirmed = landed, !.filled = filled /\ landed,
                                     !.proven = proven, !.cleared = TRUE]
    BY <1>3 DEF Book!AfterCycle
  <2>2. b_pending = b_result.order /\ b_order.what = b_pending /\ b_result \in Results
        /\ b_order.fate \in {"none", "flying", "landed", "failed"}
    BY <1>1, <1>3 DEF KinInv, BookInv, Ordered
  <2>3. /\ b_result'.order = b_result.order /\ b_result'.sent = b_result.sent
        /\ b_result'.confirmed = landed /\ b_result'.cleared
    <3> HIDE DEF landed, proven
    <3> QED BY <2>1, <2>2 DEF Results
  <2>4. Kin(w, b_ledger, b_pending)' BY <1>1, StillKin DEF KinInv, Kin
  <2>5. OrdersAgree(w)' BY <1>1, <1>3, <2>2, <2>3 DEF KinInv, OrdersAgree
  <2>6. ASSUME ~ForeignIn[w] PROVE OpensAgree(w)'
    <3>1. OpensAgree(w) /\ OrdersAgree(w) BY <2>6 DEF KinInv
    <3>2. b_result.order.do = "open" /\ b_chain[b_result.order.intent] # "none" => landed
      BY <1>3, <2>2, <3>1 DEF OpensAgree, OrdersAgree, Book!None
    <3> HIDE DEF landed
    <3> QED BY <1>1, <2>3, <3>1, <3>2 DEF OpensAgree
  <2> QED BY <2>4, <2>5, <2>6 DEF KinInv
<1> QED BY <1>2, <1>3

\* What lands or fails is what was sent last, and what lands is on the chain.
LEMMA LandsKeepsKin ==
  ASSUME NEW w \in Ledgers, KinInv(w), BookInv(w)', Book(w)!Lands PROVE KinInv(w)'
<1> DEFINE q == b_order.what
           i == IF q.do = "open" THEN q.intent ELSE q.addr
           what == IF q.do = "open" THEN "live" ELSE "gone"
<1>1. /\ b_order.fate = "flying" /\ b_order' = [b_order EXCEPT !.fate = "landed"]
      /\ b_chain' = [b_chain EXCEPT ![i] = what]
      /\ UNCHANGED <<b_ledger, b_pending, b_at, b_result>>
  BY DEF Book!Lands
<1>2. /\ AnOrder(w, q) /\ b_opened \in 0..OpensIn[w] /\ q # Book(w)!None
      /\ b_chain \in [Book(w)!Addresses -> {"none", "live", "gone"}]
  BY <1>1 DEF KinInv, BookInv, Ordered, Chained, Flies
<1>3. b_order'.what = b_order.what /\ b_order'.fate = "landed"
  BY <1>1 DEF KinInv, BookInv, Ordered
<1>4. ASSUME ~ForeignIn[w]
      PROVE /\ b_chain'[Book(w)!ByHand] = "none"
            /\ \A a \in Book(w)!Intents :
                 /\ b_chain[a] # "none" => b_chain'[a] # "none"
                 /\ b_chain[a] = "none" /\ b_chain'[a] # "none" =>
                      b_order.fate = "flying" /\ b_order'.fate = "landed"
            /\ b_order.what.do = "open" /\ b_order'.fate = "landed" =>
                 b_chain'[b_order.what.intent] # "none"
  <2>1. b_chain[Book(w)!ByHand] = "none" BY <1>4 DEF KinInv, Kin
  <2>2. i \in Book(w)!Addresses /\ (q.do = "open" => i \in Book(w)!Intents)
    <3>1. q.do = "open" => q.intent \in Book(w)!Intents BY <1>2, OrdersName, BookConstants
    <3>2. q.do # "open" => q.do = "exit"
      <4>1. ASSUME NEW j, q = Book(w)!Order("open", j, 0) \/ q = Book(w)!Order("open", j, j)
            PROVE q.do = "open"
        BY <4>1 DEF Book!Order
      <4>2. ASSUME NEW j, NEW b, q = Book(w)!Order("exit", j, b) PROVE q.do = "exit"
        BY <4>2 DEF Book!Order
      <4> HIDE DEF q
      <4> QED BY <1>2, <4>1, <4>2 DEF AnOrder
    <3> QED BY <1>2, <3>1, <3>2, OrdersName DEF Book!Addresses
  <2>3. q.do # "open" => b_chain[i] # "none"
    <3>1. ASSUME NEW j \in 1..b_opened,
                 q = Book(w)!Order("open", j, 0) \/ q = Book(w)!Order("open", j, j)
          PROVE q.do = "open"
      BY <3>1 DEF Book!Order
    <3>2. ASSUME NEW j \in 0..b_opened, NEW b \in Book(w)!Addresses,
                 q = Book(w)!Order("exit", j, b), b_shown[b] # "none"
          PROVE b_chain[q.addr] # "none"
      <4>1. q.addr = b BY <3>2 DEF Book!Order
      <4> QED BY <3>2, <4>1 DEF KinInv, BookInv, Chained
    <3> HIDE DEF q
    <3> QED BY <1>2, <3>1, <3>2 DEF AnOrder
  <2>4. Book(w)!ByHand \in Book(w)!Addresses /\ Book(w)!ByHand \notin Book(w)!Intents
        /\ \A a \in Book(w)!Intents : a \in Book(w)!Addresses
    BY BookConstants
  <2>5. i # Book(w)!ByHand BY <2>1, <2>2, <2>3, <2>4
  <2>6. what # "none" /\ b_chain'[i] = what BY <1>1, <1>2, <2>2
  <2>7. \A a \in Book(w)!Addresses : a # i => b_chain'[a] = b_chain[a] BY <1>1, <1>2
  <2>8. q.do = "open" => i = b_order.what.intent OBVIOUS
  <2> HIDE DEF i, what
  <2> QED BY <1>1, <1>3, <2>1, <2>2, <2>4, <2>5, <2>6, <2>7, <2>8
<1> HIDE DEF q, i, what
<1> QED BY <1>1, <1>3, <1>4, ChainKeepsKin

LEMMA FailsKeepsKin ==
  ASSUME NEW w \in Ledgers, KinInv(w), BookInv(w)', Book(w)!Fails PROVE KinInv(w)'
<1>1. /\ b_order.fate = "flying" /\ b_order' = [b_order EXCEPT !.fate = "failed"]
      /\ UNCHANGED <<b_chain, b_ledger, b_pending, b_at, b_result>>
  BY DEF Book!Fails
<1>2. b_order'.what = b_order.what /\ b_order'.fate = "failed"
  BY <1>1 DEF KinInv, BookInv, Ordered
<1>3. ~ForeignIn[w] => b_chain[Book(w)!ByHand] = "none" BY DEF KinInv, Kin
<1> QED BY <1>1, <1>2, <1>3, ChainKeepsKin

\* Whoever does not open positions by hand only closes those that are there.
LEMMA UserKeepsKin ==
  ASSUME NEW w \in Ledgers, KinInv(w), BookInv(w)',
         Book(w)!UserOpens \/ \E a \in Book(w)!Addresses : Book(w)!UserCloses(a)
  PROVE KinInv(w)'
<1>1. UNCHANGED <<b_ledger, b_pending, b_at, b_result, b_order>>
  BY DEF Book!UserOpens, Book!UserCloses
<1>2. ASSUME ~ForeignIn[w]
      PROVE /\ b_chain'[Book(w)!ByHand] = "none"
            /\ \A a \in Book(w)!Intents : b_chain[a] # "none" <=> b_chain'[a] # "none"
            /\ b_order.what.do = "open" /\ b_order.fate = "landed" =>
                 b_chain'[b_order.what.intent] # "none"
  <2>1. ~Book(w)!UserOpens BY <1>2 DEF Book!UserOpens
  <2>2. PICK a \in Book(w)!Addresses : b_chain[a] = "live" /\ b_chain' = [b_chain EXCEPT ![a] = "gone"]
    BY <2>1 DEF Book!UserCloses
  <2>3. b_chain[Book(w)!ByHand] = "none" /\ b_chain \in [Book(w)!Addresses -> {"none", "live", "gone"}]
    BY <1>2 DEF KinInv, Kin, BookInv, Chained
  <2>4. Book(w)!ByHand \in Book(w)!Addresses /\ \A b \in Book(w)!Intents : b \in Book(w)!Addresses
    BY BookConstants
  <2>5. \A b \in Book(w)!Addresses : b_chain[b] # "none" <=> b_chain'[b] # "none" BY <2>2, <2>3
  <2>6. b_order.what.do = "open" => b_order.what.intent \in Book(w)!Intents
    BY OrdersName, BookConstants DEF KinInv, BookInv, Ordered, Chained
  <2>7. b_order.what.do = "open" /\ b_order.fate = "landed" => b_chain[b_order.what.intent] # "none"
    BY <1>2 DEF KinInv, OpensAgree
  <2> QED BY <2>3, <2>4, <2>5, <2>6, <2>7
<1> QED BY <1>1, <1>2, ChainKeepsKin

LEMMA KinStarts == ASSUME NEW w \in Ledgers, Book(w)!Init PROVE KinInv(w)
<1>1. BookInv(w) BY BookStarts
<1>2. b_ledger = {} /\ b_pending = Book(w)!None /\ b_order = Book(w)!NoOrder /\ b_at = "start"
      /\ b_result = Book(w)!NoResult
      /\ b_chain = [a \in Book(w)!Addresses |-> "none"]
  BY DEF Book!Init
<1>3. Book(w)!None.do = "none" /\ Book(w)!None.addr = 0 BY DEF Book!None
<1>4. b_order.what = Book(w)!None /\ b_order.fate = "none" BY <1>2 DEF Book!NoOrder
<1>5. b_result.order = Book(w)!None /\ ~b_result.cleared BY <1>2 DEF Book!NoResult
<1>6. Kin(w, b_ledger, b_pending)
  <2>1. b_chain[Book(w)!ByHand] = "none" BY <1>2, BookConstants
  <2> QED BY <1>2, <1>3, <2>1 DEF Kin, OneEach, OwnOnce, Unanswered
<1>7. OrdersAgree(w) BY <1>2, <1>3, <1>4, <1>5 DEF OrdersAgree, Has
<1>8. OpensAgree(w) BY <1>2, <1>3, <1>4, <1>5 DEF OpensAgree
<1> QED BY <1>1, <1>6, <1>7, <1>8 DEF KinInv

\* The steps of Next, as the lemmas on them tell them apart.
Chains(w) == Book(w)!Lands \/ Book(w)!Fails \/ Book(w)!UserOpens
             \/ \E a \in Book(w)!Addresses : Book(w)!UserCloses(a)
Idles(w) == Book(w)!Unresolved \/ Book(w)!Holds \/ Book(w)!Skips
Forgets(w) == Book(w)!RecoverFailed \/ Book(w)!ClearRecovered \/ Book(w)!Clear \/ Book(w)!Crash
              \/ \E news \in SUBSET Book(w)!Addresses : Book(w)!ReadAccount(news)
Trades(w) ==
  \/ \E a \in Book(w)!Addresses, closed \in BOOLEAN : Book(w)!ExitRefused(a, closed)
  \/ \E a \in Book(w)!Addresses : Book(w)!ExitSent(a)
  \/ \E answered \in BOOLEAN : Book(w)!OpenSent(answered)
Settles(w) ==
  \/ \E filled \in BOOLEAN : Book(w)!Polled(filled)
  \/ \E filled \in BOOLEAN : Book(w)!AfterCycle(filled)
LEMMA StepsAre ==
  ASSUME NEW w \in Ledgers, Book(w)!Next
  PROVE Writes(w) \/ Chains(w) \/ Idles(w) \/ Forgets(w) \/ Trades(w) \/ Settles(w)
BY DEF Book!Next, Book!Tick, Writes, Chains, Idles, Forgets, Trades, Settles

LEMMA KinStep == ASSUME NEW w \in Ledgers, KinInv(w), [Book(w)!Next]_bookVars PROVE KinInv(w)'
<1>1. BookInv(w)' BY BookStep DEF KinInv
<1>2. CASE Writes(w) BY <1>1, <1>2, WritesKeepKin
<1>3. CASE Chains(w) BY <1>1, <1>3, LandsKeepsKin, FailsKeepsKin, UserKeepsKin DEF Chains
<1>4. CASE Idles(w)
  <2>1. UNCHANGED <<b_chain, b_ledger, b_pending, b_order, b_result>>
        /\ b_at' \in {"import", "open", "persist"}
    BY <1>4 DEF Idles, Book!Unresolved, Book!Holds, Book!Skips
  <2> QED BY <1>1, <2>1, MovesKeepKin
<1>5. CASE Forgets(w)
  BY <1>1, <1>5, RecoverFailedKeepsKin, ClearRecoveredKeepsKin, ClearKeepsKin, CrashKeepsKin,
     ReadAccountKeepsKin DEF Forgets
<1>6. CASE Trades(w)
  BY <1>1, <1>6, ExitRefusedKeepsKin, ExitSentKeepsKin, OpenSentKeepsKin DEF Trades
<1>7. CASE Settles(w) BY <1>1, <1>7, PolledKeepsKin, AfterCycleKeepsKin DEF Settles
<1>8. CASE UNCHANGED bookVars BY <1>1, <1>8, MovesKeepKin DEF bookVars
<1> QED BY <1>2, <1>3, <1>4, <1>5, <1>6, <1>7, <1>8, StepsAre

LEMMA OnesEach == ASSUME NEW w \in Ledgers, KinInv(w), ~ForeignIn[w] PROVE Book(w)!OnePerPosition
BY DEF KinInv, Kin, OneEach, OwnOnce, Book!OnePerPosition

\* No position and no open has two live records, in whichever order the answer, the recovery and
\* the wallet name it, for any number of opens and crashes (importActiveLpPositionsToLedger,
\* applyLiveCycleResultToLedger).
THEOREM OneRecordEach == RecordsSpec => []OnePerPosition
<1> DEFINE Inv == \A w \in Ledgers : part = w => KinInv(w)
<1>1. ASSUME RecordsInit PROVE Inv
  <2> SUFFICES ASSUME NEW w \in Ledgers, part = w PROVE KinInv(w) OBVIOUS
  <2>1. Book(w)!Init BY <1>1 DEF RecordsInit
  <2> QED BY <2>1, KinStarts
<1>2. ASSUME Inv, [RecordsNext]_records PROVE Inv'
  <2> SUFFICES ASSUME NEW w \in Ledgers, part' = w PROVE KinInv(w)' OBVIOUS
  <2>1. part = w BY <1>2, RecordsStutter
  <2>2. KinInv(w) BY <1>2, <2>1
  <2>3. [Book(w)!Next]_bookVars BY <1>2, <2>1, RecordsStutter
  <2> QED BY <2>2, <2>3, KinStep
<1>3. Inv => OnePerPosition BY OnesEach DEF OnePerPosition
<1> HIDE DEF Inv
<1> QED BY <1>1, <1>2, <1>3, PTL DEF RecordsSpec

-----------------------------------------------------------------------------
(* What a step may not do to the ledger.                                   *)

\* Only what writes the ledger changes it.
LEMMA LedgersStay ==
  ASSUME NEW w \in Ledgers, [Book(w)!Next]_bookVars, ~Writes(w)
  PROVE b_ledger' = b_ledger
<1>1. CASE Chains(w)
  BY <1>1 DEF Chains, Book!Lands, Book!Fails, Book!UserOpens, Book!UserCloses
<1>2. CASE Idles(w) BY <1>2 DEF Idles, Book!Unresolved, Book!Holds, Book!Skips
<1>3. CASE Forgets(w)
  BY <1>3 DEF Forgets, Book!RecoverFailed, Book!ClearRecovered, Book!Clear, Book!Crash, Book!ReadAccount
<1>4. CASE Trades(w) BY <1>4 DEF Trades, Book!ExitRefused, Book!ExitSent, Book!OpenSent
<1>5. CASE Settles(w) BY <1>5 DEF Settles, Book!Polled, Book!AfterCycle
<1>6. CASE UNCHANGED bookVars BY <1>6 DEF bookVars
<1> QED BY <1>1, <1>2, <1>3, <1>4, <1>5, <1>6, StepsAre

LEMMA TakenInTime ==
  ASSUME NEW w \in Ledgers, KinInv(w), [Book(w)!Next]_bookVars PROVE Book(w)!LeftAlone
<1> SUFFICES ASSUME Book(w)!Taken(b_ledger'), ~Book(w)!Taken(b_ledger), ~Unanswered(b_pending)
             PROVE FALSE
  BY DEF Book!LeftAlone, Unanswered
<1>1. Writes(w) BY LedgersStay
<1> DEFINE N == b_ledger'
<1>2. Asked(w, b_pending, b_pending, TRUE, 0) /\ Sound(w, b_ledger, b_pending, b_pending, TRUE, 0)
  <2>1. Asked(w, b_pending, b_pending, FALSE, 0) /\ Sound(w, b_ledger, b_pending, b_pending, FALSE, 0)
    BY AskedAsItIs
  <2> QED BY <2>1 DEF Asked, Sound
<1>3. N = b_ledger' OBVIOUS
<1> HIDE DEF N
<1>4. Sound(w, N, b_pending, b_pending, TRUE, 0) BY <1>1, <1>2, <1>3, WrittenIsSound
<1> QED BY <1>3, <1>4 DEF Sound

\* A position the user opened by hand becomes the daemon's own only while an open in its pool
\* waits for an answer that would name its address, whatever else is pending, recovered or
\* imported (importActiveLpPositionsToLedger, pendingOpenUniquelyBindsPosition).
THEOREM ForeignStaysAlone == RecordsSpec => ForeignLeftAlone
<1> DEFINE Inv == \A w \in Ledgers : part = w => KinInv(w)
           Alone == \A w \in Ledgers : part = w /\ ForeignIn[w] => Book(w)!LeftAlone
<1>1. ASSUME RecordsInit PROVE Inv
  <2> SUFFICES ASSUME NEW w \in Ledgers, part = w PROVE KinInv(w) OBVIOUS
  <2>1. Book(w)!Init BY <1>1 DEF RecordsInit
  <2> QED BY <2>1, KinStarts
<1>2. ASSUME Inv, [RecordsNext]_records PROVE Inv' /\ [Alone]_bookVars
  <2>1. ASSUME NEW w \in Ledgers, part' = w PROVE KinInv(w)'
    <3>1. part = w BY <1>2, <2>1, RecordsStutter
    <3>2. KinInv(w) BY <1>2, <3>1
    <3>3. [Book(w)!Next]_bookVars BY <1>2, <3>1, RecordsStutter
    <3> QED BY <3>2, <3>3, KinStep
  <2>2. ASSUME NEW w \in Ledgers, part = w PROVE Book(w)!LeftAlone
    <3>1. KinInv(w) BY <1>2, <2>2
    <3>2. [Book(w)!Next]_bookVars BY <1>2, <2>2, RecordsStutter
    <3> QED BY <3>1, <3>2, TakenInTime
  <2>3. Inv' BY <2>1
  <2>4. Alone BY <2>2
  <2> HIDE DEF Inv, Alone
  <2> QED BY <2>3, <2>4
<1>3. (Inv /\ [RecordsNext]_records => Inv' /\ [Alone]_bookVars) BY <1>2
<1>4. RecordsInit => Inv BY <1>1
<1>5. RecordsSpec => [][Alone]_bookVars
  <2> HIDE DEF Inv, Alone
  <2> QED BY <1>3, <1>4, PTL DEF RecordsSpec
<1> QED BY <1>5 DEF ForeignLeftAlone

\* What names a position: the pending order, the result of the cycle, or the ledger.
Opening(q, a) == q.do = "open" /\ q.intent = a
LEMMA NamedIs ==
  ASSUME NEW w \in Ledgers, NEW a
  PROVE /\ Book(w)!Named(a) <=> Opening(b_pending, a) \/ Opening(b_result.order, a)
                                \/ Names(w, b_ledger, a)
        /\ Book(w)!Named(a)' <=> Opening(b_pending', a) \/ Opening(b_result'.order, a)
                                 \/ Names(w, b_ledger', a)
BY DEF Book!Named, Opening, Names, Book!Alive, Book!Over

\* What is asked of a step: the position is named afterwards, or the process died between the
\* clearing of its open and the ledger.
Remains(w, a) ==
  \/ Opening(b_pending', a) \/ Opening(b_result'.order, a) \/ Names(w, b_ledger', a)
  \/ b_crashes' > b_crashes /\ b_result.cleared /\ b_pending = Book(w)!None

LEMMA WritesKeepNamed ==
  ASSUME NEW w \in Ledgers, KinInv(w), ~ForeignIn[w], NEW a \in Book(w)!Intents, b_chain[a] = "live",
         Writes(w), Names(w, b_ledger, a)
  PROVE Names(w, b_ledger', a)
<1> DEFINE N == b_ledger'
<1>1. Asked(w, b_pending, b_pending, FALSE, a) /\ Sound(w, b_ledger, b_pending, b_pending, FALSE, a)
  <2>1. Asked(w, b_pending, b_pending, FALSE, 0) /\ Sound(w, b_ledger, b_pending, b_pending, FALSE, 0)
    BY AskedAsItIs
  <2> QED BY <2>1 DEF Asked, Sound
<1>2. N = b_ledger' OBVIOUS
<1>3. a # 0 BY BookConstants
<1> HIDE DEF N
<1>4. Sound(w, N, b_pending, b_pending, FALSE, a) BY <1>1, <1>2, WrittenIsSound
<1> QED BY <1>2, <1>3, <1>4 DEF Sound

\* What lands was pending until then.
LEMMA LandedIsPending ==
  ASSUME NEW w \in Ledgers, KinInv(w), ~ForeignIn[w], NEW a \in Book(w)!Intents, Chains(w),
         b_chain[a] = "none", b_chain'[a] = "live"
  PROVE Opening(b_pending, a)
<1>1. b_chain \in [Book(w)!Addresses -> {"none", "live", "gone"}] /\ a \in Book(w)!Addresses
  BY BookConstants DEF KinInv, BookInv, Chained
<1>2. ~Book(w)!Fails /\ ~Book(w)!UserOpens BY DEF Book!Fails, Book!UserOpens
<1>3. ~\E b \in Book(w)!Addresses : Book(w)!UserCloses(b)
  <2> SUFFICES ASSUME NEW b \in Book(w)!Addresses, Book(w)!UserCloses(b) PROVE FALSE OBVIOUS
  <2>1. b_chain' = [b_chain EXCEPT ![b] = "gone"] BY DEF Book!UserCloses
  <2> QED BY <1>1, <2>1
<1>4. Book(w)!Lands BY <1>2, <1>3 DEF Chains
<1>5. b_order.fate = "flying" BY <1>4 DEF Book!Lands
<1>6. b_order.what.do = "open" /\ b_order.what.intent = a
  <2>1. CASE b_order.what.do = "open"
    <3>1. b_chain' = [b_chain EXCEPT ![b_order.what.intent] = "live"] BY <1>4, <2>1 DEF Book!Lands
    <3> QED BY <1>1, <2>1, <3>1
  <2>2. CASE b_order.what.do # "open"
    <3>1. b_chain' = [b_chain EXCEPT ![b_order.what.addr] = "gone"] BY <1>4, <2>2 DEF Book!Lands
    <3> QED BY <1>1, <3>1
  <2> QED BY <2>1, <2>2
<1> QED BY <1>5, <1>6 DEF KinInv, OpensAgree, Opening

\* The pending order goes only when its open failed or the ledger has its position, and a result
\* that names a position is forgotten only with its order pending or in the ledger, or in a crash.
LEMMA ForgetsKeepNamed ==
  ASSUME NEW w \in Ledgers, KinInv(w), ~ForeignIn[w], b_crashes \in Nat, NEW a \in Book(w)!Intents,
         b_chain[a] = "live", Forgets(w),
         Opening(b_pending, a) \/ Opening(b_result.order, a) \/ Names(w, b_ledger, a)
  PROVE Remains(w, a)
<1>1. OpensAgree(w) /\ OrdersAgree(w) /\ BookInv(w) BY DEF KinInv
<1>2. \A i : Held(w, b_ledger, i) => Names(w, b_ledger, i) BY DEF Held, Names
<1>3. ~Opening(Book(w)!None, a) /\ Book(w)!NoResult.order = Book(w)!None
  BY DEF Opening, Book!None, Book!NoResult
<1>4. Forgets(w) => b_ledger' = b_ledger
  BY DEF Forgets, Book!RecoverFailed, Book!ClearRecovered, Book!Clear, Book!Crash, Book!ReadAccount
<1>5. ASSUME Names(w, b_ledger, a) PROVE Remains(w, a) BY <1>4, <1>5 DEF Remains
<1>6. CASE Book(w)!RecoverFailed
  <2>1. b_at = "recover" /\ b_pending.addr # 0 /\ b_order.fate = "failed"
    BY <1>6 DEF Book!RecoverFailed
  <2>2. ~Opening(b_pending, a)
    BY <1>1, <2>1 DEF OpensAgree, OrdersAgree, Opening, Book!None
  <2>3. ~Opening(b_result.order, a) BY <1>1, <1>3, <2>1 DEF BookInv, Ordered
  <2> QED BY <1>5, <2>2, <2>3
<1>7. CASE Book(w)!ClearRecovered
  <2>1. b_at = "recovered" BY <1>7 DEF Book!ClearRecovered
  <2>2. ~Opening(b_result.order, a) BY <1>1, <1>3, <2>1 DEF BookInv, Ordered
  <2>3. Opening(b_pending, a) => Held(w, b_ledger, a) BY <1>1, <2>1 DEF OpensAgree, Opening
  <2> QED BY <1>2, <1>5, <2>2, <2>3
<1>8. CASE \E news \in SUBSET Book(w)!Addresses : Book(w)!ReadAccount(news)
  <2>1. b_at = "start" /\ b_pending' = b_pending BY <1>8 DEF Book!ReadAccount
  <2>2. ~Opening(b_result.order, a) BY <1>1, <1>3, <2>1 DEF BookInv, Ordered
  <2> QED BY <1>5, <2>1, <2>2 DEF Remains
<1>9. Opening(b_result.order, a) =>
        Opening(b_pending, a) \/ (b_result.cleared /\ b_pending = Book(w)!None)
  BY <1>1 DEF OrdersAgree, Opening
<1>10. CASE Book(w)!Clear
  <2>1. b_at = "clear" /\ b_pending' = IF b_result.cleared THEN Book(w)!None ELSE b_pending
    BY <1>10 DEF Book!Clear, Book!Kept
  <2>2. CASE b_result.cleared
    <3>1. b_result.order # Book(w)!None BY <1>1, <2>2 DEF BookInv, Ordered
    <3>2. Opening(b_pending, a) => Opening(b_result.order, a)
      BY <1>1, <3>1 DEF BookInv, Ordered, Opening
    <3>3. Opening(b_result.order, a) => Held(w, b_ledger, a)
      BY <1>1, <2>1, <2>2 DEF OpensAgree, Opening
    <3> QED BY <1>2, <1>5, <3>2, <3>3
  <2>3. CASE ~b_result.cleared BY <1>5, <1>9, <2>1, <2>3 DEF Remains
  <2> QED BY <2>2, <2>3
<1>11. CASE Book(w)!Crash
  <2>1. b_pending' = b_pending /\ b_crashes' = b_crashes + 1 BY <1>11 DEF Book!Crash
  <2>2. b_crashes' > b_crashes BY <2>1
  <2> QED BY <1>5, <1>9, <2>1, <2>2 DEF Remains
<1> QED BY <1>6, <1>7, <1>8, <1>10, <1>11 DEF Forgets

LEMMA NamedStays ==
  ASSUME NEW w \in Ledgers, KinInv(w), ~ForeignIn[w], b_crashes \in Nat, [Book(w)!Next]_bookVars
  PROVE Book(w)!StaysNamed
<1> SUFFICES ASSUME NEW a \in Book(w)!Intents, b_chain'[a] = "live",
                    b_chain[a] = "none" \/ Book(w)!Named(a)
             PROVE Remains(w, a)
  BY NamedIs DEF Book!StaysNamed, Remains
<1>1. b_chain[a] = "none" \/ Opening(b_pending, a) \/ Opening(b_result.order, a)
      \/ Names(w, b_ledger, a)
  BY NamedIs
<1>2. ASSUME UNCHANGED <<b_pending, b_result, b_ledger>>, b_chain[a] # "none" PROVE Remains(w, a)
  BY <1>1, <1>2 DEF Remains
<1>3. CASE Writes(w)
  <2>1. UNCHANGED <<b_chain, b_pending, b_result>> BY <1>3, WritesLeave
  <2>2. Names(w, b_ledger, a) => Names(w, b_ledger', a) BY <1>3, <2>1, WritesKeepNamed
  <2> QED BY <1>1, <2>1, <2>2 DEF Remains
<1>4. CASE Chains(w)
  <2>1. UNCHANGED <<b_pending, b_result, b_ledger>>
    BY <1>4 DEF Chains, Book!Lands, Book!Fails, Book!UserOpens, Book!UserCloses
  <2>2. b_chain[a] = "none" => Opening(b_pending, a) BY <1>4, LandedIsPending
  <2> QED BY <1>1, <2>1, <2>2 DEF Remains
<1>5. CASE Idles(w)
  <2>1. UNCHANGED <<b_chain, b_pending, b_result, b_ledger>>
    BY <1>5 DEF Idles, Book!Unresolved, Book!Holds, Book!Skips
  <2> QED BY <1>2, <2>1
<1>6. CASE Forgets(w)
  <2>1. b_chain' = b_chain
    BY <1>6
    DEF Forgets, Book!RecoverFailed, Book!ClearRecovered, Book!Clear, Book!Crash, Book!ReadAccount
  <2> QED BY <1>1, <1>6, <2>1, ForgetsKeepNamed
<1>7. CASE Trades(w)
  <2>1. b_at \in {"cycle", "open"} /\ b_pending = Book(w)!None /\ UNCHANGED <<b_chain, b_ledger>>
    BY <1>7 DEF Trades, Book!ExitRefused, Book!ExitSent, Book!OpenSent
  <2>2. b_result.order = Book(w)!None
    BY <2>1 DEF KinInv, BookInv, Ordered, Book!NoResult
  <2>3. ~Opening(b_pending, a) /\ ~Opening(b_result.order, a) BY <2>1, <2>2 DEF Opening, Book!None
  <2> QED BY <1>1, <2>1, <2>3 DEF Remains
<1>8. CASE Settles(w)
  <2>1. UNCHANGED <<b_chain, b_ledger>> BY <1>8 DEF Settles, Book!Polled, Book!AfterCycle
  <2>2. b_result \in Results BY DEF KinInv, BookInv, Ordered
  <2>3. b_result'.order = b_result.order /\ (b_pending' = b_pending \/ b_pending = b_result.order)
    <3>1. CASE \E filled \in BOOLEAN : Book(w)!Polled(filled)
      <4>1. PICK filled \in BOOLEAN : Book(w)!Polled(filled) BY <3>1
      <4>2. b_result' = b_result
            \/ b_result' = [b_result EXCEPT !.confirmed = TRUE, !.filled = filled, !.cleared = TRUE]
        BY <4>1 DEF Book!Polled
      <4>3. b_at = "polled" BY <4>1 DEF Book!Polled
      <4>4. b_pending = b_result.order BY <4>3 DEF KinInv, BookInv, Ordered
      <4> QED BY <2>2, <4>2, <4>4 DEF Results
    <3>2. CASE \E filled \in BOOLEAN : Book(w)!AfterCycle(filled)
      <4>1. PICK filled \in BOOLEAN : Book(w)!AfterCycle(filled) BY <3>2
      <4>2. b_pending' = b_pending BY <4>1 DEF Book!AfterCycle
      <4> DEFINE landed == b_order.fate = "landed"
                 taken == filled /\ landed
                 proven == landed /\ b_pending.do = "exit"
      <4>3. b_result' = b_result
            \/ b_result' = [b_result EXCEPT !.confirmed = landed, !.filled = taken,
                                            !.proven = proven, !.cleared = TRUE]
        BY <4>1 DEF Book!AfterCycle
      <4> HIDE DEF landed, taken, proven
      <4> QED BY <2>2, <4>2, <4>3 DEF Results
    <3> QED BY <1>8, <3>1, <3>2 DEF Settles
  <2> QED BY <1>1, <2>1, <2>3 DEF Remains
<1>9. CASE UNCHANGED bookVars BY <1>2, <1>9 DEF bookVars
<1> QED BY <1>3, <1>4, <1>5, <1>6, <1>7, <1>8, <1>9, StepsAre

LEMMA CrashesCount ==
  ASSUME NEW w \in Ledgers, b_crashes \in Nat, [Book(w)!Next]_bookVars PROVE b_crashes' \in Nat
<1>1. CASE Writes(w) BY <1>1, WritesLeave
<1>2. CASE Chains(w)
  BY <1>2 DEF Chains, Book!Lands, Book!Fails, Book!UserOpens, Book!UserCloses
<1>3. CASE Idles(w) BY <1>3 DEF Idles, Book!Unresolved, Book!Holds, Book!Skips
<1>4. CASE Forgets(w)
  BY <1>4 DEF Forgets, Book!RecoverFailed, Book!ClearRecovered, Book!Clear, Book!Crash, Book!ReadAccount
<1>5. CASE Trades(w) BY <1>5 DEF Trades, Book!ExitRefused, Book!ExitSent, Book!OpenSent
<1>6. CASE Settles(w) BY <1>6 DEF Settles, Book!Polled, Book!AfterCycle
<1>7. CASE UNCHANGED bookVars BY <1>7 DEF bookVars
<1> QED BY <1>1, <1>2, <1>3, <1>4, <1>5, <1>6, <1>7, StepsAre

\* From the moment it lands an opened position stays named, by the pending order, the result of
\* the cycle or a record with ownership evidence, as long as the chain holds it, over lagging
\* answers, recoveries and crashes; but for a crash after the pass after the cycle cleared a
\* confirmed open and before its ledger is written (live-daemon.ts, applyLiveCycleResultToLedger).
THEOREM OwnedStaysOwned == RecordsSpec => OwnedStaysNamed
<1> DEFINE Inv == \A w \in Ledgers : part = w => KinInv(w) /\ b_crashes \in Nat
           Stays == \A w \in Ledgers : part = w /\ ~ForeignIn[w] => Book(w)!StaysNamed
<1>1. ASSUME RecordsInit PROVE Inv
  <2> SUFFICES ASSUME NEW w \in Ledgers, part = w PROVE KinInv(w) /\ b_crashes \in Nat OBVIOUS
  <2>1. Book(w)!Init BY <1>1 DEF RecordsInit
  <2>2. b_crashes \in Nat BY <2>1 DEF Book!Init
  <2> QED BY <2>1, <2>2, KinStarts
<1>2. ASSUME Inv, [RecordsNext]_records PROVE Inv' /\ [Stays]_bookVars
  <2>1. ASSUME NEW w \in Ledgers, part' = w PROVE KinInv(w)' /\ b_crashes' \in Nat
    <3>1. part = w BY <1>2, <2>1, RecordsStutter
    <3>2. KinInv(w) /\ b_crashes \in Nat BY <1>2, <3>1
    <3>3. [Book(w)!Next]_bookVars BY <1>2, <3>1, RecordsStutter
    <3> QED BY <3>2, <3>3, KinStep, CrashesCount
  <2>2. ASSUME NEW w \in Ledgers, part = w, ~ForeignIn[w] PROVE Book(w)!StaysNamed
    <3>1. KinInv(w) /\ b_crashes \in Nat BY <1>2, <2>2
    <3>2. [Book(w)!Next]_bookVars BY <1>2, <2>2, RecordsStutter
    <3> QED BY <2>2, <3>1, <3>2, NamedStays
  <2>3. Inv' BY <2>1
  <2>4. Stays BY <2>2
  <2> HIDE DEF Inv, Stays
  <2> QED BY <2>3, <2>4
<1>3. (Inv /\ [RecordsNext]_records => Inv' /\ [Stays]_bookVars) BY <1>2
<1>4. RecordsInit => Inv BY <1>1
<1>5. RecordsSpec => [][Stays]_bookVars
  <2> HIDE DEF Inv, Stays
  <2> QED BY <1>3, <1>4, PTL DEF RecordsSpec
<1> QED BY <1>5 DEF OwnedStaysNamed

-----------------------------------------------------------------------------
(* The types of the components.                                            *)

\* What is read before the pass.
InputsTyped(w) ==
  /\ s_lp \in [PoolsIn[w] -> {"none", "ours", "foreign"}] /\ s_tokens \subseteq Mints
  /\ s_tracked \in PoolsIn[w] \cup {Pass(w)!NoPool} /\ s_stateOpen \in BOOLEAN
  /\ s_lastClosed \in Mints \cup {Pass(w)!NoMint} /\ s_cooled \subseteq PoolsIn[w]
  /\ s_quality \in [PoolsIn[w] -> Pass(w)!Qualities]

LEMMA InputsStart == ASSUME NEW w \in Markets, Pass(w)!Init PROVE InputsTyped(w)
<1>1. s_stateOpen \in BOOLEAN
  <2>1. s_stateOpen \in IF s_tracked = Pass(w)!NoPool THEN {FALSE} ELSE BOOLEAN BY DEF Pass!Init
  <2> QED BY <2>1
<1>2. s_cooled \subseteq PoolsIn[w]
  <2>1. PICK p \in PoolsIn[w] : s_cooled \in {{}, {p}} BY DEF Pass!Init
  <2> QED BY <2>1
<1> QED BY <1>1, <1>2 DEF Pass!Init, InputsTyped

LEMMA InputsStay ==
  ASSUME NEW w \in Markets, InputsTyped(w), Pass(w)!Select \/ UNCHANGED passVars PROVE InputsTyped(w)'
<1>1. UNCHANGED <<s_lp, s_tokens, s_tracked, s_stateOpen, s_lastClosed, s_cooled, s_quality>>
  BY DEF Pass!Select, Pass!inputs, passVars
<1> QED BY <1>1 DEF InputsTyped

LEMMA PassTypeOK ==
  ASSUME NEW w \in Markets, InputsTyped(w), SelectionInv(w) PROVE Pass(w)!SelectionTypeOK
<1>1. s_context \in {Pass(w)!Nothing} \cup {Pass(w)!Maintain(p) : p \in PoolsIn[w]}
        \cup {Pass(w)!Candidate(p, h) : p \in PoolsIn[w], h \in BOOLEAN}
  BY DEF SelectionInv, Fit
<1> QED BY <1>1 DEF InputsTyped, Pass!SelectionTypeOK

\* PositionBook: what BookInv says no more of than it needs.
BookTyped(w) == b_may \in BOOLEAN /\ b_crashes \in 0..DeathsIn[w]

LEMMA DeathsBounded == ASSUME NEW w \in Ledgers PROVE DeathsIn[w] \in Nat
BY RecordConstants DEF Book!BookAssumption

LEMMA BookTypedFirst == ASSUME NEW w \in Ledgers, Book(w)!Init PROVE BookTyped(w)
<1>1. DeathsIn[w] \in Nat BY DeathsBounded
<1>2. b_may = FALSE /\ b_crashes = 0 BY DEF Book!Init
<1>3. 0 \in 0..DeathsIn[w] BY <1>1
<1> QED BY <1>2, <1>3 DEF BookTyped

LEMMA BookTypedStays ==
  ASSUME NEW w \in Ledgers, BookTyped(w), [Book(w)!Next]_bookVars PROVE BookTyped(w)'
<1>1. DeathsIn[w] \in Nat BY DeathsBounded
<1>2. CASE Writes(w)
  <2>1. b_crashes' = b_crashes BY <1>2, WritesLeave
  <2>2. b_may' = b_may \/ Book(w)!Import
    BY <1>2 DEF Writes, Book!RecoverOpen, Book!RecoverExit, Book!Persist, Book!TimePasses
  <2>3. Book(w)!Import => b_may' \in BOOLEAN BY DEF Book!Import, Book!CanOpen
  <2> QED BY <2>1, <2>2, <2>3 DEF BookTyped
<1>3. CASE Chains(w)
  BY <1>3 DEF Chains, Book!Lands, Book!Fails, Book!UserOpens, Book!UserCloses, BookTyped
<1>4. CASE Idles(w) BY <1>4 DEF Idles, Book!Unresolved, Book!Holds, Book!Skips, BookTyped
<1>5. CASE Forgets(w)
  <2>1. CASE Book(w)!Crash
    <3>1. b_may' = FALSE /\ b_crashes < DeathsIn[w] /\ b_crashes' = b_crashes + 1
      BY <2>1 DEF Book!Crash, Book!Forgets
    <3>2. b_crashes \in 0..DeathsIn[w] BY DEF BookTyped
    <3>3. b_crashes + 1 \in 0..DeathsIn[w] BY <1>1, <3>1, <3>2
    <3> QED BY <3>1, <3>3 DEF BookTyped
  <2>2. CASE ~Book(w)!Crash
    BY <1>5, <2>2 DEF Forgets, Book!RecoverFailed, Book!ClearRecovered, Book!Clear, Book!ReadAccount,
       Book!Forgets, BookTyped
  <2> QED BY <2>1, <2>2
<1>6. CASE Trades(w) BY <1>6 DEF Trades, Book!ExitRefused, Book!ExitSent, Book!OpenSent, BookTyped
<1>7. CASE Settles(w) BY <1>7 DEF Settles, Book!Polled, Book!AfterCycle, BookTyped
<1>8. CASE UNCHANGED bookVars BY <1>8 DEF bookVars, BookTyped
<1> QED BY <1>2, <1>3, <1>4, <1>5, <1>6, <1>7, <1>8, StepsAre

LEMMA BookTypeOK == ASSUME NEW w \in Ledgers, BookInv(w), BookTyped(w) PROVE Book(w)!TypeOK
<1>1. b_view \subseteq Book(w)!Addresses BY DEF BookInv, Chained
<1>2. b_ledger \subseteq Book(w)!Records BY DEF BookInv, AllFine, Fine
<1>3. \A o : AnOrder(w, o) => o.do \in {"none", "open", "exit"}
  BY DEF AnOrder, Book!None, Book!Order
<1>4. b_pending.do \in {"none", "open", "exit"} /\ b_order.what.do \in {"none", "open", "exit"}
  BY <1>3 DEF BookInv, Ordered
<1>5. b_chain \in [Book(w)!Addresses -> {"none", "live", "gone"}]
      /\ b_shown \in [Book(w)!Addresses -> {"none", "live", "gone"}] /\ b_opened \in 0..OpensIn[w]
  BY DEF BookInv, Chained
<1> QED BY <1>1, <1>2, <1>4, <1>5 DEF BookTyped, Book!TypeOK

-----------------------------------------------------------------------------
(* RateLimiter.                                                            *)

\* After deaths too: what a process read is inside the window, so that the oldest of a full
\* window is there to be waited for.
LimiterTyped ==
  /\ r_owner \in Workers \cup {Limiter!None} /\ r_lockAge \in 0..LockTimeout + 1
  /\ r_stamps \in Seq(0..Window) /\ r_worker \in [Workers -> PlaceStates]

LEMMA PrunedIsOfAges ==
  ASSUME NEW ages \in Seq(0..Window) PROVE Limiter!Pruned(ages) \in Seq(0..Window)
<1> DEFINE old == {i \in DOMAIN ages : ages[i] >= Window}
<1>1. Len(ages) \in Nat /\ DOMAIN ages = 1..Len(ages) BY ItemsOf
<1>2. Limiter!Cardinality(old) \in Nat
  <2>1. IsFiniteSet(1..Len(ages)) BY <1>1, FS_Interval
  <2>2. old \subseteq 1..Len(ages) BY <1>1
  <2>3. Limiter!Cardinality(old) = Cardinality(old) BY DEF Cardinality, Limiter!Cardinality
  <2> HIDE DEF old
  <2> QED BY <2>1, <2>2, <2>3, FS_Subset, FS_CardinalityType
<1>3. Limiter!Pruned(ages) = SubSeq(ages, Limiter!Cardinality(old) + 1, Len(ages))
  BY Zenon DEF Limiter!Pruned
<1> DEFINE n == Limiter!Cardinality(old)
<1> HIDE DEF old, n
<1>4. n \in Nat /\ Limiter!Pruned(ages) = SubSeq(ages, n + 1, Len(ages)) BY <1>2, <1>3 DEF n
<1>5. SubSeq(ages, n + 1, Len(ages)) \in Seq(0..Window)
  <2>1. CASE n <= Len(ages)
    <3>1. n \in 0..Len(ages) BY <1>1, <1>4, <2>1
    <3> QED BY <3>1, PartsOf
  <2>2. CASE n > Len(ages) BY <1>1, <1>4, <2>2
  <2> QED BY <2>1, <2>2, <1>1, <1>4
<1> QED BY <1>4, <1>5

LEMMA PlacesStart == \A at \in {"idle", "locking", "removing", "unlocking"} : Limiter!At(at) \in PlaceStates
BY LimiterConstants DEF Limiter!At, PlaceStates

LEMMA LimiterTypedFirst == Limiter!Init => LimiterTyped
<1> SUFFICES ASSUME Limiter!Init PROVE LimiterTyped OBVIOUS
<1>1. Limiter!Idle \in PlaceStates BY PlacesStart DEF Limiter!Idle
<1>2. r_worker \in [Workers -> PlaceStates] BY <1>1, Zenon DEF Limiter!Init
<1>3. r_owner = Limiter!None /\ r_lockAge = 0 /\ r_stamps = <<>> BY DEF Limiter!Init
<1> QED BY <1>2, <1>3, LimiterConstants DEF LimiterTyped

\* Where a step of one process takes it.
LEMMA WorkerStays ==
  ASSUME LimiterTyped, NEW p \in Workers, NEW to \in PlaceStates, Limiter!Goes(p, to),
         r_owner' \in Workers \cup {Limiter!None}, r_lockAge' \in 0..LockTimeout + 1,
         r_stamps' \in Seq(0..Window)
  PROVE LimiterTyped'
BY OneWorkerGoes DEF LimiterTyped

LEMMA WriteStateTyped ==
  ASSUME LimiterTyped, NEW p \in Workers, Limiter!WriteState(p) PROVE LimiterTyped'
<1> DEFINE read == r_worker[p].read
<1>1. read \in Seq(0..Window) BY DEF LimiterTyped, PlaceStates
<1>2. Len(read) \in Nat /\ \A i \in 1..Len(read) : read[i] \in 0..Window BY <1>1, ItemsOf
<1>3. UNCHANGED <<r_owner, r_lockAge>> BY DEF Limiter!WriteState
<1>4. CASE Limiter!HasRoom(read)
  <2>1. r_stamps' = Append(read, 0) /\ Limiter!Goes(p, Limiter!At("unlocking"))
    BY <1>4 DEF Limiter!WriteState
  <2>2. 0 \in 0..Window BY LimiterConstants
  <2> HIDE DEF read
  <2>3. Append(read, 0) \in Seq(0..Window) BY <1>1, <2>2
  <2> QED BY <1>3, <2>1, <2>3, PlacesStart, WorkerStays DEF LimiterTyped
<1>5. CASE ~Limiter!HasRoom(read)
  <2> DEFINE to == [Limiter!At("full") EXCEPT !.wait = Window - read[1]]
  <2>1. r_stamps' = read /\ Limiter!Goes(p, to) BY <1>5 DEF Limiter!WriteState
  <2> HIDE DEF read
  <2>2. 1 \in 1..Len(read) BY <1>2, <1>5, LimiterConstants DEF Limiter!HasRoom
  <2>3. read[1] \in 0..Window BY <2>2, <1>2
  <2>4. to = [at |-> "full", read |-> <<>>, wait |-> Window - read[1]] BY DEF Limiter!At
  <2>5. Window - read[1] \in 0..Window BY <2>3, LimiterConstants
  <2>6. <<>> \in Seq(0..Window) OBVIOUS
  <2>7. to \in PlaceStates BY <2>4, <2>5, <2>6, PlacesTo
  <2> HIDE DEF to
  <2> QED BY <1>1, <1>3, <2>1, <2>7, WorkerStays DEF LimiterTyped
<1> QED BY <1>4, <1>5

LEMMA LimiterTickTyped == ASSUME LimiterTyped, Limiter!Tick PROVE LimiterTyped'
<1>1. r_stamps' \in Seq(0..Window) BY OlderAges DEF Limiter!Tick, LimiterTyped
<1>2. r_owner' = r_owner BY DEF Limiter!Tick
<1>3. r_lockAge' \in 0..LockTimeout + 1
  <2>1. CASE r_owner = Limiter!None BY <2>1, LimiterConstants DEF Limiter!Tick
  <2>2. CASE r_owner # Limiter!None
    <3>1. {r_lockAge + 1, LockTimeout + 1} \in SUBSET Nat BY LimiterConstants DEF LimiterTyped
    <3> DEFINE m == Limiter!Min({r_lockAge + 1, LockTimeout + 1})
    <3>2. m \in {r_lockAge + 1, LockTimeout + 1} /\ \A n \in {r_lockAge + 1, LockTimeout + 1} : m <= n
      BY <3>1, LeastNumber DEF Limiter!Min
    <3>3. r_lockAge' = m BY <2>2 DEF Limiter!Tick
    <3> HIDE DEF m
    <3> QED BY <3>1, <3>2, <3>3, LimiterConstants
  <2> QED BY <2>1, <2>2
<1>4. ASSUME NEW n \in 0..Window PROVE Limiter!Max({0, n - 1}) \in 0..Window
  <2> DEFINE m == CHOOSE x \in {0, n - 1} : \A y \in {0, n - 1} : x >= y
  <2>1. m \in {0, n - 1} /\ m >= 0
    <3>1. \E x \in {0, n - 1} : \A y \in {0, n - 1} : x >= y
      <4>1. CASE n = 0 BY <4>1
      <4>2. CASE n # 0 BY <4>2, LimiterConstants
      <4> QED BY <4>1, <4>2
    <3> QED BY <3>1
  <2>2. Limiter!Max({0, n - 1}) = m BY DEF Limiter!Max
  <2> HIDE DEF m
  <2> QED BY <2>1, <2>2, LimiterConstants
<1>5. \A p \in Workers : r_worker'[p] = [r_worker[p] EXCEPT !.wait = Limiter!Max({0, @ - 1})]
  BY DEF Limiter!Tick
<1>6. \A p \in Workers : r_worker'[p] \in PlaceStates
  <2> TAKE p \in Workers
  <2>1. r_worker[p] \in PlaceStates BY DEF LimiterTyped
  <2>2. Limiter!Max({0, r_worker[p].wait - 1}) \in 0..Window BY <2>1, <1>4 DEF PlaceStates
  <2> QED BY <2>1, <2>2, <1>5 DEF PlaceStates
<1>7. r_worker' = [p \in Workers |-> r_worker'[p]] BY DEF Limiter!Tick
<1>8. r_worker' \in [Workers -> PlaceStates] BY <1>6, <1>7
<1> QED BY <1>1, <1>2, <1>3, <1>8 DEF LimiterTyped

LEMMA LimiterTypedStays == ASSUME LimiterTyped, [Limiter!Next]_limiterVars PROVE LimiterTyped'
<1>1. CASE Limiter!Tick BY <1>1, LimiterTickTyped
<1>2. ASSUME NEW p \in Workers, Limiter!Ask(p) \/ Limiter!FindStale(p) \/ Limiter!Retry(p) \/ Limiter!Crash(p)
      PROVE LimiterTyped'
  <2>1. PICK at \in {"idle", "locking", "removing"} : Limiter!Goes(p, Limiter!At(at))
    BY <1>2 DEF Limiter!Ask, Limiter!FindStale, Limiter!Retry, Limiter!Crash, Limiter!Idle
  <2>2. UNCHANGED <<r_owner, r_lockAge, r_stamps>>
    BY <1>2 DEF Limiter!Ask, Limiter!FindStale, Limiter!Retry, Limiter!Crash
  <2>3. Limiter!At(at) \in PlaceStates BY PlacesStart
  <2> QED BY <2>1, <2>2, <2>3, WorkerStays DEF LimiterTyped
<1>3. ASSUME NEW p \in Workers, Limiter!Lock(p) PROVE LimiterTyped'
  <2> DEFINE to == [Limiter!At("inside") EXCEPT !.read = Limiter!Pruned(r_stamps)]
  <2>1. r_owner' = p /\ r_lockAge' = 0 /\ r_stamps' = r_stamps /\ Limiter!Goes(p, to)
    BY <1>3 DEF Limiter!Lock
  <2>2. Limiter!Pruned(r_stamps) \in Seq(0..Window) BY PrunedIsOfAges DEF LimiterTyped
  <2>3. to = [at |-> "inside", read |-> Limiter!Pruned(r_stamps), wait |-> 0] BY DEF Limiter!At
  <2>4. 0 \in 0..Window /\ 0 \in 0..LockTimeout + 1 BY LimiterConstants
  <2>5. to \in PlaceStates BY <2>2, <2>3, <2>4, PlacesTo
  <2> HIDE DEF to
  <2> QED BY <2>1, <2>4, <2>5, WorkerStays DEF LimiterTyped
<1>4. ASSUME NEW p \in Workers, Limiter!RemoveStale(p) PROVE LimiterTyped'
  <2>1. r_owner' = Limiter!None /\ r_lockAge' = 0 /\ r_stamps' = r_stamps
        /\ Limiter!Goes(p, Limiter!At("locking"))
    BY <1>4 DEF Limiter!RemoveStale
  <2>2. 0 \in 0..LockTimeout + 1 BY LimiterConstants
  <2> QED BY <2>1, <2>2, PlacesStart, WorkerStays DEF LimiterTyped
<1>5. ASSUME NEW p \in Workers, Limiter!WriteState(p) PROVE LimiterTyped' BY <1>5, WriteStateTyped
<1>6. ASSUME NEW p \in Workers, Limiter!Unlock(p) PROVE LimiterTyped'
  <2> DEFINE to == IF r_worker[p].at = "full" THEN [r_worker[p] EXCEPT !.at = "asleep"] ELSE Limiter!Idle
  <2>1. r_owner' = Limiter!None /\ r_lockAge' = 0 /\ r_stamps' = r_stamps /\ Limiter!Goes(p, to)
    BY <1>6 DEF Limiter!Unlock
  <2>2. [r_worker[p] EXCEPT !.at = "asleep"] \in PlaceStates BY DEF LimiterTyped, PlaceStates
  <2>3. to \in PlaceStates BY <2>2, PlacesStart DEF Limiter!Idle
  <2>4. 0 \in 0..LockTimeout + 1 BY LimiterConstants
  <2> HIDE DEF to
  <2> QED BY <2>1, <2>3, <2>4, WorkerStays DEF LimiterTyped
<1>7. CASE UNCHANGED limiterVars BY <1>7 DEF limiterVars, LimiterTyped
<1> QED BY <1>1, <1>2, <1>3, <1>4, <1>5, <1>6, <1>7 DEF Limiter!Next, Limiter!Step

LEMMA LimiterTypeOK == LimiterTyped => Limiter!TypeOK
BY DEF LimiterTyped, Limiter!TypeOK, PlaceStates

-----------------------------------------------------------------------------
(* Mirror.                                                                 *)

\* The events of a line of a journal or of none, the lines, and the buffers of such events.
OwnEvents ==
  {e \in AnyEvents : /\ e.version >= 0 /\ e.line <= MaxLines
                     /\ e.from = "catchup" => e.line > 0
                     /\ e.kind = "snapshots" => e.line = 0}
Places == Mirror!Journals \X (1..MaxLines)
HeldBuffers ==
  {b \in Buffers : b.queue \in Seq(OwnEvents) /\ Len(b.queue) <= BufferSize /\ b.lost \in SUBSET Places}
Healths == [state : {"healthy", "degraded", "open"}, streak : Nat, cooling : BOOLEAN]

\* A streak of failures is no longer than the failures there have been.
FlushTyped ==
  /\ Mirror!Now \in HeldBuffers /\ m_mirrored \in SUBSET Places
  /\ m_failures \in 0..MaxFailures /\ m_health \in Healths /\ m_health.streak <= m_failures
MirrorTyped ==
  /\ FlushTyped /\ Mirror!Lines <= MaxLines /\ m_daemon \in {"tick", "replay", "flush"}

LEMMA MirrorBounds ==
  /\ MaxLines \in Nat /\ MaxFailures \in Nat /\ BufferSize \in Nat /\ Threshold \in Nat
BY RecordConstants DEF Mirror!MirrorAssumption

LEMMA OwnLine == ASSUME NEW e \in OwnEvents PROVE Mirror!LinesOf({e}) \in SUBSET Places
<1>1. e.line \in Nat /\ e.line <= MaxLines /\ e.kind \in Mirror!Journals \cup {"snapshots"}
      /\ (e.kind = "snapshots" => e.line = 0)
  BY DEF OwnEvents, AnyEvents
<1>2. e.line > 0 => e.kind \in Mirror!Journals /\ e.line \in 1..MaxLines BY <1>1, MirrorBounds
<1> QED BY <1>2 DEF Mirror!LinesOf, Places

LEMMA OwnLines == ASSUME NEW q \in Seq(OwnEvents) PROVE Mirror!LinesOf(Mirror!Range(q)) \in SUBSET Places
<1>1. DOMAIN q = 1..Len(q) /\ \A i \in 1..Len(q) : q[i] \in OwnEvents BY ItemsOf
<1>2. Mirror!Range(q) \subseteq OwnEvents BY <1>1 DEF Mirror!Range
<1>3. ASSUME NEW l \in Mirror!LinesOf(Mirror!Range(q)) PROVE l \in Places
  <2>1. PICK f \in Mirror!Range(q) : f.line > 0 /\ l = <<f.kind, f.line>> BY DEF Mirror!LinesOf
  <2>2. l \in Mirror!LinesOf({f}) BY <2>1 DEF Mirror!LinesOf
  <2> QED BY <1>2, <2>2, OwnLine
<1> QED BY <1>3

LEMMA EnqueueHeld ==
  ASSUME NEW b \in HeldBuffers, NEW e \in OwnEvents PROVE Mirror!Enqueue(b, e) \in HeldBuffers
<1> DEFINE q == b.queue
           r == Mirror!Enqueue(b, e)
           lowest == {i \in DOMAIN q : /\ Mirror!Rank(q[i]) < Mirror!Rank(e)
                                       /\ \A h \in DOMAIN q : Mirror!Rank(q[i]) <= Mirror!Rank(q[h])}
           i == Mirror!Min(lowest)
<1>1. b \in Buffers /\ q \in Seq(OwnEvents) /\ Len(q) <= BufferSize /\ b.lost \in SUBSET Places
  BY DEF HeldBuffers
<1>2. OwnEvents \in SUBSET AnyEvents /\ e \in AnyEvents
      /\ \A f \in OwnEvents : f.from = "catchup" => f.line > 0
  BY DEF OwnEvents
<1>3. r \in Buffers BY <1>1, <1>2, EnqueueKeeps
<1>4. r.queue \in Seq(OwnEvents) BY <1>1, <1>2, NothingLost
<1>5. Len(q) \in Nat /\ DOMAIN q = 1..Len(q) /\ \A k \in 1..Len(q) : q[k] \in OwnEvents
  BY <1>1, ItemsOf
<1>6. Len(r.queue) <= BufferSize /\ r.lost \in SUBSET Places
  <2>1. CASE Len(q) < BufferSize
    <3>1. r = [queue |-> Append(q, e), dropped |-> b.dropped, lost |-> b.lost]
      BY <2>1 DEF Mirror!Enqueue, Mirror!Buffer
    <3>2. r.queue = Append(q, e) /\ r.lost = b.lost BY <3>1
    <3> HIDE DEF r, q
    <3>3. Len(Append(q, e)) = Len(q) + 1 BY <1>1
    <3> QED BY <1>1, <1>5, <2>1, <3>2, <3>3, MirrorBounds
  <2>2. CASE ~ Len(q) < BufferSize /\ lowest = {}
    <3>1. r = [queue |-> q, dropped |-> TRUE, lost |-> b.lost \cup Mirror!LinesOf({e})]
      BY <2>2 DEF Mirror!Enqueue, Mirror!Buffer
    <3>2. r.queue = q /\ r.lost = b.lost \cup Mirror!LinesOf({e}) BY <3>1
    <3>3. Mirror!LinesOf({e}) \in SUBSET Places BY OwnLine
    <3> HIDE DEF r, q
    <3> QED BY <1>1, <3>2, <3>3
  <2>3. CASE ~ Len(q) < BufferSize /\ lowest # {}
    <3>1. i \in lowest
      <4>1. lowest \in SUBSET Nat BY <1>5
      <4> HIDE DEF lowest
      <4> QED BY <2>3, <4>1, LeastNumber DEF Mirror!Min
    <3>2. i \in 1..Len(q) BY <1>5, <3>1
    <3> DEFINE front == SubSeq(q, 1, i - 1)
               back == SubSeq(q, i + 1, Len(q))
    <3>3. r = [queue |-> Append(front \o back, e), dropped |-> TRUE,
          lost |-> b.lost \cup Mirror!LinesOf({q[i]})]
      BY <2>3, Zenon DEF Mirror!Enqueue, Mirror!Buffer
    <3> HIDE DEF i
    <3>4. /\ front \in Seq(OwnEvents) /\ back \in Seq(OwnEvents)
          /\ Len(front) = i - 1 /\ Len(back) = Len(q) - i
      <4>1. i - 1 \in 0..Len(q) /\ i \in 0..Len(q) BY <1>5, <3>2
      <4> QED BY <1>1, <4>1, PartsOf
    <3> HIDE DEF front, back
    <3>5. Len(Append(front \o back, e)) = Len(q)
      <4>1. front \o back \in Seq(OwnEvents) /\ Len(front \o back) = Len(q) - 1
        BY <1>5, <3>2, <3>4
      <4>2. Len(Append(front \o back, e)) = Len(front \o back) + 1 BY <4>1
      <4> QED BY <1>5, <4>1, <4>2
    <3>6. r.queue = Append(front \o back, e) /\ r.lost = b.lost \cup Mirror!LinesOf({q[i]}) BY <3>3
    <3>7. Mirror!LinesOf({q[i]}) \in SUBSET Places BY <1>5, <3>2, OwnLine
    <3> HIDE DEF r, q
    <3> QED BY <1>1, <3>5, <3>6, <3>7
  <2> QED BY <2>1, <2>2, <2>3
<1> HIDE DEF r
<1>7. r \in HeldBuffers BY <1>3, <1>4, <1>6 DEF HeldBuffers
<1> QED BY <1>7 DEF r

LEMMA FlushHeld ==
  ASSUME NEW b \in HeldBuffers, m_mirrored \in SUBSET Places, Mirror!FlushOnce(b)
  PROVE Mirror!Now' \in HeldBuffers /\ m_mirrored' \in SUBSET Places
<1> DEFINE q == b.queue
           n == Mirror!Min({BatchSize, Len(q)})
           front == SubSeq(q, 1, n)
           back == SubSeq(q, n + 1, Len(q))
<1>1. b \in Buffers /\ q \in Seq(OwnEvents) /\ Len(q) <= BufferSize /\ b.lost \in SUBSET Places
  BY DEF HeldBuffers
<1>2. OwnEvents \in SUBSET AnyEvents BY DEF OwnEvents
<1>3. Mirror!Now' \in Buffers BY <1>1, FlushKeeps
<1>4. m_lost' = b.lost /\ m_queue' \in Seq(OwnEvents) BY <1>1, <1>2, FlushBrings
<1>5. Len(q) \in Nat BY <1>1, ItemsOf
<1>6. Len(m_queue') <= BufferSize /\ m_mirrored' \in SUBSET Places
  <2>1. CASE Mirror!Becomes(b) /\ UNCHANGED m_mirrored BY <1>1, <2>1 DEF Mirror!Becomes
  <2>2. CASE Mirror!Write(front) /\ Mirror!Becomes(Mirror!Buffer(back, b.dropped, b.lost))
    <3>1. n \in 0..Len(q)
      <4>1. {BatchSize, Len(q)} \in SUBSET Nat BY <1>5, MirrorConstants
      <4>2. n \in {BatchSize, Len(q)} /\ \A m \in {BatchSize, Len(q)} : n <= m
        BY <4>1, LeastNumber DEF Mirror!Min
      <4> HIDE DEF n
      <4> QED BY <1>5, <4>2, MirrorConstants
    <3>2. m_queue' = back /\ m_mirrored' = m_mirrored \cup Mirror!LinesOf(Mirror!Range(front))
      BY <2>2 DEF Mirror!Becomes, Mirror!Buffer, Mirror!Write
    <3> HIDE DEF n
    <3>3. front \in Seq(OwnEvents) /\ Len(back) = Len(q) - n BY <1>1, <3>1, PartsOf
    <3>4. Mirror!LinesOf(Mirror!Range(front)) \in SUBSET Places BY <3>3, OwnLines
    <3> HIDE DEF front, back, q
    <3> QED BY <1>1, <1>5, <3>1, <3>2, <3>3, <3>4, MirrorBounds
  <2> QED BY <2>1, <2>2, Zenon DEF Mirror!FlushOnce
<1>7. Mirror!Now'.queue = m_queue' /\ Mirror!Now'.lost = m_lost' BY DEF Mirror!Now, Mirror!Buffer
<1> QED BY <1>1, <1>3, <1>4, <1>6, <1>7 DEF HeldBuffers

\* The breaker.
LEMMA FlushHealth ==
  ASSUME m_failures \in 0..MaxFailures, m_health \in Healths, m_health.streak <= m_failures,
         NEW b, Mirror!FlushOnce(b)
  PROVE m_failures' \in 0..MaxFailures /\ m_health' \in Healths /\ m_health'.streak <= m_failures'
<1>1. Mirror!Healthy \in Healths /\ Mirror!Healthy.streak = 0 BY DEF Mirror!Healthy, Healths
<1>2. m_failures \in Nat /\ m_health.streak \in Nat BY MirrorBounds DEF Healths
<1>3. CASE UNCHANGED <<m_health, m_failures>> BY <1>3
<1>4. CASE m_health' \in Mirror!Pruned /\ UNCHANGED m_failures
  <2>1. \A s \in {"healthy", "degraded"} :
          [m_health EXCEPT !.state = s] \in Healths /\ [m_health EXCEPT !.state = s].streak = m_health.streak
    BY DEF Healths
  <2>2. m_health' \in Healths /\ m_health'.streak = m_health.streak BY <1>4, <2>1 DEF Mirror!Pruned
  <2> QED BY <1>4, <2>2
<1>5. CASE m_health' = Mirror!AfterWrite(b) /\ UNCHANGED m_failures
  <2>1. [Mirror!Healthy EXCEPT !.state = "degraded"] \in Healths
        /\ [Mirror!Healthy EXCEPT !.state = "degraded"].streak = 0
    BY <1>1 DEF Healths
  <2>2. m_health' \in Healths /\ m_health'.streak = 0 BY <1>1, <1>5, <2>1 DEF Mirror!AfterWrite
  <2> QED BY <1>2, <1>5, <2>2
<1>6. CASE /\ m_failures < MaxFailures /\ m_failures' = m_failures + 1
           /\ m_health' = Mirror!AfterFailure
  <2> DEFINE more == m_health.streak + 1
  <2>1. more \in Nat /\ more <= m_failures + 1 BY <1>2
  <2>2. m_failures' \in 0..MaxFailures BY <1>6, <1>2, MirrorBounds
  <2>3. m_health' = IF more >= Threshold THEN [state |-> "open", streak |-> more, cooling |-> TRUE]
                    ELSE [m_health EXCEPT !.state = "degraded", !.streak = more]
    BY <1>6 DEF Mirror!AfterFailure
  <2> HIDE DEF more
  <2>4. [state |-> "open", streak |-> more, cooling |-> TRUE] \in Healths BY <2>1 DEF Healths
  <2>5. [m_health EXCEPT !.state = "degraded", !.streak = more] \in Healths
        /\ [m_health EXCEPT !.state = "degraded", !.streak = more].streak = more
    BY <2>1 DEF Healths
  <2>6. m_health' \in Healths /\ m_health'.streak = more BY <2>3, <2>4, <2>5
  <2> QED BY <1>6, <2>1, <2>2, <2>6
<1> QED BY <1>3, <1>4, <1>5, <1>6, Zenon DEF Mirror!FlushOnce

LEMMA FlushedIsTyped ==
  ASSUME FlushTyped, NEW b \in HeldBuffers, Mirror!FlushOnce(b) PROVE FlushTyped'
<1>1. Mirror!Now' \in HeldBuffers /\ m_mirrored' \in SUBSET Places BY FlushHeld DEF FlushTyped
<1>2. m_failures' \in 0..MaxFailures /\ m_health' \in Healths /\ m_health'.streak <= m_failures'
  BY FlushHealth DEF FlushTyped
<1> QED BY <1>1, <1>2 DEF FlushTyped

\* An append adds a line at most.
LEMMA AppendLines ==
  ASSUME MirrorTypes, Mirror!Lines < MaxLines, NEW j \in Mirror!Journals, NEW v \in Int,
         m_journal' = Mirror!Appended(j, v)
  PROVE Mirror!Lines' <= MaxLines /\ Len(m_journal'[j]) \in 0..MaxLines
<1> DEFINE last == Len(m_journal[j])
<1>1. /\ m_journal \in [Mirror!Journals -> Seq(Int)] /\ m_journal[j] \in Seq(Int) /\ last \in Nat
      /\ \A k \in Mirror!Journals : Len(m_journal[k]) \in Nat
  BY ItemsOf DEF MirrorTypes
<1>2. Len(m_journal'[j]) \in last..last + 1 /\ \A k \in Mirror!Journals : k # j => m_journal'[k] = m_journal[k]
  <2>1. CASE last > 0 /\ m_journal[j][last] = Mirror!Torn
    <3> DEFINE s == [m_journal[j] EXCEPT ![last] = Mirror!Unreadable]
    <3>1. m_journal' = [m_journal EXCEPT ![j] = s] BY <2>1, <1>1 DEF Mirror!Appended
    <3>2. Len(s) = last BY <1>1, <2>1 DEF Mirror!Unreadable
    <3> HIDE DEF s
    <3>3. m_journal'[j] = s /\ \A k \in Mirror!Journals : k # j => m_journal'[k] = m_journal[k]
      BY <1>1, <3>1
    <3> QED BY <1>1, <3>2, <3>3
  <2>2. CASE ~ (last > 0 /\ m_journal[j][last] = Mirror!Torn)
    <3> DEFINE s == Append(m_journal[j], v)
    <3>1. m_journal' = [m_journal EXCEPT ![j] = s] BY <2>2 DEF Mirror!Appended
    <3>2. Len(s) = last + 1 BY <1>1
    <3> HIDE DEF s
    <3>3. m_journal'[j] = s /\ \A k \in Mirror!Journals : k # j => m_journal'[k] = m_journal[k]
      BY <1>1, <3>1
    <3> QED BY <1>1, <3>2, <3>3
  <2> QED BY <2>1, <2>2
<1>3. Len(m_journal["orders"]) \in Nat /\ Len(m_journal["incidents"]) \in Nat
      /\ Len(m_journal["orders"]) + Len(m_journal["incidents"]) < MaxLines
  BY <1>1 DEF Mirror!Lines, Mirror!Journals
<1> DEFINE len == Len(m_journal'[j])
           orders == Len(m_journal["orders"])
           incidents == Len(m_journal["incidents"])
<1>4. len \in last..last + 1 /\ orders \in Nat /\ incidents \in Nat /\ orders + incidents < MaxLines
  BY <1>2, <1>3
<1>5. CASE j = "orders"
  <2>1. Len(m_journal'["incidents"]) = incidents /\ last = orders BY <1>2, <1>5 DEF Mirror!Journals
  <2>2. Mirror!Lines' = len + incidents BY <1>5, <2>1 DEF Mirror!Lines
  <2> HIDE DEF len, last, orders, incidents
  <2>3. len + incidents <= MaxLines /\ len \in 0..MaxLines BY <1>4, <2>1, MirrorBounds
  <2> QED BY <2>2, <2>3 DEF len
<1>6. CASE j = "incidents"
  <2>1. Len(m_journal'["orders"]) = orders /\ last = incidents BY <1>2, <1>6 DEF Mirror!Journals
  <2>2. Mirror!Lines' = orders + len BY <1>6, <2>1 DEF Mirror!Lines
  <2> HIDE DEF len, last, orders, incidents
  <2>3. orders + len <= MaxLines /\ len \in 0..MaxLines BY <1>4, <2>1, MirrorBounds
  <2> QED BY <2>2, <2>3 DEF len
<1> QED BY <1>5, <1>6 DEF Mirror!Journals

LEMMA LinesWithin ==
  ASSUME MirrorTypes, Mirror!Lines <= MaxLines, NEW j \in Mirror!Journals
  PROVE Len(m_journal[j]) \in 0..MaxLines
<1>1. \A k \in Mirror!Journals : Len(m_journal[k]) \in Nat BY ItemsOf DEF MirrorTypes
<1>2. Len(m_journal["orders"]) \in Nat /\ Len(m_journal["incidents"]) \in Nat
      /\ Len(m_journal["orders"]) + Len(m_journal["incidents"]) <= MaxLines
  BY <1>1 DEF Mirror!Lines, Mirror!Journals
<1>3. Len(m_journal["orders"]) \in 0..MaxLines /\ Len(m_journal["incidents"]) \in 0..MaxLines
  <2> DEFINE orders == Len(m_journal["orders"])
             incidents == Len(m_journal["incidents"])
  <2>1. orders \in Nat /\ incidents \in Nat /\ orders + incidents <= MaxLines BY <1>2
  <2> HIDE DEF orders, incidents
  <2>2. orders \in 0..MaxLines /\ incidents \in 0..MaxLines BY <2>1, MirrorBounds
  <2> QED BY <2>2 DEF orders, incidents
<1> QED BY <1>3 DEF Mirror!Journals

LEMMA MirrorTypedFirst == Mirror!Init => MirrorTyped
<1> SUFFICES ASSUME Mirror!Init PROVE MirrorTyped OBVIOUS
<1>1. Mirror!Now = [queue |-> <<>>, dropped |-> FALSE, lost |-> {}]
  BY DEF Mirror!Init, Mirror!Now, Mirror!Buffer
<1>2. Mirror!Now \in Buffers BY MirrorStarts DEF MirrorInv, MirrorTypes
<1>3. <<>> \in Seq(OwnEvents) /\ Len(<<>>) <= BufferSize BY MirrorBounds
<1>4. Mirror!Now.queue = <<>> /\ Mirror!Now.lost = {} BY <1>1
<1>5. Mirror!Now \in HeldBuffers BY <1>2, <1>3, <1>4 DEF HeldBuffers
<1>6. Mirror!Healthy \in Healths /\ Mirror!Healthy.streak = 0 BY DEF Mirror!Healthy, Healths
<1>7. m_health = Mirror!Healthy /\ m_failures = 0 /\ m_mirrored = {} /\ m_daemon = "tick"
  BY DEF Mirror!Init
<1>8. FlushTyped BY <1>5, <1>6, <1>7, MirrorBounds DEF FlushTyped
<1>9. Mirror!Lines <= MaxLines
  <2>1. m_journal["orders"] = <<>> /\ m_journal["incidents"] = <<>> BY DEF Mirror!Init, Mirror!Journals
  <2> QED BY <2>1, MirrorBounds DEF Mirror!Lines
<1> QED BY <1>7, <1>8, <1>9 DEF MirrorTyped

\* A step that enqueues one event.
LEMMA EnqueueTyped ==
  ASSUME MirrorTyped, NEW e \in OwnEvents, Mirror!Becomes(Mirror!Enqueue(Mirror!Now, e)),
         UNCHANGED <<m_mirrored, m_health, m_failures>>
  PROVE FlushTyped'
<1> DEFINE b == Mirror!Enqueue(Mirror!Now, e)
<1>1. b \in HeldBuffers BY EnqueueHeld DEF MirrorTyped, FlushTyped
<1>2. b = [queue |-> b.queue, dropped |-> b.dropped, lost |-> b.lost] BY <1>1 DEF HeldBuffers, Buffers
<1> HIDE DEF b
<1>3. Mirror!Now' = b BY <1>2 DEF Mirror!Becomes, Mirror!Now, Mirror!Buffer, b
<1> QED BY <1>1, <1>3 DEF MirrorTyped, FlushTyped

LEMMA RecordTyped ==
  ASSUME MirrorTypes, MirrorTyped, NEW j \in Mirror!Journals, Mirror!Record(j) PROVE MirrorTyped'
<1> DEFINE v == Mirror!Upcoming(j)
           grown == Mirror!Appended(j, v)
           last == Len(grown[j])
           at == IF grown[j][last] = v THEN last ELSE 0
           e == Mirror!Event("live", j, at, v)
<1>1. m_version \in Nat /\ v \in Nat BY DEF MirrorTypes, Mirror!Upcoming
<1>2. m_journal' = grown /\ Mirror!Lines < MaxLines /\ m_daemon = "tick" /\ m_daemon' = m_daemon
      /\ UNCHANGED <<m_mirrored, m_health, m_failures>> /\ Mirror!Becomes(Mirror!Enqueue(Mirror!Now, e))
  BY DEF Mirror!Record, Mirror!bounds
<1> HIDE DEF v
<1>3. Mirror!Lines' <= MaxLines /\ last \in 0..MaxLines BY <1>1, <1>2, AppendLines
<1> HIDE DEF grown, last
<1>4. at \in Nat /\ at <= MaxLines BY <1>3, MirrorBounds
<1> HIDE DEF at
<1>5. e \in OwnEvents
  <2>1. e \in AnyEvents BY <1>1, <1>4 DEF Mirror!Event, AnyEvents
  <2>2. e.version = v /\ e.line = at /\ e.from = "live" /\ e.kind = j BY DEF Mirror!Event
  <2>3. j # "snapshots" BY DEF Mirror!Journals
  <2> QED BY <1>1, <1>4, <2>1, <2>2, <2>3 DEF OwnEvents
<1> HIDE DEF e
<1>6. FlushTyped' BY <1>2, <1>5, EnqueueTyped
<1> QED BY <1>2, <1>3, <1>6 DEF MirrorTyped

LEMMA NoLine ==
  ASSUME NEW kind \in Mirror!Journals \cup {"snapshots"}, NEW v \in Nat
  PROVE Mirror!Event("live", kind, 0, v) \in OwnEvents
<1> DEFINE e == Mirror!Event("live", kind, 0, v)
<1>1. e \in AnyEvents BY DEF Mirror!Event, AnyEvents
<1>2. e.version = v /\ e.line = 0 /\ e.from = "live" BY DEF Mirror!Event
<1> HIDE DEF e
<1>3. e \in OwnEvents BY <1>1, <1>2, MirrorBounds DEF OwnEvents
<1> QED BY <1>3 DEF e

LEMMA ReplayTyped ==
  ASSUME MirrorInv, MirrorTyped, Mirror!ReplayJournal PROVE MirrorTyped'
<1> DEFINE j == Head(m_replay.todo)
           to == Mirror!Reach(j)
           lines == Mirror!Unseen(j, to)
           b == Filled(j, lines)[lines]
           good == [s \in SUBSET lines |-> HeldBuffers]
           filled == Filled(j, lines)
<1>1. MirrorTypes /\ ReplayIsAhead BY DEF MirrorInv, Mirror!ReplayJournal
<1>2. m_replay.todo \in Seq(Mirror!Journals) /\ m_replay.todo # <<>>
  BY <1>1 DEF ReplayIsAhead, Mirror!ReplayJournal, Mirror!Exhausted
<1>3. j \in Mirror!Journals BY <1>2
<1>4. Mirror!Becomes(b) /\ UNCHANGED <<m_journal, m_mirrored, m_health, m_failures, m_daemon>>
  BY ReplayFills DEF Mirror!ReplayJournal, Mirror!disk, Mirror!bounds
<1> HIDE DEF j
<1>5. to \in Nat /\ to <= Len(m_journal[j]) BY <1>1, <1>3, ReachBounds
<1>6. Len(m_journal[j]) \in 0..MaxLines BY <1>1, <1>3, LinesWithin DEF MirrorTyped
<1> HIDE DEF to
<1>7. /\ lines \in SUBSET (1..to) /\ IsFiniteSet(lines)
      /\ \A i \in lines : CatchUp(j, i) \in AnyEvents
      /\ \A s \in SUBSET lines : s # {} => Mirror!Max(s) \in s
  BY <1>1, <1>3, <1>5, ReplayLines
<1>8. \A i \in lines : CatchUp(j, i) \in OwnEvents
  <2> TAKE i \in lines
  <2>1. i \in 1..to /\ CatchUp(j, i) \in AnyEvents BY <1>7
  <2>2. i > 0 /\ i <= MaxLines BY <1>5, <1>6, <2>1, MirrorBounds
  <2>3. m_journal[j][i] > 0 BY DEF Mirror!Unseen, Mirror!Readable
  <2> DEFINE e == CatchUp(j, i)
  <2>4. e.line = i /\ e.version = m_journal[j][i] /\ e.kind = j BY DEF CatchUp, Mirror!Event
  <2>5. j # "snapshots" BY <1>3 DEF Mirror!Journals
  <2>6. e.version \in Int BY <2>1 DEF AnyEvents
  <2> HIDE DEF e
  <2>7. e.version >= 0 BY <2>3, <2>4, <2>6
  <2>8. e \in OwnEvents BY <2>1, <2>2, <2>4, <2>5, <2>7 DEF OwnEvents, e
  <2> QED BY <2>8 DEF e
<1>9. /\ filled[{}] = Mirror!Now
      /\ \A s \in SUBSET lines : s # {} =>
           filled[s] = Mirror!Enqueue(filled[s \ {Mirror!Max(s)}], CatchUp(j, Mirror!Max(s)))
  BY <1>1, <1>3, <1>5, FilledByLine
<1> HIDE DEF filled, lines
<1>10. filled[{}] \in good[{}] BY <1>9 DEF MirrorTyped, FlushTyped
<1>11. ASSUME NEW s \in SUBSET lines, s # {}
       PROVE \E x \in s : filled[s \ {x}] \in good[s \ {x}] => filled[s] \in good[s]
  <2> DEFINE x == Mirror!Max(s)
             d == filled[s \ {x}]
  <2>1. x \in s BY <1>7, <1>11
  <2>2. filled[s] = Mirror!Enqueue(d, CatchUp(j, x)) BY <1>9, <1>11
  <2> SUFFICES ASSUME d \in good[s \ {x}] PROVE filled[s] \in good[s] BY <2>1
  <2>3. s \ {x} \in SUBSET lines OBVIOUS
  <2> HIDE DEF x, d
  <2>4. d \in HeldBuffers BY <2>3
  <2>5. Mirror!Enqueue(d, CatchUp(j, x)) \in HeldBuffers BY <1>8, <2>1, <2>4, EnqueueHeld
  <2> QED BY <2>2, <2>5
<1>12. \A s \in SUBSET lines : filled[s] \in good[s]
  <2> HIDE DEF good
  <2> QED BY <1>7, <1>10, <1>11, FoldStays
<1>13. b \in HeldBuffers BY <1>12 DEF filled
<1>14. b = [queue |-> b.queue, dropped |-> b.dropped, lost |-> b.lost] BY <1>13 DEF HeldBuffers, Buffers
<1> HIDE DEF b
<1>15. Mirror!Now' = b BY <1>4, <1>14 DEF Mirror!Becomes, Mirror!Now, Mirror!Buffer
<1>16. FlushTyped' BY <1>4, <1>13, <1>15 DEF MirrorTyped, FlushTyped
<1> QED BY <1>4, <1>16 DEF MirrorTyped, Mirror!Lines

LEMMA RestartTyped ==
  ASSUME MirrorInv, MirrorTyped, Mirror!Restart PROVE MirrorTyped'
<1>1. MirrorTypes /\ m_version \in Nat /\ Mirror!Now \in HeldBuffers
  BY DEF MirrorInv, MirrorTypes, MirrorTyped, FlushTyped
<1>2. Mirror!Lines' <= MaxLines
  <2>1. CASE UNCHANGED <<m_journal, m_version>> BY <2>1 DEF MirrorTyped, Mirror!Lines
  <2>2. CASE \E j \in Mirror!Journals : \E v \in {Mirror!Torn, Mirror!Upcoming(j)} :
               Mirror!Lines < MaxLines /\ m_journal' = Mirror!Appended(j, v)
    <3>1. PICK j \in Mirror!Journals : \E v \in {Mirror!Torn, Mirror!Upcoming(j)} :
               Mirror!Lines < MaxLines /\ m_journal' = Mirror!Appended(j, v)
      BY <2>2
    <3>2. PICK v \in {Mirror!Torn, Mirror!Upcoming(j)} :
               Mirror!Lines < MaxLines /\ m_journal' = Mirror!Appended(j, v)
      BY <3>1
    <3>3. v \in Int BY <1>1 DEF Mirror!Torn, Mirror!Upcoming
    <3> QED BY <1>1, <3>2, <3>3, AppendLines
  <2> QED BY <2>1, <2>2 DEF Mirror!Restart
<1> DEFINE behind == {l \in Mirror!LinesOf(Mirror!Range(m_queue)) : l[2] <= m_cursor[l[1]]}
<1>3. m_queue \in Seq(OwnEvents) /\ m_lost \in SUBSET Places
  BY <1>1 DEF Mirror!Now, Mirror!Buffer, HeldBuffers
<1>4. Mirror!LinesOf(Mirror!Range(m_queue)) \in SUBSET Places BY <1>3, OwnLines
<1>5. m_lost' = m_lost \cup behind /\ m_queue' = <<>> /\ m_dropped' = FALSE /\ m_health' = Mirror!Healthy
      /\ UNCHANGED <<m_mirrored, m_failures>> /\ m_daemon' = "tick"
  BY DEF Mirror!Restart
<1>6. m_lost' \in SUBSET Places BY <1>3, <1>4, <1>5
<1>7. Mirror!Now' \in HeldBuffers
  <2>1. Mirror!Now' \in Buffers BY RestartStep DEF MirrorInv, MirrorTypes
  <2>2. Mirror!Now'.queue = <<>> /\ Mirror!Now'.lost = m_lost' BY <1>5 DEF Mirror!Now, Mirror!Buffer
  <2>3. <<>> \in Seq(OwnEvents) /\ Len(<<>>) <= BufferSize BY MirrorBounds
  <2>4. Mirror!Now'.queue \in Seq(OwnEvents) /\ Len(Mirror!Now'.queue) <= BufferSize
        /\ Mirror!Now'.lost \in SUBSET Places
    BY <1>6, <2>2, <2>3
  <2> QED BY <2>1, <2>4 DEF HeldBuffers
<1>8. Mirror!Healthy \in Healths /\ Mirror!Healthy.streak = 0 BY DEF Mirror!Healthy, Healths
<1>9. FlushTyped' BY <1>5, <1>7, <1>8 DEF MirrorTyped, FlushTyped
<1> QED BY <1>2, <1>5, <1>9 DEF MirrorTyped

LEMMA MirrorTypedStays ==
  ASSUME MirrorInv, MirrorTyped, [Mirror!Next]_mirrorVars PROVE MirrorTyped'
<1>1. MirrorTypes /\ FlushTyped /\ Mirror!Now \in HeldBuffers BY DEF MirrorInv, MirrorTyped, FlushTyped
<1>2. CASE \E j \in Mirror!Journals : Mirror!Record(j) BY <1>1, <1>2, RecordTyped
<1>3. CASE Mirror!EnqueueRecovered
  <2> DEFINE e == Mirror!Event("live", "orders", 0, m_version')
  <2>1. m_version' \in Nat /\ Mirror!Becomes(Mirror!Enqueue(Mirror!Now, e))
        /\ UNCHANGED <<m_journal, m_mirrored, m_health, m_failures, m_daemon>>
    BY <1>1, <1>3 DEF Mirror!EnqueueRecovered, Mirror!disk, Mirror!bounds, MirrorTypes
  <2>2. e \in OwnEvents BY <2>1, NoLine DEF Mirror!Journals
  <2> HIDE DEF e
  <2>3. FlushTyped' BY <2>1, <2>2, EnqueueTyped
  <2> QED BY <2>1, <2>3 DEF MirrorTyped, Mirror!Lines
<1>4. CASE Mirror!Report
  <2> DEFINE e == Mirror!Event("live", "snapshots", 0, 0)
  <2>1. e \in OwnEvents BY NoLine
  <2>2. Mirror!FlushOnce(Mirror!Enqueue(Mirror!Now, e)) /\ m_journal' = m_journal
        /\ m_daemon' \in {"tick", "replay"}
    BY <1>4 DEF Mirror!Report
  <2> HIDE DEF e
  <2>3. Mirror!Enqueue(Mirror!Now, e) \in HeldBuffers BY <1>1, <2>1, EnqueueHeld
  <2>4. FlushTyped' BY <1>1, <2>2, <2>3, FlushedIsTyped
  <2> QED BY <2>2, <2>4 DEF MirrorTyped, Mirror!Lines
<1>5. CASE Mirror!ReplayJournal BY <1>5, ReplayTyped
<1>6. CASE Mirror!SaveCursor
  <2>1. UNCHANGED <<m_journal, m_mirrored, m_queue, m_dropped, m_lost, m_health, m_failures>>
        /\ m_daemon' \in {"flush", "tick"}
    BY <1>6 DEF Mirror!SaveCursor, Mirror!buffer, Mirror!bounds
  <2>2. Mirror!Now' = Mirror!Now BY <2>1 DEF Mirror!Now, Mirror!Buffer
  <2> QED BY <2>1, <2>2 DEF MirrorTyped, FlushTyped, Mirror!Lines
<1>7. CASE Mirror!FlushReplayed \/ Mirror!TimerFlush
  <2>1. Mirror!FlushOnce(Mirror!Now) /\ m_journal' = m_journal
        /\ (m_daemon' = m_daemon \/ m_daemon' = "tick")
    BY <1>7 DEF Mirror!FlushReplayed, Mirror!TimerFlush
  <2>2. FlushTyped' BY <1>1, <2>1, FlushedIsTyped
  <2> QED BY <2>1, <2>2 DEF MirrorTyped, Mirror!Lines
<1>8. CASE Mirror!CooldownEnds
  <2>1. m_health' = [m_health EXCEPT !.cooling = FALSE]
        /\ UNCHANGED <<m_journal, m_mirrored, m_queue, m_dropped, m_lost, m_failures, m_daemon>>
    BY <1>8 DEF Mirror!CooldownEnds, Mirror!disk, Mirror!buffer, Mirror!bounds
  <2>2. m_health' \in Healths /\ m_health'.streak = m_health.streak BY <1>1, <2>1 DEF FlushTyped, Healths
  <2>3. Mirror!Now' = Mirror!Now BY <2>1 DEF Mirror!Now, Mirror!Buffer
  <2> QED BY <2>1, <2>2, <2>3 DEF MirrorTyped, FlushTyped, Mirror!Lines
<1>9. CASE Mirror!Restart BY <1>9, RestartTyped
<1>10. CASE UNCHANGED mirrorVars
  <2>1. Mirror!Now' = Mirror!Now BY <1>10 DEF mirrorVars, Mirror!Now, Mirror!Buffer
  <2> QED BY <1>10, <2>1 DEF mirrorVars, MirrorTyped, FlushTyped, Mirror!Lines
<1> QED BY <1>2, <1>3, <1>4, <1>5, <1>6, <1>7, <1>8, <1>9, <1>10 DEF Mirror!Next, Mirror!Daemon

LEMMA MirrorTypeOK == MirrorInv /\ RowInv /\ MirrorTyped => Mirror!TypeOK
<1> SUFFICES ASSUME MirrorInv, RowInv, MirrorTyped PROVE Mirror!TypeOK OBVIOUS
<1>1. MirrorTypes /\ Mirror!Now \in HeldBuffers BY DEF MirrorInv, MirrorTyped, FlushTyped
<1>2. m_cursor \in [Mirror!Journals -> 0..MaxLines]
  <2>1. \A j \in Mirror!Journals : m_cursor[j] \in 0..MaxLines
    <3> TAKE j \in Mirror!Journals
    <3>1. Len(m_journal[j]) \in 0..MaxLines BY <1>1, LinesWithin DEF MirrorTyped
    <3>2. m_cursor[j] \in Nat /\ m_cursor[j] <= Len(m_journal[j]) BY <1>1 DEF MirrorTypes
    <3> QED BY <3>1, <3>2, MirrorBounds
  <2> QED BY <1>1, <2>1 DEF MirrorTypes
<1>3. m_row \in 0..m_version /\ m_version \in Nat BY <1>1 DEF MirrorTypes, RowInv
<1>4. m_queue \in Seq(OwnEvents) /\ Len(m_queue) <= BufferSize /\ m_lost \in SUBSET Places
      /\ m_dropped \in BOOLEAN
  BY <1>1 DEF Mirror!Now, Mirror!Buffer, HeldBuffers, Buffers
<1>5. OwnEvents \subseteq Mirror!Events
  <2> SUFFICES ASSUME NEW e \in OwnEvents PROVE e \in Mirror!Events OBVIOUS
  <2>1. e \in AnyEvents /\ e.line <= MaxLines /\ e.version >= 0 BY DEF OwnEvents
  <2>2. e.line \in Nat /\ e.version \in Int BY <2>1 DEF AnyEvents
  <2>3. e.line \in 0..MaxLines /\ e.version \in Nat BY <2>1, <2>2, MirrorBounds
  <2> QED BY <2>1, <2>3 DEF AnyEvents, Mirror!Events
<1>6. m_queue \in Seq(Mirror!Events) BY <1>4, <1>5, SeqsIn
<1>7. m_health \in [state : {"healthy", "degraded", "open"}, streak : 0..MaxFailures, cooling : BOOLEAN]
  <2>1. m_health \in Healths /\ m_health.streak \in 0..MaxFailures
    BY MirrorBounds DEF MirrorTyped, FlushTyped, Healths
  <2> QED BY <2>1 DEF Healths
<1>8. m_mirrored \cup m_lost \subseteq Mirror!Journals \X (1..MaxLines)
  BY <1>4 DEF MirrorTyped, FlushTyped, Places
<1> QED BY <1>1, <1>2, <1>3, <1>4, <1>6, <1>7, <1>8 DEF Mirror!TypeOK, MirrorTypes, MirrorTyped

-----------------------------------------------------------------------------
\* The states of each component are of their types: among them that the buffer of the mirror never
\* holds more than its capacity and no line it accounts for is past the journals, that a process
\* never waits longer than the window of its quota, and that the ledger holds records only.
THEOREM RecordsTyped == RecordsSpec => []RecordsTypeOK
<1> DEFINE Ledger == \A w \in Ledgers : part = w => BookInv(w) /\ BookTyped(w)
           Passes == \A w \in Markets : part = w => SelectionInv(w) /\ InputsTyped(w)
           Inv == MirrorInv /\ RowInv /\ MirrorTyped /\ LimiterTyped /\ Ledger /\ Passes
<1>1. ASSUME RecordsInit PROVE Inv
  <2>1. MirrorInv /\ RowInv /\ MirrorTyped BY <1>1, MirrorStarts, RowStarts, MirrorTypedFirst DEF RecordsInit
  <2>2. LimiterTyped BY <1>1, LimiterTypedFirst DEF RecordsInit
  <2>3. ASSUME NEW w \in Ledgers, part = w PROVE BookInv(w) /\ BookTyped(w)
    <3>1. Book(w)!Init BY <1>1, <2>3 DEF RecordsInit
    <3> QED BY <3>1, BookStarts, BookTypedFirst
  <2>4. ASSUME NEW w \in Markets, part = w PROVE SelectionInv(w) /\ InputsTyped(w)
    <3>1. Pass(w)!Init BY <1>1, <2>4 DEF RecordsInit
    <3> QED BY <3>1, InputsStart DEF Pass!Init, SelectionInv, Fit
  <2> QED BY <2>1, <2>2, <2>3, <2>4
<1>2. ASSUME Inv, [RecordsNext]_records PROVE Inv'
  <2>1. /\ [Mirror!Next]_mirrorVars /\ [Limiter!Next]_limiterVars
        /\ [\E w \in Ledgers : part = w /\ Book(w)!Next]_bookVars
        /\ [\E w \in Markets : part = w /\ Pass(w)!Select]_passVars
        /\ UNCHANGED part
    BY <1>2, RecordsStutter
  <2>2. MirrorInv' /\ RowInv' /\ MirrorTyped' BY <1>2, <2>1, MirrorStep, RowStep, MirrorTypedStays
  <2>3. LimiterTyped' BY <1>2, <2>1, LimiterTypedStays
  <2>4. ASSUME NEW w \in Ledgers, part' = w PROVE BookInv(w)' /\ BookTyped(w)'
    <3>1. BookInv(w) /\ BookTyped(w) /\ [Book(w)!Next]_bookVars BY <1>2, <2>1, <2>4
    <3> QED BY <3>1, BookStep, BookTypedStays
  <2>5. ASSUME NEW w \in Markets, part' = w PROVE SelectionInv(w)' /\ InputsTyped(w)'
    <3>1. SelectionInv(w) /\ InputsTyped(w) BY <1>2, <2>1, <2>5
    <3>2. CASE Pass(w)!Select BY <3>1, <3>2, SelectKeeps, InputsStay
    <3>3. CASE UNCHANGED passVars
      <4>1. InputsTyped(w)' BY <3>1, <3>3, InputsStay
      <4>2. SelectionInv(w)'
        BY <3>1, <3>3 DEF passVars, SelectionInv, Fit, Pass!Full, Pass!WithLp, Pass!LpMints
      <4> QED BY <4>1, <4>2
    <3> QED BY <2>1, <2>5, <3>2, <3>3
  <2> QED BY <2>2, <2>3, <2>4, <2>5
<1>3. Inv => RecordsTypeOK
  BY MirrorTypeOK, LimiterTypeOK, BookTypeOK, PassTypeOK DEF RecordsTypeOK
<1> HIDE DEF Inv
<1> QED BY <1>1, <1>2, <1>3, PTL DEF RecordsSpec
=============================================================================
