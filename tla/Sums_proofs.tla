------------------------------ MODULE Sums_proofs ------------------------------
(***************************************************************************)
(* Sums of a function over a finite set: the totals that the models keep   *)
(* beside the records they are made of.  SumFunctionOnSet is a recursion   *)
(* over an element chosen from the set.  What a proof needs of it is that  *)
(* any element may be taken out first, which holds because addition does   *)
(* not mind the order.                                                     *)
(*                                                                         *)
(* Each fact about all subsets is shown on a least subset that violates    *)
(* it: there is one, because the strict subsets of a finite set are        *)
(* well-founded.                                                           *)
(***************************************************************************)
EXTENDS Integers, FiniteSets, Functions, FiniteSetTheorems, WellFoundedInduction, TLAPS

\* A non-empty set of numbers has a least one.
LEMMA LeastNumber ==
  ASSUME NEW B \in SUBSET Nat, B # {}
  PROVE \E n \in B : \A m \in B : n <= m
<1> DEFINE less == {pair \in Nat \X Nat : pair[1] < pair[2]}
<1>1. OpToRel(<, Nat) = less BY Zenon DEF OpToRel
<1>2. IsWellFoundedOn(less, Nat) BY Zenon, <1>1, NatLessThanWellFounded
<1>3. PICK n \in B : \A m \in B : ~ (<<m, n>> \in less)
  <2> HIDE DEF less
  <2> QED BY <1>2, WFMin
<1>4. ASSUME NEW m \in B, ~ n <= m PROVE FALSE
  <2>1. m \in Nat /\ n \in Nat /\ m < n BY <1>4
  <2>2. <<m, n>> \in less BY <2>1
  <2> QED BY <1>3, <2>2
<1> QED BY <1>4

\* A non-empty set of numbers up to some number has a greatest one.
LEMMA GreatestNumber ==
  ASSUME NEW n \in Nat, NEW B \in SUBSET (0..n), B # {}
  PROVE \E k \in B : \A m \in B : k >= m
<1> DEFINE back == {n - k : k \in B}
<1>1. back \in SUBSET Nat /\ back # {}
  <2>1. \A k \in B : n - k \in Nat OBVIOUS
  <2>2. PICK k \in B : TRUE OBVIOUS
  <2>3. n - k \in back BY <2>2
  <2>4. \A b \in back : b \in Nat BY <2>1
  <2> HIDE DEF back
  <2> QED BY <2>3, <2>4
<1>2. PICK b \in back : \A c \in back : b <= c
  <2> HIDE DEF back
  <2> QED BY <1>1, LeastNumber
<1>3. PICK k \in B : b = n - k OBVIOUS
<1>4. \A m \in B : n - k <= n - m BY <1>2, <1>3
<1> QED BY <1>4

\* Among the subsets of a finite set that a collection B names, one has no smaller one in B.
LEMMA LeastSubset ==
  ASSUME NEW S, IsFiniteSet(S), NEW B \in SUBSET SUBSET S, B # {}
  PROVE \E T \in B : \A U \in SUBSET T : U # T => U \notin B
<1> DEFINE sizes == {Cardinality(T) : T \in B}
<1>1. \A T \in B : IsFiniteSet(T) /\ Cardinality(T) \in Nat BY FS_Subset, FS_CardinalityType
<1>2. sizes \in SUBSET Nat /\ sizes # {} BY <1>1
<1>3. PICK n \in sizes : \A m \in sizes : n <= m
  <2> HIDE DEF sizes
  <2> QED BY <1>2, LeastNumber
<1>4. PICK T \in B : Cardinality(T) = n OBVIOUS
<1>5. ASSUME NEW U \in SUBSET T, U # T, U \in B PROVE FALSE
  <2>1. Cardinality(U) <= Cardinality(T) /\ Cardinality(U) # Cardinality(T)
    BY <1>1, <1>5, FS_Subset
  <2>2. Cardinality(U) \in sizes BY <1>5
  <2> QED BY <1>1, <1>3, <1>4, <1>5, <2>1, <2>2
<1> QED BY <1>4, <1>5

-----------------------------------------------------------------------------
(* Folds over a finite set, from the base on, of the element that pick takes out. *)

\* pick takes an element out of each subset of S, and step stays in V.
Picks(S, pick) == \A s \in SUBSET S : s # {} => pick[s] \in s
Steps(S, V, step) == step \in [S -> [V -> V]]
\* One round of the recursion, for the subset s.
Fold(base, pick, step, h, s) == IF s = {} THEN base ELSE step[pick[s]][h[s \ {pick[s]}]]
Folds(S, V, base, pick, step, h) ==
  \A s \in SUBSET S : h[s] \in V /\ h[s] = Fold(base, pick, step, h, s)

\* The recursion has a solution, whose values stay in V if those of the steps do.
LEMMA FoldExists ==
  ASSUME NEW S, IsFiniteSet(S), NEW V, NEW base \in V, NEW pick, Picks(S, pick),
         NEW step, Steps(S, V, step)
  PROVE \E h : Folds(S, V, base, pick, step, h)
<1> USE DEF Picks, Steps
<1> DEFINE Solves(h, n) == \A s \in SUBSET S : Cardinality(s) <= n => h[s] = Fold(base, pick, step, h, s)
           Bad == {n \in Nat : ~ \E h \in [SUBSET S -> V] : Solves(h, n)}
<1>1. Bad = {}
  <2> SUFFICES ASSUME Bad # {} PROVE FALSE OBVIOUS
  <2>1. PICK n \in Bad : \A m \in Bad : n <= m
    <3>1. Bad \in SUBSET Nat OBVIOUS
    <3> HIDE DEF Bad
    <3> QED BY <3>1, LeastNumber
  <2>2. n \in Nat /\ ~ \E h \in [SUBSET S -> V] : Solves(h, n) OBVIOUS
  <2>3. CASE n = 0
    <3> DEFINE const == [s \in SUBSET S |-> base]
    <3>1. ASSUME NEW s \in SUBSET S, Cardinality(s) <= 0 PROVE const[s] = Fold(base, pick, step, const, s)
      <4>1. s = {} BY <3>1, FS_Subset, FS_CardinalityType, FS_EmptySet
      <4> QED BY <4>1 DEF Fold
    <3>2. Solves(const, n) BY <2>3, <3>1
    <3> QED BY <2>2, <3>2
  <2>4. CASE n # 0
    <3>1. n - 1 \in Nat /\ n - 1 \notin Bad
      <4>1. n - 1 \in Nat /\ ~ n <= n - 1 BY <2>2, <2>4
      <4> HIDE DEF Bad
      <4> QED BY <2>1, <4>1
    <3>2. PICK g \in [SUBSET S -> V] : Solves(g, n - 1) BY <3>1
    <3> DEFINE h == [s \in SUBSET S |-> Fold(base, pick, step, g, s)]
    <3>3. h \in [SUBSET S -> V]
      <4> SUFFICES ASSUME NEW s \in SUBSET S PROVE Fold(base, pick, step, g, s) \in V OBVIOUS
      <4>1. CASE s = {} BY <4>1 DEF Fold
      <4>2. CASE s # {}
        <5>1. pick[s] \in S /\ g[s \ {pick[s]}] \in V BY <4>2
        <5>2. step[pick[s]][g[s \ {pick[s]}]] \in V BY <5>1
        <5> QED BY <4>2, <5>2 DEF Fold
      <4> QED BY <4>1, <4>2
    <3>4. ASSUME NEW s \in SUBSET S, Cardinality(s) <= n PROVE h[s] = Fold(base, pick, step, h, s)
      <4>1. CASE s = {} BY <4>1 DEF Fold
      <4>2. CASE s # {}
        <5> DEFINE t == s \ {pick[s]}
        <5>1. pick[s] \in s /\ t \in SUBSET S BY <4>2
        <5>2. IsFiniteSet(s) /\ Cardinality(s) \in Nat /\ Cardinality(t) = Cardinality(s) - 1
          BY <5>1, FS_Subset, FS_CardinalityType, FS_RemoveElement
        <5>3. g[t] = h[t] BY <2>2, <3>2, <3>4, <5>1, <5>2
        <5>4. h[s] = Fold(base, pick, step, g, s) OBVIOUS
        <5> HIDE DEF h
        <5> QED BY <4>2, <5>3, <5>4 DEF Fold
      <4> QED BY <4>1, <4>2
    <3>5. Solves(h, n) BY <3>4
    <3> HIDE DEF h, Solves
    <3> QED BY <2>2, <3>3, <3>5
  <2> QED BY <2>3, <2>4
<1>2. Cardinality(S) \in Nat BY FS_CardinalityType
<1>3. PICK h \in [SUBSET S -> V] : Solves(h, Cardinality(S)) BY <1>1, <1>2
<1>4. \A s \in SUBSET S : h[s] = Fold(base, pick, step, h, s) BY <1>3, FS_Subset
<1> QED BY <1>3, <1>4 DEF Folds

\* What holds of the value for the empty set, and comes with each element, holds of all values.
LEMMA FoldStays ==
  ASSUME NEW S, IsFiniteSet(S), NEW h, NEW good, h[{}] \in good[{}],
         \A s \in SUBSET S : s # {} =>
           \E x \in s : h[s \ {x}] \in good[s \ {x}] => h[s] \in good[s]
  PROVE \A s \in SUBSET S : h[s] \in good[s]
<1> DEFINE Bad == {s \in SUBSET S : h[s] \notin good[s]}
<1> SUFFICES ASSUME Bad # {} PROVE FALSE OBVIOUS
<1>1. PICK s \in Bad : \A t \in SUBSET s : t # s => t \notin Bad
  <2>1. Bad \in SUBSET SUBSET S OBVIOUS
  <2> HIDE DEF Bad
  <2> QED BY <2>1, LeastSubset
<1>2. s \in SUBSET S /\ s # {} /\ h[s] \notin good[s] OBVIOUS
<1>3. PICK x \in s : h[s \ {x}] \in good[s \ {x}] => h[s] \in good[s] BY <1>2
<1>4. s \ {x} \in SUBSET s /\ s \ {x} # s /\ s \ {x} \in SUBSET S BY <1>2
<1> QED BY <1>1, <1>2, <1>3, <1>4

-----------------------------------------------------------------------------
(* The recursion of a sum has a solution.                                  *)

Pick(s) == CHOOSE x \in s : TRUE
\* One round of the recursion, for the subset s.
Round(f, g, s) == IF s = {} THEN 0 ELSE f[Pick(s)] + g[s \ {Pick(s)}]
Iter(f, S) ==
  CHOOSE iter : iter = [s \in SUBSET S |->
    IF s = {} THEN 0 ELSE f[CHOOSE x \in s : TRUE] + iter[s \ {CHOOSE x \in s : TRUE}]]

LEMMA SumIsIter ==
  ASSUME NEW f, NEW S
  PROVE SumFunctionOnSet(f, S) = Iter(f, S)[S]
BY Zenon DEF SumFunctionOnSet, FoldFunctionOnSet, MapThenFoldSet, Iter

LEMMA PickMember == ASSUME NEW s, s # {} PROVE Pick(s) \in s
BY DEF Pick

LEMMA PickShrinks ==
  ASSUME NEW S, IsFiniteSet(S), NEW s \in SUBSET S, s # {}
  PROVE /\ s \ {Pick(s)} \in SUBSET S
        /\ Cardinality(s) \in Nat /\ Cardinality(s \ {Pick(s)}) = Cardinality(s) - 1
BY PickMember, FS_Subset, FS_CardinalityType, FS_RemoveElement

\* A function that solves the recursion for the subsets of up to n elements.
LEMMA SolvedUpTo ==
  ASSUME NEW f, NEW S, IsFiniteSet(S)
  PROVE \A n \in Nat : \E g : \A s \in SUBSET S : Cardinality(s) <= n => g[s] = Round(f, g, s)
<1> DEFINE Solves(g, n) == \A s \in SUBSET S : Cardinality(s) <= n => g[s] = Round(f, g, s)
           Bad == {n \in Nat : ~ \E g : Solves(g, n)}
<1> SUFFICES ASSUME Bad # {} PROVE FALSE OBVIOUS
<1>1. PICK n \in Bad : \A m \in Bad : n <= m
  <2> HIDE DEF Bad
  <2> SUFFICES Bad \in SUBSET Nat BY LeastNumber
  <2> QED BY DEF Bad
<1>2. n \in Nat /\ ~ \E g : Solves(g, n) OBVIOUS
<1>3. CASE n = 0
  <2> DEFINE zero == [s \in SUBSET S |-> 0]
  <2>1. ASSUME NEW s \in SUBSET S, Cardinality(s) <= 0 PROVE zero[s] = Round(f, zero, s)
    <3>1. s = {} BY <2>1, FS_Subset, FS_CardinalityType, FS_EmptySet
    <3> QED BY <3>1 DEF Round
  <2>2. Solves(zero, n) BY <1>3, <2>1
  <2> QED BY <1>2, <2>2
<1>4. CASE n # 0
  <2>1. n - 1 \in Nat /\ n - 1 \notin Bad BY <1>1, <1>2, <1>4
  <2>2. PICK g : Solves(g, n - 1) BY <2>1
  <2> DEFINE h == [s \in SUBSET S |-> Round(f, g, s)]
  <2>3. ASSUME NEW s \in SUBSET S, Cardinality(s) <= n PROVE h[s] = Round(f, h, s)
    <3>1. CASE s = {} BY <3>1 DEF Round
    <3>2. CASE s # {}
      <4>1. s \ {Pick(s)} \in SUBSET S /\ Cardinality(s \ {Pick(s)}) <= n - 1
        BY <1>2, <2>3, <3>2, PickShrinks
      <4>2. g[s \ {Pick(s)}] = h[s \ {Pick(s)}] BY <2>2, <4>1
      <4>3. h[s] = Round(f, g, s) OBVIOUS
      <4> HIDE DEF h
      <4> QED BY <3>2, <4>2, <4>3 DEF Round
    <3> QED BY <3>1, <3>2
  <2>4. Solves(h, n) BY <2>3
  <2> HIDE DEF h, Solves
  <2> QED BY <1>2, <2>4
<1> QED BY <1>3, <1>4

LEMMA IterUnfolds ==
  ASSUME NEW f, NEW S, IsFiniteSet(S), NEW s \in SUBSET S
  PROVE Iter(f, S)[s] = Round(f, Iter(f, S), s)
<1>1. Cardinality(S) \in Nat BY FS_CardinalityType
<1>2. PICK g : \A t \in SUBSET S : Cardinality(t) <= Cardinality(S) => g[t] = Round(f, g, t)
  BY <1>1, SolvedUpTo
<1>3. \A t \in SUBSET S : g[t] = Round(f, g, t) BY <1>2, FS_Subset
<1> DEFINE h == [t \in SUBSET S |-> g[t]]
           Rhs(i) == [t \in SUBSET S |-> Round(f, i, t)]
<1>4. ASSUME NEW t \in SUBSET S PROVE h[t] = Round(f, h, t)
  <2>1. CASE t = {} BY <1>3, <2>1 DEF Round
  <2>2. CASE t # {}
    <3>1. t \ {Pick(t)} \in SUBSET S OBVIOUS
    <3>2. h[t] = g[t] /\ h[t \ {Pick(t)}] = g[t \ {Pick(t)}] BY <3>1
    <3> HIDE DEF h
    <3> QED BY <1>3, <2>2, <3>2 DEF Round
  <2> QED BY <2>1, <2>2
<1>5. h = Rhs(h) BY <1>4
<1>6. Iter(f, S) = CHOOSE iter : iter = Rhs(iter) BY Zenon DEF Iter, Round, Pick
<1>7. Iter(f, S) = Rhs(Iter(f, S))
  <2> HIDE DEF h, Rhs
  <2> QED BY <1>5, <1>6
<1> QED BY <1>7

-----------------------------------------------------------------------------
(* What the sum is made of.                                                *)

\* The sum over a set looks at the function there and nowhere else.
LEMMA IterAgrees ==
  ASSUME NEW f, NEW g, NEW S, NEW T, IsFiniteSet(S), T \in SUBSET S,
         \A x \in T : f[x] = g[x]
  PROVE \A U \in SUBSET T : Iter(f, S)[U] = Iter(g, T)[U]
<1>1. IsFiniteSet(T) BY FS_Subset
<1> DEFINE Bad == {U \in SUBSET T : Iter(f, S)[U] # Iter(g, T)[U]}
<1> SUFFICES ASSUME Bad # {} PROVE FALSE OBVIOUS
<1>2. PICK U \in Bad : \A V \in SUBSET U : V # U => V \notin Bad
  <2>1. Bad \in SUBSET SUBSET T OBVIOUS
  <2> HIDE DEF Bad
  <2> QED BY <1>1, <2>1, LeastSubset
<1>3. U \in SUBSET S /\ U \in SUBSET T OBVIOUS
<1>4. Iter(f, S)[U] = Round(f, Iter(f, S), U) /\ Iter(g, T)[U] = Round(g, Iter(g, T), U)
  BY <1>1, <1>3, IterUnfolds
<1>5. U # {} BY <1>4 DEF Round
<1> DEFINE V == U \ {Pick(U)}
<1>6. V \in SUBSET U /\ V # U /\ Pick(U) \in T BY <1>3, <1>5, PickMember
<1>7. Iter(f, S)[V] = Iter(g, T)[V] BY <1>2, <1>6
<1>8. f[Pick(U)] = g[Pick(U)] BY <1>6
<1> QED BY <1>4, <1>5, <1>7, <1>8 DEF Round

\* The sum over a set looks at the function there and nowhere else.
LEMMA SumAgrees ==
  ASSUME NEW f, NEW g, NEW S, IsFiniteSet(S), \A x \in S : f[x] = g[x]
  PROVE SumFunctionOnSet(f, S) = SumFunctionOnSet(g, S)
BY IterAgrees, SumIsIter

LEMMA SumOfNone == ASSUME NEW f PROVE SumFunctionOnSet(f, {}) = 0
<1>1. Iter(f, {})[{}] = Round(f, Iter(f, {}), {}) BY FS_EmptySet, IterUnfolds
<1> QED BY <1>1, SumIsIter DEF Round

LEMMA SumPicks ==
  ASSUME NEW f, NEW S, IsFiniteSet(S), S # {}
  PROVE SumFunctionOnSet(f, S) = f[Pick(S)] + SumFunctionOnSet(f, S \ {Pick(S)})
<1> DEFINE T == S \ {Pick(S)}
<1>1. Iter(f, S)[S] = f[Pick(S)] + Iter(f, S)[T] BY IterUnfolds DEF Round
<1>2. Iter(f, S)[T] = Iter(f, T)[T] BY IterAgrees
<1> QED BY <1>1, <1>2, SumIsIter

LEMMA SumType ==
  ASSUME NEW f, NEW S, IsFiniteSet(S), \A x \in S : f[x] \in Nat
  PROVE \A T \in SUBSET S : SumFunctionOnSet(f, T) \in Nat
<1> DEFINE Bad == {T \in SUBSET S : SumFunctionOnSet(f, T) \notin Nat}
<1> SUFFICES ASSUME Bad # {} PROVE FALSE OBVIOUS
<1>1. PICK T \in Bad : \A U \in SUBSET T : U # T => U \notin Bad
  <2>1. Bad \in SUBSET SUBSET S OBVIOUS
  <2> HIDE DEF Bad
  <2> QED BY <2>1, LeastSubset
<1>2. T \in SUBSET S /\ IsFiniteSet(T) BY FS_Subset
<1>3. T # {} BY SumOfNone
<1>4. SumFunctionOnSet(f, T) = f[Pick(T)] + SumFunctionOnSet(f, T \ {Pick(T)})
  BY <1>2, <1>3, SumPicks
<1>5. f[Pick(T)] \in Nat /\ SumFunctionOnSet(f, T \ {Pick(T)}) \in Nat
  BY <1>1, <1>2, <1>3, PickMember
<1> QED BY <1>4, <1>5

\* Any member may be taken out first.
LEMMA SumTakesOut ==
  ASSUME NEW f, NEW S, IsFiniteSet(S), \A x \in S : f[x] \in Nat, NEW x \in S
  PROVE SumFunctionOnSet(f, S) = f[x] + SumFunctionOnSet(f, S \ {x})
<1> DEFINE Bad == {T \in SUBSET S : \E y \in T :
                     SumFunctionOnSet(f, T) # f[y] + SumFunctionOnSet(f, T \ {y})}
<1> SUFFICES ASSUME Bad # {} PROVE FALSE OBVIOUS
<1>1. PICK T \in Bad : \A U \in SUBSET T : U # T => U \notin Bad
  <2>1. Bad \in SUBSET SUBSET S OBVIOUS
  <2> HIDE DEF Bad
  <2> QED BY <2>1, LeastSubset
<1>2. T \in SUBSET S /\ IsFiniteSet(T) BY FS_Subset
<1>3. PICK y \in T : SumFunctionOnSet(f, T) # f[y] + SumFunctionOnSet(f, T \ {y}) OBVIOUS
<1> DEFINE p == Pick(T)
<1>4. p \in T /\ SumFunctionOnSet(f, T) = f[p] + SumFunctionOnSet(f, T \ {p})
  BY <1>2, SumPicks, PickMember
<1>5. p # y BY <1>3, <1>4
<1> HIDE DEF p
<1>6. T \ {p} \notin Bad /\ T \ {y} \notin Bad BY <1>1, <1>4
<1>7. SumFunctionOnSet(f, T \ {p}) = f[y] + SumFunctionOnSet(f, (T \ {p}) \ {y})
  BY <1>2, <1>5, <1>6
<1>8. SumFunctionOnSet(f, T \ {y}) = f[p] + SumFunctionOnSet(f, (T \ {y}) \ {p})
  BY <1>2, <1>4, <1>5, <1>6
<1>9. (T \ {p}) \ {y} = (T \ {y}) \ {p} OBVIOUS
<1>10. f[p] \in Nat /\ f[y] \in Nat /\ SumFunctionOnSet(f, (T \ {y}) \ {p}) \in Nat
  <2>1. (T \ {y}) \ {p} \in SUBSET S BY <1>2
  <2> QED BY <1>2, <1>4, <2>1, SumType
<1> QED BY <1>3, <1>4, <1>7, <1>8, <1>9, <1>10
=============================================================================
