------------------------------ MODULE SumLemmas ------------------------------
(***************************************************************************)
(* Sums of a function over a finite set, as SumFunctionOnSet gives them:   *)
(* what the totals of balances are made of.  It is defined by a recursion  *)
(* over the subsets, one element after the other in an order that is not   *)
(* known; these lemmas show that the order does not matter and how a sum   *)
(* follows a change of the function.                                       *)
(*                                                                         *)
(* Induction is over the subsets of a finite set, in the form of a least   *)
(* counterexample (WFMin).                                                 *)
(***************************************************************************)
EXTENDS Functions, FiniteSetTheorems, TLAPS

\* A collection that has each subset of S all of whose strict subsets it has,
\* has S.
LEMMA SubsetInduction ==
  ASSUME NEW S, IsFiniteSet(S), NEW G,
         \A T \in SUBSET S : (\A U \in SUBSET T : U # T => U \in G) => T \in G
  PROVE  \A T \in SUBSET S : T \in G
<1> DEFINE bad == {T \in SUBSET S : T \notin G}
<1>1. IsWellFoundedOn(StrictSubsetOrdering(S), SUBSET S)
  BY FS_StrictSubsetOrderingWellFounded, FS_FiniteSubsetsOfFinite
<1>2. SUFFICES ASSUME bad # {} PROVE FALSE
  OBVIOUS
<1>3. PICK T \in bad : \A U \in bad : ~(<<U, T>> \in StrictSubsetOrdering(S))
  <2> bad \subseteq SUBSET S
    OBVIOUS
  <2> HIDE DEF bad
  <2> QED BY <1>1, <1>2, WFMin
<1>4. \A U \in SUBSET T : U # T => U \in G
  <2> SUFFICES ASSUME NEW U \in SUBSET T, U # T, U \notin G PROVE FALSE
    OBVIOUS
  <2> U \in bad /\ <<U, T>> \in StrictSubsetOrdering(S)
    BY DEF StrictSubsetOrdering
  <2> QED BY <1>3
<1> QED BY <1>4

\* Induction over the naturals, as that over the subsets of an interval.
LEMMA NatCollection ==
  ASSUME NEW G, 0 \in G, \A n \in Nat : n \in G => n + 1 \in G
  PROVE  \A n \in Nat : n \in G
<1> SUFFICES ASSUME NEW n \in Nat PROVE n \in G
  OBVIOUS
<1> DEFINE S == 0..n
           C == {T \in SUBSET S : \A m \in S : T = 0..m => m \in G}
<1>1. ASSUME NEW T \in SUBSET S, \A U \in SUBSET T : U # T => U \in C
      PROVE  T \in C
  <2> SUFFICES ASSUME NEW m \in S, T = 0..m
               PROVE  m \in G
    OBVIOUS
  <2>1. CASE m = 0
    BY <2>1
  <2>2. CASE m # 0
    <3>1. m - 1 \in S /\ m - 1 \in Nat /\ (m - 1) + 1 = m /\ 0..(m - 1) \subseteq T
      BY <2>2
    <3>2. m \in T /\ m \notin 0..(m - 1)
      BY <2>2
    <3>3. 0..(m - 1) \in C
      BY <1>1, <3>1, <3>2
    <3>4. QED
      BY <3>1, <3>3
  <2>3. QED
    BY <2>1, <2>2
<1>2. IsFiniteSet(S)
  BY FS_Interval
<1>3. S \in C
  <2> HIDE DEF C, S
  <2>1. QED
    BY <1>1, <1>2, SubsetInduction
<1>4. QED
  BY <1>3

-----------------------------------------------------------------------------
(* The recursion that defines a sum. *)

\* The element a sum takes first.
Pick(s) == CHOOSE x \in s : TRUE

LEMMA PickIn == ASSUME NEW s, s # {} PROVE Pick(s) \in s
  BY DEF Pick

\* g has the sums of f over the subsets of T.
Sums(f, T, g) ==
  g = [s \in SUBSET T |-> IF s = {} THEN 0 ELSE f[Pick(s)] + g[s \ {Pick(s)}]]

LEMMA SumIsChosen ==
  ASSUME NEW f, NEW S
  PROVE  SumFunctionOnSet(f, S) = (CHOOSE g : Sums(f, S, g))[S]
  BY DEF SumFunctionOnSet, FoldFunctionOnSet, MapThenFoldSet, Sums, Pick

LEMMA SumsAgree ==
  ASSUME NEW f, NEW S, IsFiniteSet(S), NEW T \in SUBSET S, NEW g, NEW h,
         Sums(f, S, g), Sums(f, T, h)
  PROVE  g[T] = h[T]
<1> DEFINE G == {s \in SUBSET T : g[s] = h[s]}
<1>1. IsFiniteSet(T)
  BY FS_Subset
<1>2. ASSUME NEW s \in SUBSET T, \A U \in SUBSET s : U # s => U \in G
      PROVE  s \in G
  <2>1. CASE s = {}
    BY <2>1 DEF Sums
  <2>2. CASE s # {}
    <3> DEFINE u == s \ {Pick(s)}
    <3>1. u \in SUBSET s /\ u # s
      BY <2>2, PickIn
    <3>2. g[u] = h[u]
      BY <3>1, <1>2
    <3>3. g[s] = f[Pick(s)] + g[u] /\ h[s] = f[Pick(s)] + h[u]
      BY <2>2 DEF Sums
    <3> QED BY <3>2, <3>3
  <2> QED BY <2>1, <2>2
<1>3. T \in G
  <2> HIDE DEF G
  <2> QED BY <1>1, <1>2, SubsetInduction
<1> QED BY <1>3

LEMMA SumsExist ==
  ASSUME NEW f, NEW S, IsFiniteSet(S)
  PROVE  \E g : Sums(f, S, g)
<1> DEFINE G == {T \in SUBSET S : \E g : Sums(f, T, g)}
<1>1. ASSUME NEW T \in SUBSET S, \A U \in SUBSET T : U # T => U \in G
      PROVE  T \in G
  <2> DEFINE of(U) == CHOOSE g : Sums(f, U, g)
             all == [s \in SUBSET T |->
                       IF s = {} THEN 0
                       ELSE f[Pick(s)] + of(s \ {Pick(s)})[s \ {Pick(s)}]]
  <2>1. ASSUME NEW s \in SUBSET T, s # {}
        PROVE  all[s \ {Pick(s)}] = of(s \ {Pick(s)})[s \ {Pick(s)}]
    <3> DEFINE u == s \ {Pick(s)}
    <3>1. u \in SUBSET T /\ u # T /\ u \in SUBSET S
      BY <2>1, PickIn
    <3>2. Sums(f, u, of(u))
      BY <3>1, <1>1
    <3>3. CASE u = {}
      <4>1. of(u)[u] = 0
        BY <3>2, <3>3 DEF Sums
      <4>2. all[u] = 0
        BY <3>1, <3>3
      <4> QED BY <4>1, <4>2
    <3>4. CASE u # {}
      <4> DEFINE v == u \ {Pick(u)}
      <4>1. v \in SUBSET u /\ v # T /\ v \in SUBSET T
        BY <3>1, <3>4, PickIn
      <4>2. Sums(f, v, of(v))
        BY <4>1, <1>1
      <4>3. of(u)[u] = f[Pick(u)] + of(u)[v]
        BY <3>2, <3>4 DEF Sums
      <4>4. IsFiniteSet(u)
        BY <3>1, FS_Subset
      <4>5. of(u)[v] = of(v)[v]
        <5> HIDE DEF of, u, v
        <5> QED BY <4>1, <4>2, <4>4, <3>2, SumsAgree
      <4>6. all[u] = f[Pick(u)] + of(v)[v]
        BY <3>1, <3>4
      <4> QED BY <4>3, <4>5, <4>6
    <3> QED BY <3>3, <3>4
  <2>2. Sums(f, T, all)
    <3> HIDE DEF of
    <3> QED BY <2>1 DEF Sums
  <2> QED BY <2>2
<1>2. S \in G
  <2> HIDE DEF G
  <2> QED BY <1>1, SubsetInduction
<1> QED BY <1>2

LEMMA SumIsOf ==
  ASSUME NEW f, NEW S, IsFiniteSet(S), NEW g, Sums(f, S, g), NEW T \in SUBSET S
  PROVE  SumFunctionOnSet(f, T) = g[T]
<1>1. IsFiniteSet(T)
  BY FS_Subset
<1> DEFINE h == CHOOSE x : Sums(f, T, x)
<1>2. Sums(f, T, h)
  BY <1>1, SumsExist
<1>3. g[T] = h[T]
  <2> HIDE DEF h
  <2> QED BY <1>2, SumsAgree
<1> QED BY <1>3, SumIsChosen

LEMMA SumStep ==
  ASSUME NEW f, NEW S, IsFiniteSet(S)
  PROVE  SumFunctionOnSet(f, S) =
           IF S = {} THEN 0
           ELSE f[Pick(S)] + SumFunctionOnSet(f, S \ {Pick(S)})
<1>1. PICK g : Sums(f, S, g)
  BY SumsExist
<1>2. SumFunctionOnSet(f, S) = g[S] /\ SumFunctionOnSet(f, S \ {Pick(S)}) = g[S \ {Pick(S)}]
  BY <1>1, SumIsOf
<1> QED BY <1>1, <1>2 DEF Sums

-----------------------------------------------------------------------------
(* What a sum is. *)

LEMMA SumEmpty == ASSUME NEW f PROVE SumFunctionOnSet(f, {}) = 0
  BY SumStep, FS_EmptySet

LEMMA SumInt ==
  ASSUME NEW f, NEW S, IsFiniteSet(S), \A x \in S : f[x] \in Int
  PROVE  SumFunctionOnSet(f, S) \in Int
<1> DEFINE G == {T \in SUBSET S : SumFunctionOnSet(f, T) \in Int}
<1>1. ASSUME NEW T \in SUBSET S, \A U \in SUBSET T : U # T => U \in G
      PROVE  T \in G
  <2>1. IsFiniteSet(T)
    BY FS_Subset
  <2>2. CASE T # {}
    <3>1. Pick(T) \in T
      BY <2>2, PickIn
    <3>2. SumFunctionOnSet(f, T \ {Pick(T)}) \in Int
      BY <1>1, <3>1
    <3> QED BY <2>1, <2>2, <3>1, <3>2, SumStep
  <2> QED BY <2>2, SumEmpty
<1>2. S \in G
  <2> HIDE DEF G
  <2> QED BY <1>1, SubsetInduction
<1> QED BY <1>2

\* Any element can be taken first.
LEMMA SumTake ==
  ASSUME NEW f, NEW S, IsFiniteSet(S), \A x \in S : f[x] \in Int, NEW y \in S
  PROVE  SumFunctionOnSet(f, S) = f[y] + SumFunctionOnSet(f, S \ {y})
<1> DEFINE Sum(T) == SumFunctionOnSet(f, T)
           G == {T \in SUBSET S : \A x \in T : Sum(T) = f[x] + Sum(T \ {x})}
<1>1. ASSUME NEW T \in SUBSET S, \A U \in SUBSET T : U # T => U \in G
      PROVE  T \in G
  <2> SUFFICES ASSUME NEW x \in T PROVE Sum(T) = f[x] + Sum(T \ {x})
    OBVIOUS
  <2> DEFINE p == Pick(T)
  <2>1. p \in T
    BY PickIn
  <2>2. IsFiniteSet(T) /\ IsFiniteSet((T \ {p}) \ {x})
    BY FS_Subset
  <2>3. Sum(T) = f[p] + Sum(T \ {p})
    BY <2>2, SumStep
  <2>4. CASE x # p
    <3>1. T \ {p} \in G /\ T \ {x} \in G
      BY <1>1, <2>1
    <3>2. Sum(T \ {p}) = f[x] + Sum((T \ {p}) \ {x})
      BY <3>1, <2>4
    <3>3. Sum(T \ {x}) = f[p] + Sum((T \ {x}) \ {p})
      BY <3>1, <2>1, <2>4
    <3>4. (T \ {x}) \ {p} = (T \ {p}) \ {x}
      OBVIOUS
    <3>5. Sum((T \ {p}) \ {x}) \in Int
      BY <2>2, SumInt
    <3>6. f[x] \in Int /\ f[p] \in Int
      BY <2>1
    <3>7. Sum(T) = f[p] + (f[x] + Sum((T \ {p}) \ {x}))
      BY <2>3, <3>2
    <3>8. Sum(T \ {x}) = f[p] + Sum((T \ {p}) \ {x})
      BY <3>3, <3>4
    <3> DEFINE rest == Sum((T \ {p}) \ {x})
    <3> HIDE DEF p, Sum, rest
    <3>9. f[p] + (f[x] + rest) = f[x] + (f[p] + rest)
      BY <3>5, <3>6 DEF rest
    <3> QED BY <3>7, <3>8, <3>9 DEF rest
  <2> QED BY <2>3, <2>4
<1>2. S \in G
  <2> HIDE DEF G
  <2> QED BY <1>1, SubsetInduction
<1> QED BY <1>2

LEMMA SumNat ==
  ASSUME NEW f, NEW S, IsFiniteSet(S), \A x \in S : f[x] \in Nat
  PROVE  SumFunctionOnSet(f, S) \in Nat
<1> DEFINE G == {T \in SUBSET S : SumFunctionOnSet(f, T) \in Nat}
<1>1. ASSUME NEW T \in SUBSET S, \A U \in SUBSET T : U # T => U \in G
      PROVE  T \in G
  <2>1. IsFiniteSet(T)
    BY FS_Subset
  <2>2. CASE T # {}
    <3>1. Pick(T) \in T
      BY <2>2, PickIn
    <3>2. SumFunctionOnSet(f, T \ {Pick(T)}) \in Nat
      BY <1>1, <3>1
    <3> QED BY <2>1, <2>2, <3>1, <3>2, SumStep
  <2> QED BY <2>2, SumEmpty
<1>2. S \in G
  <2> HIDE DEF G
  <2> QED BY <1>1, SubsetInduction
<1> QED BY <1>2

\* Only the values on the set matter.
LEMMA SumSame ==
  ASSUME NEW f, NEW g, NEW S, IsFiniteSet(S), \A x \in S : f[x] = g[x]
  PROVE  SumFunctionOnSet(f, S) = SumFunctionOnSet(g, S)
<1> DEFINE G == {T \in SUBSET S : SumFunctionOnSet(f, T) = SumFunctionOnSet(g, T)}
<1>1. ASSUME NEW T \in SUBSET S, \A U \in SUBSET T : U # T => U \in G
      PROVE  T \in G
  <2>1. IsFiniteSet(T)
    BY FS_Subset
  <2>2. CASE T # {}
    <3>1. Pick(T) \in T
      BY <2>2, PickIn
    <3>2. SumFunctionOnSet(f, T \ {Pick(T)}) = SumFunctionOnSet(g, T \ {Pick(T)})
      BY <1>1, <3>1
    <3> QED BY <2>1, <2>2, <3>1, <3>2, SumStep
  <2> QED BY <2>2, SumEmpty
<1>2. S \in G
  <2> HIDE DEF G
  <2> QED BY <1>1, SubsetInduction
<1> QED BY <1>2

\* A change at one place changes the sum by as much.
LEMMA SumChange ==
  ASSUME NEW f, NEW g, NEW S, IsFiniteSet(S), NEW y \in S,
         \A x \in S : f[x] \in Int /\ g[x] \in Int,
         \A x \in S \ {y} : f[x] = g[x]
  PROVE  SumFunctionOnSet(g, S) = SumFunctionOnSet(f, S) - f[y] + g[y]
<1>1. IsFiniteSet(S \ {y})
  BY FS_Subset
<1>2. SumFunctionOnSet(f, S \ {y}) = SumFunctionOnSet(g, S \ {y})
  BY <1>1, SumSame
<1>3. SumFunctionOnSet(f, S \ {y}) \in Int
  BY <1>1, SumInt
<1>4. SumFunctionOnSet(f, S) = f[y] + SumFunctionOnSet(f, S \ {y})
  BY SumTake
<1>5. SumFunctionOnSet(g, S) = g[y] + SumFunctionOnSet(g, S \ {y})
  BY SumTake
<1> QED BY <1>2, <1>3, <1>4, <1>5

\* What one place loses and another gains leaves the sum.
LEMMA SumMove ==
  ASSUME NEW f, NEW g, NEW S, IsFiniteSet(S), NEW y \in S, NEW z \in S, y # z,
         \A x \in S : f[x] \in Int /\ g[x] \in Int,
         \A x \in S \ {y, z} : f[x] = g[x],
         f[y] + f[z] = g[y] + g[z]
  PROVE  SumFunctionOnSet(g, S) = SumFunctionOnSet(f, S)
<1> DEFINE h == [x \in S |-> IF x = y THEN g[y] ELSE f[x]]
<1>1. /\ h[y] = g[y] /\ h[z] = f[z]
      /\ \A x \in S : h[x] \in Int
      /\ \A x \in S \ {y} : f[x] = h[x]
      /\ \A x \in S \ {z} : h[x] = g[x]
  OBVIOUS
<1> HIDE DEF h
<1>2. SumFunctionOnSet(h, S) = SumFunctionOnSet(f, S) - f[y] + g[y]
  BY <1>1, SumChange
<1>3. SumFunctionOnSet(g, S) = SumFunctionOnSet(h, S) - f[z] + g[z]
  BY <1>1, SumChange
<1>4. SumFunctionOnSet(f, S) \in Int
  BY SumInt
<1> DEFINE sum == SumFunctionOnSet(f, S)
<1>5. SumFunctionOnSet(g, S) = ((sum - f[y]) + g[y]) - f[z] + g[z]
  BY <1>2, <1>3
<1>6. f[y] \in Int /\ f[z] \in Int /\ g[y] \in Int /\ g[z] \in Int /\ sum \in Int
  BY <1>4
<1> HIDE DEF sum
<1>7. ((sum - f[y]) + g[y]) - f[z] + g[z] = sum
  BY <1>6
<1> QED BY <1>5, <1>7 DEF sum

\* No value, and no two of them, exceed the sum of natural numbers.
LEMMA SumBounds ==
  ASSUME NEW f, NEW S, IsFiniteSet(S), \A x \in S : f[x] \in Nat
  PROVE  /\ \A x \in S : f[x] <= SumFunctionOnSet(f, S)
         /\ \A x, y \in S : x # y => f[x] + f[y] <= SumFunctionOnSet(f, S)
<1>1. ASSUME NEW x \in S
      PROVE  SumFunctionOnSet(f, S) = f[x] + SumFunctionOnSet(f, S \ {x})
             /\ SumFunctionOnSet(f, S \ {x}) \in Nat /\ IsFiniteSet(S \ {x})
  <2>1. IsFiniteSet(S \ {x})
    BY FS_Subset
  <2>2. SumFunctionOnSet(f, S \ {x}) \in Nat
    BY <2>1, SumNat
  <2>3. SumFunctionOnSet(f, S) = f[x] + SumFunctionOnSet(f, S \ {x})
    BY SumTake
  <2> QED BY <2>1, <2>2, <2>3
<1>2. ASSUME NEW x \in S, NEW y \in S, x # y
      PROVE  f[x] + f[y] <= SumFunctionOnSet(f, S)
  <2> DEFINE rest == (S \ {x}) \ {y}
  <2>1. IsFiniteSet(rest)
    BY FS_Subset
  <2>2. SumFunctionOnSet(f, rest) \in Nat
    BY <2>1, SumNat
  <2>3. SumFunctionOnSet(f, S \ {x}) = f[y] + SumFunctionOnSet(f, rest)
    BY <1>1, <1>2, SumTake
  <2>4. f[x] \in Nat /\ f[y] \in Nat
    OBVIOUS
  <2> QED BY <1>1, <2>2, <2>3, <2>4
<1>3. ASSUME NEW x \in S PROVE f[x] <= SumFunctionOnSet(f, S)
  <2> DEFINE rest == SumFunctionOnSet(f, S \ {x})
  <2>1. f[x] \in Nat /\ rest \in Nat /\ SumFunctionOnSet(f, S) = f[x] + rest
    BY <1>1
  <2> HIDE DEF rest
  <2> QED BY <2>1
<1> QED BY <1>2, <1>3

LEMMA SumZero ==
  ASSUME NEW f, NEW S, IsFiniteSet(S), \A x \in S : f[x] = 0
  PROVE  SumFunctionOnSet(f, S) = 0
<1> DEFINE G == {T \in SUBSET S : SumFunctionOnSet(f, T) = 0}
<1>1. ASSUME NEW T \in SUBSET S, \A U \in SUBSET T : U # T => U \in G
      PROVE  T \in G
  <2>1. IsFiniteSet(T)
    BY FS_Subset
  <2>2. CASE T # {}
    <3>1. Pick(T) \in T
      BY <2>2, PickIn
    <3>2. SumFunctionOnSet(f, T \ {Pick(T)}) = 0
      BY <1>1, <3>1
    <3> QED BY <2>1, <2>2, <3>1, <3>2, SumStep
  <2> QED BY <2>2, SumEmpty
<1>2. S \in G
  <2> HIDE DEF G
  <2> QED BY <1>1, SubsetInduction
<1> QED BY <1>2

\* Values that are nowhere greater have a sum that is not greater.
LEMMA SumMonotone ==
  ASSUME NEW f, NEW g, NEW S, IsFiniteSet(S),
         \A x \in S : f[x] \in Nat /\ g[x] \in Nat /\ f[x] <= g[x]
  PROVE  SumFunctionOnSet(f, S) <= SumFunctionOnSet(g, S)
<1> DEFINE G == {T \in SUBSET S : SumFunctionOnSet(f, T) <= SumFunctionOnSet(g, T)}
<1>1. ASSUME NEW T \in SUBSET S, \A U \in SUBSET T : U # T => U \in G
      PROVE  T \in G
  <2>1. IsFiniteSet(T)
    BY FS_Subset
  <2>2. CASE T # {}
    <3>1. Pick(T) \in T
      BY <2>2, PickIn
    <3> DEFINE R == T \ {Pick(T)}
    <3>2. IsFiniteSet(R) /\ SumFunctionOnSet(f, R) <= SumFunctionOnSet(g, R)
      BY <1>1, <2>1, <3>1, FS_Subset
    <3>3. SumFunctionOnSet(f, R) \in Nat /\ SumFunctionOnSet(g, R) \in Nat
      BY <3>2, SumNat
    <3>4. /\ SumFunctionOnSet(f, T) = f[Pick(T)] + SumFunctionOnSet(f, R)
          /\ SumFunctionOnSet(g, T) = g[Pick(T)] + SumFunctionOnSet(g, R)
      BY <2>1, <2>2, SumStep
    <3>5. SumFunctionOnSet(f, T) <= SumFunctionOnSet(g, T)
      <4> HIDE DEF R
      <4> QED BY <3>1, <3>2, <3>3, <3>4
    <3> QED BY <3>5
  <2> QED BY <2>2, SumEmpty
<1>2. S \in G
  <2> HIDE DEF G
  <2> QED BY <1>1, SubsetInduction
<1> QED BY <1>2
=============================================================================
