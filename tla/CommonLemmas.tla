---------------------------- MODULE CommonLemmas ----------------------------
(***************************************************************************)
(* What the proofs share.                                                  *)
(*                                                                         *)
(* What the library has no theorem for: induction as facts about sets of   *)
(* sets and of numbers, least and greatest elements, the elements of a set *)
(* by their rank, and the sums of Functions!SumFunctionOnSet.  The library *)
(* folds a set by a recursive function on its subsets; that there is such  *)
(* a function, and only one, follows by taking a least subset without it.  *)
(*                                                                         *)
(* And what build_execution_plan returns (radp/coordinator/                *)
(* recovery_plan.py), for every placement, recovery table and dead set.    *)
(***************************************************************************)
EXTENDS RecoveryPlan, Integers, FiniteSets, FiniteSetsExt, Functions, SequencesExt,
        FiniteSetTheorems, SequenceTheorems, TLAPS

\* Induction over the subsets of a finite set, as a fact about a set of sets.
LEMMA SubsetInduction ==
  ASSUME NEW S, IsFiniteSet(S), NEW G,
         \A T \in SUBSET S : (\A U \in SUBSET T : U # T => U \in G) => T \in G
  PROVE  \A T \in SUBSET S : T \in G
<1> DEFINE B == (SUBSET S) \ G
<1>1. SUFFICES ASSUME B # {} PROVE FALSE
  OBVIOUS
<1>2. IsWellFoundedOn(StrictSubsetOrdering(S), FiniteSubsetsOf(S))
  BY FS_StrictSubsetOrderingWellFounded
<1>3. B \subseteq FiniteSubsetsOf(S)
  BY FS_Subset DEF FiniteSubsetsOf
<1> HIDE DEF B
<1>4. PICK T \in B : \A U \in B : ~(<<U, T>> \in StrictSubsetOrdering(S))
  BY <1>1, <1>2, <1>3, WFMin
<1>5. T \in SUBSET S /\ T \notin G
  BY DEF B
<1>6. ASSUME NEW U \in SUBSET T, U # T
      PROVE  U \in G
  <2>1. <<U, T>> \in (SUBSET S) \X (SUBSET S) /\ <<U, T>>[1] = U /\ <<U, T>>[2] = T
    BY <1>5
  <2>2. <<U, T>> \in StrictSubsetOrdering(S)
    BY <1>6, <2>1 DEF StrictSubsetOrdering
  <2>3. U \notin B
    BY <1>4, <2>2
  <2> QED
    BY <1>5, <2>3 DEF B
<1> QED
  BY <1>5, <1>6

\* Every nonempty set of numbers has a least one.
LEMMA Least ==
  ASSUME NEW T \in SUBSET Nat, T # {}
  PROVE  \E m \in T : \A n \in T : m <= n
<1> PICK n \in T : TRUE
  OBVIOUS
<1> DEFINE S == 1..n
           G == {U \in SUBSET S : \A m \in T : U = 1..m => \E l \in T : \A k \in T : l <= k}
<1>1. IsFiniteSet(S)
  BY FS_Interval
<1>2. ASSUME NEW U \in SUBSET S, \A V \in SUBSET U : V # U => V \in G
      PROVE  U \in G
  <2>1. SUFFICES ASSUME NEW m \in T, U = 1..m PROVE \E l \in T : \A k \in T : l <= k
    OBVIOUS
  <2>2. CASE \E k \in T : k < m
    <3>1. PICK k \in T : k < m
      BY <2>2
    <3>2. 1..k \in SUBSET U /\ m \in U /\ m \notin 1..k
      BY <2>1, <3>1
    <3>3. 1..k \in G
      BY <1>2, <3>2
    <3> QED
      BY <3>3
  <2>3. CASE \A k \in T : ~(k < m)
    BY <2>3
  <2> QED
    BY <2>2, <2>3
<1>3. S \in G
  <2> HIDE DEF S, G
  <2>1. \A U \in SUBSET S : U \in G
    BY <1>1, <1>2, SubsetInduction
  <2> QED
    BY <2>1
<1> QED
  BY <1>3

First(s) == CHOOSE x \in s : TRUE
IsSum(g, f, S) ==
  g = [s \in SUBSET S |-> IF s = {} THEN 0 ELSE f[First(s)] + g[s \ {First(s)}]]

LEMMA FirstIn == ASSUME NEW s, s # {} PROVE First(s) \in s
  BY DEF First

LEMMA SumChosen ==
  ASSUME NEW f, NEW S, NEW h, IsSum(h, f, S)
  PROVE  \E g : IsSum(g, f, S) /\ SumFunctionOnSet(f, S) = g[S]
<1> DEFINE iter == CHOOSE g : IsSum(g, f, S)
<1>1. IsSum(iter, f, S)
  OBVIOUS
<1>2. SumFunctionOnSet(f, S) = iter[S]
  BY DEF SumFunctionOnSet, FoldFunctionOnSet, MapThenFoldSet, IsSum, First
<1> QED
  BY <1>1, <1>2

LEMMA SumStep ==
  ASSUME NEW f, NEW S, NEW g, IsSum(g, f, S), NEW T \in SUBSET S
  PROVE  g[T] = IF T = {} THEN 0 ELSE f[First(T)] + g[T \ {First(T)}]
<1>1. g = [s \in SUBSET S |-> IF s = {} THEN 0 ELSE f[First(s)] + g[s \ {First(s)}]]
  BY DEF IsSum
<1> DEFINE h == [s \in SUBSET S |-> IF s = {} THEN 0 ELSE f[First(s)] + g[s \ {First(s)}]]
<1>2. h[T] = IF T = {} THEN 0 ELSE f[First(T)] + g[T \ {First(T)}]
  OBVIOUS
<1> QED
  BY <1>1, <1>2

LEMMA SumAgrees ==
  ASSUME NEW f, NEW S, NEW g, IsSum(g, f, S), NEW R, NEW h, IsSum(h, f, R),
         NEW T, T \subseteq S, T \subseteq R, IsFiniteSet(T)
  PROVE  g[T] = h[T]
<1> DEFINE G == {U \in SUBSET T : g[U] = h[U]}
<1>1. ASSUME NEW U \in SUBSET T, \A V \in SUBSET U : V # U => V \in G
      PROVE  U \in G
  <2>0. U \in SUBSET S /\ U \in SUBSET R
    OBVIOUS
  <2>1. g[U] = IF U = {} THEN 0 ELSE f[First(U)] + g[U \ {First(U)}]
    BY <2>0, SumStep
  <2>2. h[U] = IF U = {} THEN 0 ELSE f[First(U)] + h[U \ {First(U)}]
    BY <2>0, SumStep
  <2>3. U # {} => U \ {First(U)} \in G
    BY <1>1, FirstIn
  <2> QED
    BY <2>1, <2>2, <2>3
<1> HIDE DEF G
<1>2. T \in G
  BY <1>1, SubsetInduction
<1> QED
  BY <1>2 DEF G

LEMMA SumExists ==
  ASSUME NEW f, NEW S, IsFiniteSet(S)
  PROVE  \E g : IsSum(g, f, S)
<1> DEFINE G == {U \in SUBSET S : \E g : IsSum(g, f, U)}
<1>1. ASSUME NEW U \in SUBSET S, \A V \in SUBSET U : V # U => V \in G
      PROVE  U \in G
  <2> DEFINE H(V) == CHOOSE g : IsSum(g, f, V)
             h == [s \in SUBSET U |-> IF s = {} THEN 0
                                      ELSE f[First(s)] + H(s \ {First(s)})[s \ {First(s)}]]
  <2>1. ASSUME NEW V \in SUBSET U, V # U
        PROVE  IsSum(H(V), f, V)
    BY <1>1, <2>1
  <2> HIDE DEF H
  <2>2. ASSUME NEW s \in SUBSET U, s # {}
        PROVE  h[s \ {First(s)}] = H(s \ {First(s)})[s \ {First(s)}]
    <3> DEFINE V == s \ {First(s)}
    <3>1. V \in SUBSET U /\ V # U
      BY <2>2, FirstIn
    <3>2. IsSum(H(V), f, V)
      BY <2>1, <3>1
    <3>3. h[V] = IF V = {} THEN 0 ELSE f[First(V)] + H(V \ {First(V)})[V \ {First(V)}]
      BY <3>1
    <3>4. H(V)[V] = IF V = {} THEN 0 ELSE f[First(V)] + H(V)[V \ {First(V)}]
      <4> HIDE DEF V
      <4> QED
        BY <3>2, SumStep
    <3>5. ASSUME V # {}
          PROVE  H(V \ {First(V)})[V \ {First(V)}] = H(V)[V \ {First(V)}]
      <4> DEFINE W == V \ {First(V)}
      <4>1. W \in SUBSET U /\ W # U /\ W \subseteq V
        BY <3>1, <3>5, FirstIn
      <4>2. IsSum(H(W), f, W)
        BY <2>1, <4>1
      <4>3. IsFiniteSet(W)
        BY <4>1, FS_Subset
      <4> HIDE DEF W, V, h
      <4>4. H(W)[W] = H(V)[W]
        BY <3>2, <4>1, <4>2, <4>3, SumAgrees
      <4> QED
        BY <4>4 DEF W
    <3> QED
      BY <3>3, <3>4, <3>5
  <2>3. h = [s \in SUBSET U |-> IF s = {} THEN 0 ELSE f[First(s)] + h[s \ {First(s)}]]
    BY <2>2
  <2>4. IsSum(h, f, U)
    BY <2>3 DEF IsSum
  <2> QED
    BY <2>4
<1> HIDE DEF G
<1>2. S \in G
  BY <1>1, SubsetInduction
<1> QED
  BY <1>2 DEF G

LEMMA SumOfNone ==
  ASSUME NEW f
  PROVE  SumFunctionOnSet(f, {}) = 0
<1>1. PICK g : IsSum(g, f, {}) /\ SumFunctionOnSet(f, {}) = g[{}]
  BY SumExists, SumChosen, FS_EmptySet
<1> QED
  BY <1>1, SumStep

LEMMA SumOfFirst ==
  ASSUME NEW f, NEW S, IsFiniteSet(S), S # {}
  PROVE  SumFunctionOnSet(f, S) = f[First(S)] + SumFunctionOnSet(f, S \ {First(S)})
<1> DEFINE T == S \ {First(S)}
<1>1. T \subseteq S /\ IsFiniteSet(T)
  BY FS_Subset
<1> HIDE DEF T
<1>2. PICK g : IsSum(g, f, S) /\ SumFunctionOnSet(f, S) = g[S]
  BY SumExists, SumChosen
<1>3. PICK h : IsSum(h, f, T) /\ SumFunctionOnSet(f, T) = h[T]
  BY <1>1, SumExists, SumChosen
<1>4. g[T] = h[T]
  BY <1>1, <1>2, <1>3, SumAgrees
<1>5. g[S] = f[First(S)] + g[T]
  BY <1>2, SumStep DEF T
<1> QED
  BY <1>2, <1>3, <1>4, <1>5 DEF T

LEMMA SumIsNat ==
  ASSUME NEW f, NEW S, IsFiniteSet(S), \A x \in S : f[x] \in Nat
  PROVE  SumFunctionOnSet(f, S) \in Nat
<1> DEFINE G == {U \in SUBSET S : SumFunctionOnSet(f, U) \in Nat}
<1>1. ASSUME NEW U \in SUBSET S, \A V \in SUBSET U : V # U => V \in G
      PROVE  U \in G
  <2>1. CASE U = {}
    BY <2>1, SumOfNone
  <2>2. CASE U # {}
    <3>1. First(U) \in U /\ IsFiniteSet(U)
      BY <2>2, FirstIn, FS_Subset
    <3>2. U \ {First(U)} \in G
      BY <1>1, <3>1
    <3>3. SumFunctionOnSet(f, U) = f[First(U)] + SumFunctionOnSet(f, U \ {First(U)})
      BY <2>2, <3>1, SumOfFirst
    <3> QED
      BY <3>1, <3>2, <3>3
  <2> QED
    BY <2>1, <2>2
<1> HIDE DEF G
<1>2. S \in G
  BY <1>1, SubsetInduction
<1> QED
  BY <1>2 DEF G

\* Any element may be taken out first.
LEMMA SumWithout ==
  ASSUME NEW f, NEW S, IsFiniteSet(S), \A x \in S : f[x] \in Nat, NEW y \in S
  PROVE  SumFunctionOnSet(f, S) = f[y] + SumFunctionOnSet(f, S \ {y})
<1> DEFINE Sum(U) == SumFunctionOnSet(f, U)
           G == {U \in SUBSET S : \A z \in U : Sum(U) = f[z] + Sum(U \ {z})}
<1>1. ASSUME NEW U \in SUBSET S, \A V \in SUBSET U : V # U => V \in G
      PROVE  U \in G
  <2> SUFFICES ASSUME NEW z \in U PROVE Sum(U) = f[z] + Sum(U \ {z})
    OBVIOUS
  <2> DEFINE a == First(U)
  <2>1. a \in U /\ IsFiniteSet(U)
    BY FirstIn, FS_Subset
  <2>2. Sum(U) = f[a] + Sum(U \ {a})
    BY <2>1, SumOfFirst
  <2>3. CASE z # a
    <3>1. U \ {a} \in G /\ z \in U \ {a}
      BY <1>1, <2>1, <2>3
    <3>2. U \ {z} \in G /\ a \in U \ {z}
      BY <1>1, <2>1, <2>3
    <3>3. (U \ {a}) \ {z} = (U \ {z}) \ {a} /\ IsFiniteSet((U \ {a}) \ {z})
      BY <2>1, FS_Subset
    <3>4. Sum((U \ {a}) \ {z}) \in Nat
      BY <3>3, SumIsNat
    <3>5. f[a] \in Nat /\ f[z] \in Nat
      BY <2>1
    <3> HIDE DEF Sum, a
    <3>6. Sum(U \ {a}) = f[z] + Sum((U \ {a}) \ {z})
      BY <3>1
    <3>7. Sum(U \ {z}) = f[a] + Sum((U \ {a}) \ {z})
      BY <3>2, <3>3
    <3> QED
      BY <2>2, <3>4, <3>5, <3>6, <3>7
  <2> QED
    BY <2>2, <2>3
<1> HIDE DEF G
<1>2. S \in G
  BY <1>1, SubsetInduction
<1> QED
  BY <1>2 DEF G

LEMMA SameSum ==
  ASSUME NEW f, NEW g, NEW S, IsFiniteSet(S), \A x \in S : f[x] = g[x]
  PROVE  SumFunctionOnSet(f, S) = SumFunctionOnSet(g, S)
<1> DEFINE G == {U \in SUBSET S : SumFunctionOnSet(f, U) = SumFunctionOnSet(g, U)}
<1>1. ASSUME NEW U \in SUBSET S, \A V \in SUBSET U : V # U => V \in G
      PROVE  U \in G
  <2>1. CASE U = {}
    BY <2>1, SumOfNone
  <2>2. CASE U # {}
    <3>1. First(U) \in U /\ IsFiniteSet(U)
      BY <2>2, FirstIn, FS_Subset
    <3>2. U \ {First(U)} \in G
      BY <1>1, <3>1
    <3> QED
      BY <2>2, <3>1, <3>2, SumOfFirst
  <2> QED
    BY <2>1, <2>2
<1> HIDE DEF G
<1>2. S \in G
  BY <1>1, SubsetInduction
<1> QED
  BY <1>2 DEF G

\* The sum over a set is that over a part of it and that over the rest.
LEMMA SumOfParts ==
  ASSUME NEW f, NEW S, IsFiniteSet(S), \A x \in S : f[x] \in Nat, NEW T \in SUBSET S
  PROVE  SumFunctionOnSet(f, S) = SumFunctionOnSet(f, T) + SumFunctionOnSet(f, S \ T)
<1> DEFINE Sum(U) == SumFunctionOnSet(f, U)
           G == {U \in SUBSET S : Sum(S) = Sum(U) + Sum(S \ U)}
<1>0. \A U \in SUBSET S : IsFiniteSet(U) /\ Sum(U) \in Nat
  BY FS_Subset, SumIsNat
<1>1. ASSUME NEW U \in SUBSET S, \A V \in SUBSET U : V # U => V \in G
      PROVE  U \in G
  <2>1. CASE U = {}
    <3>1. S \ U = S /\ Sum(U) = 0
      BY <2>1, SumOfNone
    <3> QED
      BY <1>0, <3>1
  <2>2. CASE U # {}
    <3> PICK a \in U : TRUE
      BY <2>2
    <3> DEFINE V == U \ {a}
    <3>1. V \in G
      BY <1>1
    <3>2. Sum(U) = f[a] + Sum(V)
      BY <1>0, SumWithout
    <3>3. (S \ V) \ {a} = S \ U /\ a \in S \ V /\ S \ V \in SUBSET S /\ S \ U \in SUBSET S
      OBVIOUS
    <3>4. Sum(S \ V) = f[a] + Sum(S \ U)
      BY <1>0, <3>3, SumWithout
    <3>5. Sum(V) \in Nat /\ Sum(S \ U) \in Nat /\ f[a] \in Nat
      BY <1>0, <3>3
    <3>6. Sum(S) = Sum(V) + Sum(S \ V)
      BY <3>1
    <3> HIDE DEF Sum, V
    <3> QED
      BY <3>2, <3>4, <3>5, <3>6
  <2> QED
    BY <2>1, <2>2
<1> HIDE DEF G
<1>2. T \in G
  BY <1>1, SubsetInduction
<1> QED
  BY <1>2 DEF G

ImageOf(s, S) == {s[i] : i \in S}

\* A sum over the image of a set under an injective function.
LEMMA SumOfImage ==
  ASSUME NEW S, IsFiniteSet(S), NEW s, \A i, j \in S : s[i] = s[j] => i = j,
         NEW f, NEW g, \A i \in S : g[i] = f[s[i]] /\ g[i] \in Nat
  PROVE  SumFunctionOnSet(g, S) = SumFunctionOnSet(f, ImageOf(s, S))
<1> DEFINE Image(U) == {s[i] : i \in U}
           G == {U \in SUBSET S : IsFiniteSet(Image(U))
                                  /\ SumFunctionOnSet(g, U) = SumFunctionOnSet(f, Image(U))}
<1>0. \A i \in S : g[i] = f[s[i]] /\ g[i] \in Nat
  OBVIOUS
<1>1. ASSUME NEW U \in SUBSET S, \A V \in SUBSET U : V # U => V \in G
      PROVE  U \in G
  <2>1. CASE U = {}
    <3>1. Image(U) = {}
      BY <2>1
    <3> QED
      BY <2>1, <3>1, SumOfNone, FS_EmptySet
  <2>2. CASE U # {}
    <3> PICK a \in U : TRUE
      BY <2>2
    <3> DEFINE V == U \ {a}
    <3>1. V \in G /\ IsFiniteSet(U)
      BY <1>1, FS_Subset
    <3>2. Image(U) = Image(V) \cup {s[a]} /\ s[a] \notin Image(V) /\ Image(U) \ {s[a]} = Image(V)
      OBVIOUS
    <3>3. IsFiniteSet(Image(U))
      <4>1. IsFiniteSet(Image(V))
        BY <3>1
      <4> HIDE DEF Image, V
      <4> QED
        BY <3>2, <4>1, FS_AddElement
    <3>4. SumFunctionOnSet(g, U) = g[a] + SumFunctionOnSet(g, V)
      BY <1>0, <3>1, SumWithout
    <3>5. SumFunctionOnSet(f, Image(U)) = f[s[a]] + SumFunctionOnSet(f, Image(V))
      <4>1. \A x \in Image(U) : f[x] \in Nat
        OBVIOUS
      <4>2. s[a] \in Image(U)
        OBVIOUS
      <4> HIDE DEF Image, V
      <4> QED
        BY <3>2, <3>3, <4>1, <4>2, SumWithout
    <3>6. SumFunctionOnSet(g, V) = SumFunctionOnSet(f, Image(V))
      BY <3>1
    <3> QED
      BY <1>0, <3>3, <3>4, <3>5, <3>6
  <2> QED
    BY <2>1, <2>2
<1> HIDE DEF G
<1>2. S \in G
  BY <1>1, SubsetInduction
<1> QED
  BY <1>2 DEF G, ImageOf

-----------------------------------------------------------------------------
(* Numbers.                                                                 *)

\* Induction over an interval, as a fact about a set of numbers.
LEMMA UpTo ==
  ASSUME NEW a \in Int, NEW b \in Int, NEW G,
         a <= b => a \in G,
         \A k \in a..(b - 1) : k \in G => k + 1 \in G
  PROVE  \A k \in a..b : k \in G
<1> DEFINE B == {k \in Nat : a + k <= b /\ a + k \notin G}
<1>1. SUFFICES ASSUME B # {} PROVE FALSE
  <2> SUFFICES ASSUME NEW k \in a..b, k \notin G PROVE B # {}
    OBVIOUS
  <2>1. k - a \in Nat /\ a + (k - a) = k /\ k <= b
    OBVIOUS
  <2>2. k - a \in B
    BY <2>1
  <2> QED
    BY <2>2
<1> HIDE DEF B
<1>2. PICK m \in B : \A n \in B : m <= n
  <2>1. B \in SUBSET Nat
    BY DEF B
  <2> QED
    BY <1>1, <2>1, Least
<1>3. m \in Nat /\ a + m <= b /\ a + m \notin G
  BY DEF B
<1>4. m # 0
  BY <1>3
<1>5. m - 1 \in Nat /\ m - 1 \notin B
  BY <1>2, <1>3, <1>4
<1>6. a + (m - 1) \in G
  BY <1>3, <1>5 DEF B
<1>7. a + (m - 1) \in a..(b - 1) /\ (a + (m - 1)) + 1 = a + m
  BY <1>3, <1>5
<1> QED
  BY <1>3, <1>6, <1>7

\* Quotients and remainders.
LEMMA Division ==
  ASSUME NEW a \in Nat, NEW b \in Nat \ {0}
  PROVE  /\ a \div b \in Nat /\ a % b \in 0..(b - 1)
         /\ a = b * (a \div b) + (a % b)
  OBVIOUS

LEMMA Multiples ==
  ASSUME NEW n \in Nat, NEW q \in Nat
  PROVE  n * q \in Nat /\ (n + 1) * q = n * q + q
  OBVIOUS

LEMMA MinOf ==
  ASSUME NEW T \in SUBSET Nat, T # {}
  PROVE  Min(T) \in T /\ Min(T) \in Nat /\ \A n \in T : Min(T) <= n
  BY Least DEF Min

\* Every finite, nonempty set of numbers has a greatest one.
LEMMA Greatest ==
  ASSUME NEW T \in SUBSET Nat, T # {}, IsFiniteSet(T)
  PROVE  \E m \in T : \A n \in T : n <= m
<1> DEFINE G == {U \in SUBSET T : U # {} => \E m \in U : \A n \in U : n <= m}
<1>1. ASSUME NEW U \in SUBSET T, \A V \in SUBSET U : V # U => V \in G
      PROVE  U \in G
  <2> SUFFICES ASSUME U # {} PROVE \E m \in U : \A n \in U : n <= m
    OBVIOUS
  <2> PICK a \in U : TRUE
    OBVIOUS
  <2>1. U \ {a} \in G
    BY <1>1
  <2>2. CASE U \ {a} = {}
    BY <2>2
  <2>3. CASE U \ {a} # {}
    <3> PICK m \in U \ {a} : \A n \in U \ {a} : n <= m
      BY <2>1, <2>3
    <3>1. CASE a <= m
      BY <3>1
    <3>2. CASE ~(a <= m)
      BY <3>2
    <3> QED
      BY <3>1, <3>2
  <2> QED
    BY <2>2, <2>3
<1> HIDE DEF G
<1>2. T \in G
  BY <1>1, SubsetInduction
<1> QED
  BY <1>2 DEF G

LEMMA MaxOf ==
  ASSUME NEW T \in SUBSET Nat, T # {}, IsFiniteSet(T)
  PROVE  Max(T) \in T /\ Max(T) \in Nat /\ \A n \in T : n <= Max(T)
<1>1. \E m \in T : \A n \in T : m >= n
  BY Greatest
<1> QED
  BY <1>1 DEF Max

LEMMA MaxOfTwo ==
  ASSUME NEW a \in Nat, NEW b \in Nat
  PROVE  Max({a, b}) = IF a >= b THEN a ELSE b
<1> DEFINE m == IF a >= b THEN a ELSE b
<1>1. m \in {a, b} /\ \A y \in {a, b} : m >= y
  OBVIOUS
<1>2. \A x \in {a, b} : (\A y \in {a, b} : x >= y) => x = m
  OBVIOUS
<1> QED
  BY <1>1, <1>2 DEF Max

\* A set of numbers that contains one bound of it.
LEMMA MaxIs ==
  ASSUME NEW T \in SUBSET Nat, NEW m \in T, \A n \in T : n <= m
  PROVE  Max(T) = m
<1>1. \A x \in T : (\A y \in T : x >= y) => x = m
  OBVIOUS
<1>2. \A y \in T : m >= y
  OBVIOUS
<1> QED
  BY <1>1, <1>2 DEF Max

StrictOrder(S, L) ==
  /\ \A x \in S : <<x, x>> \notin L
  /\ \A x, y, z \in S : <<x, y>> \in L /\ <<y, z>> \in L => <<x, z>> \in L
  /\ \A x, y \in S : x # y => <<x, y>> \in L \/ <<y, x>> \in L

Predecessors(S, L, s) == {t \in S : <<t, s>> \in L}

\* In a finite set with a strict total order, an element of every rank.
LEMMA RankExists ==
  ASSUME NEW S, IsFiniteSet(S), NEW L, StrictOrder(S, L), NEW i \in 1..Cardinality(S)
  PROVE  \E s \in S : Cardinality(Predecessors(S, L, s)) = i - 1
<1>0. /\ \A x \in S : <<x, x>> \notin L
      /\ \A x, y, z \in S : <<x, y>> \in L /\ <<y, z>> \in L => <<x, z>> \in L
      /\ \A x, y \in S : x # y => <<x, y>> \in L \/ <<y, x>> \in L
  BY DEF StrictOrder
<1> DEFINE Below(U, s) == {t \in U : <<t, s>> \in L}
           G == {U \in SUBSET S : /\ U # {} => \E m \in U : Below(U, m) = U \ {m}
                                  /\ \A j \in 1..Cardinality(U) :
                                       \E s \in U : Cardinality(Below(U, s)) = j - 1}
<1>1. ASSUME NEW U \in SUBSET S, \A V \in SUBSET U : V # U => V \in G
      PROVE  U \in G
  <2>1. CASE U = {}
    <3>1. Cardinality(U) = 0
      BY <2>1, FS_EmptySet
    <3> QED
      BY <2>1, <3>1
  <2>2. CASE U # {}
    <3> PICK a \in U : TRUE
      BY <2>2
    <3>1. U \ {a} \in G
      BY <1>1
    <3>2. \E m \in U : Below(U, m) = U \ {m}
      <4>1. CASE U \ {a} = {}
        <5>1. U = {a} /\ <<a, a>> \notin L
          BY <1>0, <4>1
        <5>2. Below(U, a) = U \ {a}
          BY <5>1
        <5> QED
          BY <5>2
      <4>2. CASE U \ {a} # {}
        <5> PICK m \in U \ {a} : Below(U \ {a}, m) = (U \ {a}) \ {m}
          BY <3>1, <4>2
        <5>0. \A t \in (U \ {a}) \ {m} : <<t, m>> \in L
          OBVIOUS
        <5>1. CASE <<a, m>> \in L
          <6>1. \A t \in U : <<t, m>> \in L <=> t # m
            BY <1>0, <5>0, <5>1
          <6> QED
            BY <6>1
        <5>2. CASE <<m, a>> \in L
          <6>1. \A t \in U : <<t, a>> \in L <=> t # a
            BY <1>0, <5>0, <5>2
          <6> QED
            BY <6>1
        <5> QED
          BY <1>0, <5>1, <5>2
      <4> QED
        BY <4>1, <4>2
    <3> PICK m \in U : Below(U, m) = U \ {m}
      BY <3>2
    <3> DEFINE V == U \ {m}
    <3>3. V \in G /\ IsFiniteSet(U) /\ IsFiniteSet(V)
      BY <1>1, FS_Subset
    <3>4. Cardinality(V) \in Nat /\ Cardinality(U) = Cardinality(V) + 1
      <4>1. Cardinality(V) = Cardinality(U) - 1
        BY <3>3, FS_RemoveElement
      <4>2. Cardinality(V) \in Nat /\ Cardinality(U) \in Nat
        <5> HIDE DEF V
        <5> QED
          BY <3>3, FS_CardinalityType
      <4> HIDE DEF V
      <4> QED
        BY <4>1, <4>2
    <3>5. ASSUME NEW s \in V
          PROVE  Below(U, s) = Below(V, s)
      <4>1. <<s, m>> \in L
        OBVIOUS
      <4>2. <<m, s>> \notin L
        BY <1>0, <4>1
      <4> QED
        BY <4>2
    <3>6. ASSUME NEW j \in 1..Cardinality(U)
          PROVE  \E s \in U : Cardinality(Below(U, s)) = j - 1
      <4>1. CASE j = Cardinality(U)
        <5>1. Cardinality(Below(U, m)) = Cardinality(V)
          OBVIOUS
        <5>2. Cardinality(V) = j - 1
          <6> HIDE DEF V
          <6> QED
            BY <3>4, <4>1
        <5>3. Cardinality(Below(U, m)) = j - 1
          BY <5>1, <5>2
        <5> QED
          BY <5>3
      <4>2. CASE j # Cardinality(U)
        <5>1. j \in 1..Cardinality(V)
          BY <3>4, <4>2
        <5>2. PICK s \in V : Cardinality(Below(V, s)) = j - 1
          BY <3>3, <5>1
        <5> QED
          BY <3>5, <5>2
      <4> QED
        BY <4>1, <4>2
    <3> QED
      BY <3>2, <3>6
  <2> QED
    BY <2>1, <2>2
<1> HIDE DEF G
<1>2. S \in G
  BY <1>1, SubsetInduction
<1> QED
  BY <1>2 DEF G, Predecessors

-----------------------------------------------------------------------------
(* More about sums.                                                         *)

LEMMA SumIsMonotone ==
  ASSUME NEW S, IsFiniteSet(S), NEW f, NEW g,
         \A x \in S : f[x] \in Nat /\ g[x] \in Nat /\ f[x] <= g[x]
  PROVE  SumFunctionOnSet(f, S) <= SumFunctionOnSet(g, S)
<1> DEFINE G == {U \in SUBSET S : SumFunctionOnSet(f, U) <= SumFunctionOnSet(g, U)}
<1>1. ASSUME NEW U \in SUBSET S, \A V \in SUBSET U : V # U => V \in G
      PROVE  U \in G
  <2>1. CASE U = {}
    <3>1. SumFunctionOnSet(f, U) = 0 /\ SumFunctionOnSet(g, U) = 0
      BY <2>1, SumOfNone
    <3> QED
      BY <3>1
  <2>2. CASE U # {}
    <3> DEFINE a == First(U)
               V == U \ {a}
    <3>1. a \in U /\ IsFiniteSet(U) /\ IsFiniteSet(V)
      BY <2>2, FirstIn, FS_Subset
    <3>2. V \in G
      BY <1>1, <3>1
    <3>3. /\ SumFunctionOnSet(f, U) = f[a] + SumFunctionOnSet(f, V)
          /\ SumFunctionOnSet(g, U) = g[a] + SumFunctionOnSet(g, V)
      BY <2>2, <3>1, SumOfFirst
    <3>4. SumFunctionOnSet(f, V) \in Nat /\ SumFunctionOnSet(g, V) \in Nat
      BY <3>1, SumIsNat
    <3>5. f[a] \in Nat /\ g[a] \in Nat /\ f[a] <= g[a]
      BY <3>1
    <3>6. SumFunctionOnSet(f, V) <= SumFunctionOnSet(g, V)
      BY <3>2
    <3> HIDE DEF V, a
    <3> QED
      BY <3>3, <3>4, <3>5, <3>6
  <2> QED
    BY <2>1, <2>2
<1> HIDE DEF G
<1>2. S \in G
  BY <1>1, SubsetInduction
<1> QED
  BY <1>2 DEF G

\* One more element.
LEMMA SumWith ==
  ASSUME NEW f, NEW S, IsFiniteSet(S), NEW y, y \notin S,
         \A x \in S \cup {y} : f[x] \in Nat
  PROVE  SumFunctionOnSet(f, S \cup {y}) = f[y] + SumFunctionOnSet(f, S)
<1> DEFINE T == S \cup {y}
<1>1. IsFiniteSet(T) /\ y \in T /\ T \ {y} = S
  BY FS_AddElement
<1>2. \A x \in T : f[x] \in Nat
  OBVIOUS
<1> HIDE DEF T
<1>3. SumFunctionOnSet(f, T) = f[y] + SumFunctionOnSet(f, T \ {y})
  BY <1>1, <1>2, SumWithout
<1> QED
  BY <1>1, <1>3 DEF T

\* The sum over a part is no more than the sum over all.
LEMMA SumOfLess ==
  ASSUME NEW f, NEW S, IsFiniteSet(S), \A x \in S : f[x] \in Nat, NEW T \in SUBSET S
  PROVE  SumFunctionOnSet(f, T) <= SumFunctionOnSet(f, S)
<1>1. IsFiniteSet(T) /\ IsFiniteSet(S \ T)
  BY FS_Subset
<1>2. SumFunctionOnSet(f, T) \in Nat /\ SumFunctionOnSet(f, S \ T) \in Nat
  BY <1>1, SumIsNat
<1>3. SumFunctionOnSet(f, S) = SumFunctionOnSet(f, T) + SumFunctionOnSet(f, S \ T)
  BY SumOfParts
<1> QED
  BY <1>2, <1>3

LEMMA ImageIsFinite ==
  ASSUME NEW S, IsFiniteSet(S), NEW s
  PROVE  IsFiniteSet(ImageOf(s, S))
<1> DEFINE f == [i \in S |-> s[i]]
<1>1. f \in [S -> ImageOf(s, S)] /\ \A t \in ImageOf(s, S) : \E i \in S : f[i] = t
  BY DEF ImageOf
<1> QED
  BY <1>1, FS_Surjection DEF ExistsSurjection, Surjection

\* The first of the elements with the least value.
LEMMA FirstLeast ==
  ASSUME NEW S \in SUBSET Nat, S # {}, NEW f, \A s \in S : f[s] \in Nat
  PROVE  \E b \in S : \A t \in S : f[b] < f[t] \/ (f[b] = f[t] /\ b <= t)
<1> DEFINE T == {f[s] : s \in S}
<1>1. PICK m \in T : \A n \in T : m <= n
  <2>1. T \in SUBSET Nat /\ T # {}
    OBVIOUS
  <2> HIDE DEF T
  <2> QED
    BY <2>1, Least
<1> DEFINE U == {s \in S : f[s] = m}
<1>2. PICK b \in U : \A s \in U : b <= s
  <2>1. U \in SUBSET Nat /\ U # {}
    OBVIOUS
  <2> HIDE DEF U
  <2> QED
    BY <2>1, Least
<1>3. \A t \in S : m <= f[t] /\ f[t] \in Nat /\ m \in Nat
  BY <1>1
<1> QED
  BY <1>2, <1>3

LEMMA MinOfTwo ==
  ASSUME NEW a \in Nat, NEW b \in Nat
  PROVE  Min({a, b}) = IF a <= b THEN a ELSE b
<1> DEFINE T == {a, b}
<1>1. T \in SUBSET Nat /\ T # {}
  OBVIOUS
<1>2. Min(T) \in T /\ \A n \in T : Min(T) <= n
  <2> HIDE DEF T
  <2> QED
    BY <1>1, MinOf
<1> QED
  BY <1>2

-----------------------------------------------------------------------------
(* A sequence without one of its elements.                                  *)

Once(s) == \A i, j \in DOMAIN s : s[i] = s[j] => i = j

\* Taking out an element leaves the order of the others.
LEMMA RemoveFirstEffect ==
  ASSUME NEW S, NEW s \in Seq(S), Once(s), NEW e
  PROVE  /\ RemoveFirst(s, e) \in Seq(S)
         /\ Once(RemoveFirst(s, e))
         /\ \A x : Contains(RemoveFirst(s, e), x) <=> Contains(s, x) /\ x # e
<1>1. DOMAIN s = 1..Len(s) /\ Len(s) \in Nat
  OBVIOUS
<1>2. CASE \A i \in 1..Len(s) : s[i] # e
  <2>1. RemoveFirst(s, e) = s
    BY <1>2 DEF RemoveFirst
  <2> QED
    BY <1>2, <2>1 DEF Contains
<1>3. CASE \E i \in 1..Len(s) : s[i] = e
  <2>1. PICK n \in 1..Len(s) : s[n] = e
    BY <1>3
  <2>2. {i \in 1..Len(s) : s[i] = e} = {n}
    BY <1>1, <2>1 DEF Once
  <2>3. Min({n}) = n
    BY DEF Min
  <2>4. SelectInSeq(s, LAMBDA v : v = e) = n
    BY <2>2, <2>3 DEF SelectInSeq
  <2>5. RemoveFirst(s, e) = SubSeq(s, 1, n - 1) \o SubSeq(s, n + 1, Len(s))
    BY <1>3, <2>4 DEF RemoveFirst, RemoveAt
  <2> DEFINE a == SubSeq(s, 1, n - 1)
             b == SubSeq(s, n + 1, Len(s))
             t == a \o b
  <2>6. /\ a \in Seq(S) /\ Len(a) = n - 1
        /\ \A i \in 1..(n - 1) : a[i] = s[i]
    <3>1. 1 \in Int /\ n - 1 \in Int /\ \A i \in 1..(n - 1) : s[i] \in S
      BY <1>1
    <3>2. /\ a \in Seq(S) /\ Len(a) = IF 1 <= n - 1 THEN n - 1 - 1 + 1 ELSE 0
          /\ \A i \in 1..(n - 1 - 1 + 1) : a[i] = s[1 + i - 1]
      BY <3>1, SubSeqProperties
    <3> HIDE DEF a
    <3> QED
      BY <1>1, <3>2
  <2>7. /\ b \in Seq(S) /\ Len(b) = Len(s) - n
        /\ \A i \in 1..(Len(s) - n) : b[i] = s[n + i]
    <3>1. n + 1 \in Int /\ Len(s) \in Int /\ \A i \in (n + 1)..Len(s) : s[i] \in S
      BY <1>1
    <3>2. /\ b \in Seq(S) /\ Len(b) = IF n + 1 <= Len(s) THEN Len(s) - (n + 1) + 1 ELSE 0
          /\ \A i \in 1..(Len(s) - (n + 1) + 1) : b[i] = s[n + 1 + i - 1]
      BY <3>1, SubSeqProperties
    <3> HIDE DEF b
    <3>3. Len(b) = Len(s) - n
      <4>1. Len(b) = IF n + 1 <= Len(s) THEN Len(s) - (n + 1) + 1 ELSE 0
        BY <3>2
      <4>2. n \in Nat /\ Len(s) \in Nat /\ n <= Len(s)
        BY <1>1
      <4> HIDE DEF a, t
      <4> QED
        BY <4>1, <4>2
    <3>4. ASSUME NEW i \in 1..(Len(s) - n)
          PROVE  b[i] = s[n + i]
      <4>1. n + 1 + i - 1 = n + i /\ i \in 1..(Len(s) - (n + 1) + 1)
        BY <1>1
      <4>2. b[i] = s[n + 1 + i - 1]
        BY <3>2, <4>1
      <4> QED
        BY <4>1, <4>2
    <3> QED
      BY <3>2, <3>3, <3>4
  <2> HIDE DEF a, b
  <2>8. /\ t \in Seq(S) /\ Len(t) = Len(s) - 1 /\ DOMAIN t = 1..(Len(s) - 1)
        /\ \A i \in 1..(Len(s) - 1) : t[i] = IF i < n THEN s[i] ELSE s[i + 1]
    <3>1. /\ t \in Seq(S) /\ Len(t) = Len(a) + Len(b)
          /\ \A i \in 1..(Len(a) + Len(b)) :
               t[i] = IF i <= Len(a) THEN a[i] ELSE b[i - Len(a)]
      BY <2>6, <2>7, ConcatProperties
    <3> HIDE DEF t
    <3>2. DOMAIN t = 1..Len(t) /\ Len(a) + Len(b) = Len(s) - 1
      BY <1>1, <2>6, <2>7, <3>1
    <3>3. ASSUME NEW i \in 1..(Len(s) - 1)
          PROVE  t[i] = IF i < n THEN s[i] ELSE s[i + 1]
      <4>1. CASE i < n
        <5>1. i \in 1..(n - 1) /\ i <= Len(a)
          BY <1>1, <2>6, <4>1
        <5>2. a[i] = s[i]
          BY <2>6, <5>1
        <5> QED
          BY <3>1, <3>2, <4>1, <5>1, <5>2
      <4>2. CASE ~(i < n)
        <5>1. i - Len(a) \in 1..(Len(s) - n) /\ n + (i - Len(a)) = i + 1 /\ ~(i <= Len(a))
          BY <1>1, <2>6, <4>2
        <5>2. b[i - Len(a)] = s[n + (i - Len(a))]
          BY <2>7, <5>1
        <5> QED
          BY <3>1, <3>2, <4>2, <5>1, <5>2
      <4> QED
        BY <4>1, <4>2
    <3> QED
      BY <3>1, <3>2, <3>3
  <2> HIDE DEF t
  <2>9. Once(t)
    BY <1>1, <2>1, <2>8 DEF Once
  <2>10. ASSUME NEW x
        PROVE  Contains(t, x) <=> Contains(s, x) /\ x # e
    <3>1. ASSUME NEW i \in 1..Len(t), t[i] = x
          PROVE  Contains(s, x) /\ x # e
      <4>1. CASE i < n
        <5>1. i \in 1..Len(s) /\ s[i] = x /\ i # n
          BY <1>1, <2>1, <2>8, <3>1, <4>1
        <5> QED
          BY <1>1, <2>1, <5>1 DEF Once, Contains
      <4>2. CASE ~(i < n)
        <5>1. i + 1 \in 1..Len(s) /\ s[i + 1] = x /\ i + 1 # n
          BY <1>1, <2>1, <2>8, <3>1, <4>2
        <5> QED
          BY <1>1, <2>1, <5>1 DEF Once, Contains
      <4> QED
        BY <4>1, <4>2
    <3>2. ASSUME NEW i \in 1..Len(s), s[i] = x, x # e
          PROVE  Contains(t, x)
      <4>1. CASE i < n
        <5>1. i \in 1..Len(t) /\ t[i] = x
          BY <1>1, <2>1, <2>8, <3>2, <4>1
        <5> QED
          BY <5>1 DEF Contains
      <4>2. CASE ~(i < n)
        <5>1. i - 1 \in 1..Len(t) /\ t[i - 1] = x
          BY <1>1, <2>1, <2>8, <3>2, <4>2
        <5> QED
          BY <5>1 DEF Contains
      <4> QED
        BY <4>1, <4>2
    <3> QED
      BY <3>1, <3>2 DEF Contains
  <2> QED
    BY <2>5, <2>8, <2>9, <2>10 DEF t, a, b
<1> QED
  BY <1>2, <1>3

\* An element that is put at the end, where it was or was not before.
LEMMA MovedToEnd ==
  ASSUME NEW S, NEW s \in Seq(S), Once(s), NEW e \in S
  PROVE  LET order == Append(RemoveFirst(s, e), e)
         IN /\ order \in Seq(S) /\ Once(order)
            /\ \A x : Contains(order, x) <=> Contains(s, x) \/ x = e
            /\ Len(order) > 0 /\ order[Len(order)] = e
<1> DEFINE t == RemoveFirst(s, e)
<1>1. /\ t \in Seq(S) /\ Once(t)
      /\ \A x : Contains(t, x) <=> Contains(s, x) /\ x # e
  BY RemoveFirstEffect
<1> HIDE DEF t
<1> DEFINE order == Append(t, e)
<1>2. /\ order \in Seq(S) /\ Len(order) = Len(t) + 1 /\ Len(t) \in Nat
      /\ DOMAIN order = 1..Len(order) /\ DOMAIN t = 1..Len(t)
      /\ order[Len(t) + 1] = e /\ \A i \in 1..Len(t) : order[i] = t[i]
  BY <1>1
<1> HIDE DEF order
<1>3. \A x : Contains(order, x) <=> Contains(t, x) \/ x = e
  BY <1>2 DEF Contains
<1>4. \A i \in 1..Len(t) : t[i] # e
  BY <1>1 DEF Contains
<1>5. Once(order)
  BY <1>1, <1>2, <1>4 DEF Once
<1>6. Len(order) > 0 /\ order[Len(order)] = e
  BY <1>2
<1>7. order \in Seq(S) /\ \A x : Contains(order, x) <=> Contains(s, x) \/ x = e
  BY <1>1, <1>2, <1>3
<1> QED
  BY <1>5, <1>6, <1>7 DEF order, t

\* Without its first elements.
LEMMA WithoutFirst ==
  ASSUME NEW S, NEW s \in Seq(S), NEW k \in 0..Len(s)
  PROVE  LET t == SubSeq(s, k + 1, Len(s))
         IN /\ t \in Seq(S) /\ Len(t) = Len(s) - k /\ DOMAIN t = 1..(Len(s) - k)
            /\ \A i \in 1..(Len(s) - k) : t[i] = s[k + i]
<1> DEFINE t == SubSeq(s, k + 1, Len(s))
<1>1. k \in Nat /\ Len(s) \in Nat /\ k <= Len(s) /\ DOMAIN s = 1..Len(s)
  OBVIOUS
<1>2. k + 1 \in Int /\ Len(s) \in Int /\ \A i \in (k + 1)..Len(s) : s[i] \in S
  BY <1>1
<1>3. /\ t \in Seq(S)
      /\ Len(t) = IF k + 1 <= Len(s) THEN Len(s) - (k + 1) + 1 ELSE 0
      /\ \A i \in 1..(Len(s) - (k + 1) + 1) : t[i] = s[k + 1 + i - 1]
  BY <1>2, SubSeqProperties
<1> HIDE DEF t
<1>4. Len(t) = Len(s) - k
  <2>1. Len(t) = IF k + 1 <= Len(s) THEN Len(s) - (k + 1) + 1 ELSE 0
    BY <1>3
  <2>2. k \in Nat /\ Len(s) \in Nat /\ k <= Len(s)
    BY <1>1
  <2> QED
    BY <2>1, <2>2
<1>5. ASSUME NEW i \in 1..(Len(s) - k)
      PROVE  t[i] = s[k + i]
  <2>1. k + 1 + i - 1 = k + i /\ i \in 1..(Len(s) - (k + 1) + 1)
    BY <1>1
  <2>2. t[i] = s[k + 1 + i - 1]
    BY <1>3, <2>1
  <2> QED
    BY <2>1, <2>2
<1>6. DOMAIN t = 1..Len(t)
  BY <1>3
<1> QED
  BY <1>1, <1>3, <1>4, <1>5, <1>6 DEF t

\* A sum of zeros.
LEMMA SumOfZeros ==
  ASSUME NEW f, NEW S, IsFiniteSet(S), \A x \in S : f[x] = 0
  PROVE  SumFunctionOnSet(f, S) = 0
<1> DEFINE G == {U \in SUBSET S : SumFunctionOnSet(f, U) = 0}
<1>1. ASSUME NEW U \in SUBSET S, \A V \in SUBSET U : V # U => V \in G
      PROVE  U \in G
  <2>1. CASE U = {}
    BY <2>1, SumOfNone
  <2>2. CASE U # {}
    <3>1. First(U) \in U /\ IsFiniteSet(U)
      BY <2>2, FirstIn, FS_Subset
    <3>2. U \ {First(U)} \in G /\ f[First(U)] = 0
      BY <1>1, <3>1
    <3>3. SumFunctionOnSet(f, U) = f[First(U)] + SumFunctionOnSet(f, U \ {First(U)})
      BY <2>2, <3>1, SumOfFirst
    <3> QED
      BY <3>2, <3>3
  <2> QED
    BY <2>1, <2>2
<1> HIDE DEF G
<1>2. S \in G
  BY <1>1, SubsetInduction
<1> QED
  BY <1>2 DEF G

-----------------------------------------------------------------------------
(* Execution plans.                                                         *)

\* An execution plan has one stage per layer range, whether or not it is viable.
LEMMA PlanDomain ==
  ASSUME NEW p, NEW R, NEW D
  PROVE  DOMAIN build_execution_plan(p, R, D) = DOMAIN p
  BY DEF build_execution_plan

\* When build_execution_plan does not raise, every stage has a device.
LEMMA ViablePlanType ==
  ASSUME NEW p \in Placements, NEW R \in RecoveryTable, NEW D,
         Viable(p, R, D)
  PROVE  build_execution_plan(p, R, D) \in Seq(Device)
<1>1. p \in Seq(Device)
  BY DEF Placements
<1>2. \A i \in 1..Len(p) : Serving(p, R, D, i) \in Device
  BY <1>1 DEF Viable, Serving, RecoveryTable, MaybeDevice
<1>3. build_execution_plan(p, R, D) = [i \in 1..Len(p) |-> Serving(p, R, D, i)]
  BY <1>1 DEF build_execution_plan
<1> QED
  BY <1>1, <1>2, <1>3

\* The same as a function of the stages.
LEMMA ViablePlanStages ==
  ASSUME NEW p \in Placements, NEW R \in RecoveryTable, NEW D,
         Viable(p, R, D)
  PROVE  build_execution_plan(p, R, D) \in [1..Len(p) -> Device]
<1>1. p \in Seq(Device)
  BY DEF Placements
<1>2. \A i \in 1..Len(p) : Serving(p, R, D, i) \in Device
  BY <1>1 DEF Viable, Serving, RecoveryTable, MaybeDevice
<1> QED
  BY <1>1, <1>2 DEF build_execution_plan

\* With nobody dead there is always a plan.
LEMMA NobodyDead ==
  ASSUME NEW p, NEW R
  PROVE  Viable(p, R, {})
  BY DEF Viable

\* A viable plan stays viable when fewer devices are dead: what was infeasible
\* with some devices dead is infeasible with more.
LEMMA ViableMonotone ==
  ASSUME NEW p, NEW R, NEW D, NEW E, D \subseteq E, Viable(p, R, E)
  PROVE  Viable(p, R, D)
  BY DEF Viable

\* A viable plan sends nothing to a dead device.
LEMMA ViablePlanAvoidsDead ==
  ASSUME NEW p, NEW R, NEW D, Viable(p, R, D), NEW i \in DOMAIN p
  PROVE  build_execution_plan(p, R, D)[i] \notin D
  BY DEF Viable, build_execution_plan, Serving

\* Plans of two dead sets differ only at owners that are in one and not in
\* the other.
LEMMA PlansDifferAtTheFailed ==
  ASSUME NEW p, NEW R, NEW D, NEW E, D \subseteq E, NEW i \in DOMAIN p,
         build_execution_plan(p, R, E)[i] # build_execution_plan(p, R, D)[i]
  PROVE  p[i] \in E \ D
  BY DEF build_execution_plan, Serving

\* R = {} is a recovery table.
LEMMA NoBackupsType == NoBackups \in RecoveryTable
  BY DEF NoBackups, RecoveryTable, MaybeDevice
=============================================================================
