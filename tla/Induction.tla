----------------------------- MODULE Induction -----------------------------
(***************************************************************************)
(* Induction for first-order provers: over sets instead of predicates.     *)
(* What follows are the facts about recursive functions, finite sets of    *)
(* integers and sums that the proofs of Cadence and Startup share.         *)
(***************************************************************************)
EXTENDS Integers, FiniteSets, Sequences, SequencesExt, FiniteSetTheorems,
        WellFoundedInduction, TLAPS

-----------------------------------------------------------------------------
(* Numbers, and functions defined by recursion.                            *)

\* A set of numbers that holds 0 and every successor holds every number.
LEMMA NatSet ==
    ASSUME NEW S, 0 \in S, \A n \in Nat : n \in S => n + 1 \in S
    PROVE  \A n \in Nat : n \in S
<1> DEFINE T == Nat \ S
<1> DEFINE R == {ss \in Nat \X Nat : ss[1] < ss[2]}
<1> SUFFICES ASSUME T # {} PROVE FALSE
  OBVIOUS
<1>1. T \subseteq Nat
  OBVIOUS
<1>2. IsWellFoundedOn(R, Nat)
  BY NatLessThanWellFounded DEF OpToRel
<1>3. PICK x \in T : \A y \in T : ~ (<<y, x>> \in R)
  <2> HIDE DEF T, R
  <2> QED
    BY <1>1, <1>2, WFMin
<1>4. x \in Nat /\ x # 0 /\ x - 1 \in Nat /\ x - 1 \notin T
  <2>1. x \in Nat /\ x # 0 /\ x - 1 \in Nat
    OBVIOUS
  <2>2. <<x - 1, x>> \in R
    BY <2>1
  <2> QED
    BY <1>3, <2>1, <2>2
<1>5. x - 1 + 1 = x
  BY <1>4
<1> QED
  BY <1>4, <1>5

\* Each argument of D above level 0 is traced back to one of a lower level.
Descends(D, N, level, before) ==
    /\ level \in [D -> 0 .. N]
    /\ before \in [D -> D]
    /\ \A x \in D : level[x] # 0 => level[before[x]] < level[x]

\* g is first at level 0, and step of the value before elsewhere.
Recurses(g, D, level, before, first, step) ==
    \A x \in D : g[x] = IF level[x] = 0 THEN first[x] ELSE step[<<x, g[before[x]]>>]

\* A recursion that descends has a solution.
LEMMA Recursion ==
    ASSUME NEW D, NEW V, NEW N \in Nat,
           NEW level, NEW before, Descends(D, N, level, before),
           NEW first \in [D -> V], NEW step \in [D \X V -> V]
    PROVE  \E g \in [D -> V] : Recurses(g, D, level, before, first, step)
<1> USE DEF Descends, Recurses
<1> DEFINE Solves(g, n) ==
              \A x \in D : level[x] <= n =>
                  g[x] = IF level[x] = 0 THEN first[x] ELSE step[<<x, g[before[x]]>>]
<1> DEFINE S == {n \in Nat : \E g \in [D -> V] : Solves(g, n)}
<1>1. 0 \in S
  <2>1. Solves(first, 0)
    OBVIOUS
  <2> QED
    BY <2>1
<1>2. ASSUME NEW n \in Nat, n \in S PROVE n + 1 \in S
  <2>1. PICK g \in [D -> V] : Solves(g, n)
    BY <1>2
  <2> DEFINE h == [x \in D |-> IF level[x] = n + 1 THEN step[<<x, g[before[x]]>>] ELSE g[x]]
  <2>2. h \in [D -> V]
    OBVIOUS
  <2>3. Solves(h, n + 1)
    <3> SUFFICES ASSUME NEW x \in D, level[x] <= n + 1
                 PROVE  h[x] = IF level[x] = 0 THEN first[x] ELSE step[<<x, h[before[x]]>>]
      OBVIOUS
    <3>1. CASE level[x] = 0
      BY <2>1, <3>1
    <3>2. CASE level[x] # 0
      <4>1. level[before[x]] < level[x] /\ before[x] \in D
        BY <3>2
      <4>2. h[before[x]] = g[before[x]]
        BY <4>1
      <4>3. CASE level[x] = n + 1
        BY <4>2, <4>3, <3>2
      <4>4. CASE level[x] <= n
        BY <2>1, <4>2, <4>4, <3>2
      <4> QED
        BY <4>3, <4>4
    <3> QED
      BY <3>1, <3>2
  <2> HIDE DEF h, Solves
  <2> QED
    BY <2>2, <2>3
<1>3. N \in S
  <2> HIDE DEF S
  <2> QED
    BY <1>1, <1>2, NatSet
<1> QED
  BY <1>3

LEMMA ProductMonotone ==
    ASSUME NEW a \in Nat, NEW b \in Nat, NEW c \in Nat, b <= a
    PROVE  b * c \in Nat /\ a * c \in Nat /\ b * c <= a * c
<1>1. a * c = b * c + (a - b) * c
  OBVIOUS
<1>2. b * c \in Nat /\ a * c \in Nat /\ (a - b) * c \in Nat
  OBVIOUS
<1> QED
  BY <1>1, <1>2

-----------------------------------------------------------------------------
(* Finite sets of integers have a greatest and a least element.            *)

LEMMA MaxExists ==
    ASSUME NEW S, S \subseteq Int, S # {}, IsFiniteSet(S)
    PROVE  Max(S) \in S /\ \A y \in S : y <= Max(S)
<1> DEFINE HasMax(T) == \E x \in T : \A y \in T : x >= y
<1> DEFINE P == {n \in Nat : \A T \in SUBSET S : Cardinality(T) = n + 1 => HasMax(T)}
<1>1. 0 \in P
  <2> SUFFICES ASSUME NEW T \in SUBSET S, Cardinality(T) = 1 PROVE HasMax(T)
    OBVIOUS
  <2>1. IsFiniteSet(T)
    BY FS_Subset
  <2>2. PICK x : T = {x}
    BY <2>1, FS_Singleton
  <2> QED
    BY <2>2
<1>2. ASSUME NEW n \in Nat, n \in P PROVE n + 1 \in P
  <2> SUFFICES ASSUME NEW T \in SUBSET S, Cardinality(T) = n + 2 PROVE HasMax(T)
    OBVIOUS
  <2>1. IsFiniteSet(T)
    BY FS_Subset
  <2>2. PICK x : x \in T
    BY <2>1, FS_EmptySet
  <2>3. Cardinality(T \ {x}) = n + 1
    <3>1. Cardinality(T \ {x}) = Cardinality(T) - 1
      BY <2>1, <2>2, FS_RemoveElement
    <3> QED
      BY <3>1
  <2>4. PICK m \in T \ {x} : \A y \in T \ {x} : m >= y
    BY <1>2, <2>3
  <2>5. CASE x >= m
    BY <2>2, <2>4, <2>5
  <2>6. CASE m >= x
    BY <2>2, <2>4, <2>6
  <2> QED
    BY <2>2, <2>4, <2>5, <2>6
<1>3. Cardinality(S) \in Nat /\ Cardinality(S) # 0
  BY FS_CardinalityType, FS_EmptySet
<1>4. Cardinality(S) - 1 \in P
  <2> HIDE DEF P
  <2> QED
    BY <1>1, <1>2, <1>3, NatSet
<1>5. HasMax(S)
  BY <1>3, <1>4
<1> QED
  BY <1>5 DEF Max

LEMMA MinExists ==
    ASSUME NEW S, S \subseteq Int, S # {}, IsFiniteSet(S)
    PROVE  Min(S) \in S /\ \A y \in S : Min(S) <= y
<1> DEFINE neg == [x \in S |-> 0 - x]
<1> DEFINE T == {t \in Int : 0 - t \in S}
<1>1. T \subseteq Int /\ T # {}
  <2>1. PICK x : x \in S
    OBVIOUS
  <2>2. 0 - x \in T
    BY <2>1
  <2> QED
    BY <2>2
<1>2. IsFiniteSet(T)
  <2>1. neg \in Surjection(S, T)
    BY DEF Surjection
  <2> QED
    BY <2>1, FS_Surjection
<1>3. PICK m \in T : \A y \in T : y <= m
  <2> HIDE DEF T
  <2> QED
    BY <1>1, <1>2, MaxExists
<1>4. PICK x \in S : m = 0 - x
  BY <1>3
<1>5. \A y \in S : x <= y
  <2> TAKE y \in S
  <2>1. 0 - y \in T
    OBVIOUS
  <2>2. 0 - y <= m
    BY <1>3, <2>1
  <2> QED
    BY <1>4, <2>2
<1> QED
  BY <1>4, <1>5 DEF Min
-----------------------------------------------------------------------------
(* The sum of a function over a finite set.                                *)

Sum(f, S) == MapThenSumSet(LAMBDA x : f[x], S)

Picked(S) == CHOOSE x \in S : TRUE

\* G adds up f over the subsets of D, one element after the other.
AddsUp(G, f, D) ==
    \A s \in SUBSET D : G[s] = IF s = {} THEN 0 ELSE f[Picked(s)] + G[s \ {Picked(s)}]

LEMMA AddsUpExists ==
    ASSUME NEW D, IsFiniteSet(D), NEW f \in [D -> Nat]
    PROVE  \E G \in [SUBSET D -> Nat] : AddsUp(G, f, D)
<1> DEFINE level == [s \in SUBSET D |-> Cardinality(s)]
<1> DEFINE before == [s \in SUBSET D |-> s \ {Picked(s)}]
<1> DEFINE first == [s \in SUBSET D |-> 0]
<1> DEFINE step == [a \in (SUBSET D) \X Nat |->
                       IF a[1] = {} THEN 0 ELSE f[Picked(a[1])] + a[2]]
<1>1. Cardinality(D) \in Nat /\ level \in [SUBSET D -> 0 .. Cardinality(D)]
  BY FS_CardinalityType, FS_Subset
<1>2. before \in [SUBSET D -> SUBSET D] /\ first \in [SUBSET D -> Nat]
  OBVIOUS
<1>3. step \in [(SUBSET D) \X Nat -> Nat]
  BY DEF Picked
<1>4. \A s \in SUBSET D : level[s] = 0 <=> s = {}
  BY FS_Subset, FS_EmptySet
<1>5. ASSUME NEW s \in SUBSET D, level[s] # 0 PROVE level[before[s]] < level[s]
  <2>0. s # {}
    BY <1>4, <1>5
  <2>1. Picked(s) \in s /\ IsFiniteSet(s) /\ Cardinality(s) \in Nat
    <3>1. Picked(s) \in s
      BY <2>0 DEF Picked
    <3>2. IsFiniteSet(s)
      BY FS_Subset
    <3> QED
      BY <3>1, <3>2, FS_CardinalityType
  <2>2. Cardinality(s \ {Picked(s)}) = Cardinality(s) - 1
    BY <2>1, FS_RemoveElement
  <2> QED
    BY <2>1, <2>2
<1>6. PICK G \in [SUBSET D -> Nat] : Recurses(G, SUBSET D, level, before, first, step)
  <2>1. Descends(SUBSET D, Cardinality(D), level, before)
    BY <1>1, <1>2, <1>5 DEF Descends
  <2> HIDE DEF level, before, first, step
  <2> QED
    BY <1>1, <1>2, <1>3, <2>1, Recursion
<1>7. ASSUME NEW s \in SUBSET D
      PROVE  G[s] = IF s = {} THEN 0 ELSE f[Picked(s)] + G[s \ {Picked(s)}]
  <2>1. CASE s = {}
    BY <1>4, <1>6, <2>1 DEF Recurses
  <2>2. CASE s # {}
    <3>1. before[s] = s \ {Picked(s)} /\ G[before[s]] \in Nat
      OBVIOUS
    <3>2. step[<<s, G[before[s]]>>] = f[Picked(s)] + G[before[s]]
      BY <2>2, <3>1
    <3> QED
      BY <1>4, <1>6, <2>2, <3>1, <3>2 DEF Recurses
  <2> QED
    BY <2>1, <2>2
<1> QED
  BY <1>7 DEF AddsUp

\* Any two such functions agree where both are defined.
LEMMA AddsUpUnique ==
    ASSUME NEW D, IsFiniteSet(D), NEW f, NEW G, AddsUp(G, f, D),
           NEW S \in SUBSET D, NEW H, AddsUp(H, f, S)
    PROVE  G[S] = H[S]
<1> DEFINE P == {n \in Nat : \A s \in SUBSET S : Cardinality(s) = n => G[s] = H[s]}
<1>1. 0 \in P
  <2> SUFFICES ASSUME NEW s \in SUBSET S, Cardinality(s) = 0 PROVE G[s] = H[s]
    OBVIOUS
  <2>1. s = {}
    BY FS_Subset, FS_EmptySet
  <2> QED
    BY <2>1 DEF AddsUp
<1>2. ASSUME NEW n \in Nat, n \in P PROVE n + 1 \in P
  <2> SUFFICES ASSUME NEW s \in SUBSET S, Cardinality(s) = n + 1 PROVE G[s] = H[s]
    OBVIOUS
  <2>1. IsFiniteSet(s) /\ s # {}
    BY FS_Subset, FS_EmptySet
  <2>2. Picked(s) \in s
    BY <2>1 DEF Picked
  <2>3. Cardinality(s \ {Picked(s)}) = n
    <3>1. Cardinality(s \ {Picked(s)}) = Cardinality(s) - 1
      BY <2>1, <2>2, FS_RemoveElement
    <3> QED
      BY <3>1
  <2>4. G[s \ {Picked(s)}] = H[s \ {Picked(s)}]
    BY <1>2, <2>3
  <2> QED
    BY <2>1, <2>4 DEF AddsUp
<1>3. IsFiniteSet(S) /\ Cardinality(S) \in Nat
  BY FS_Subset, FS_CardinalityType
<1>4. Cardinality(S) \in P
  <2> HIDE DEF P
  <2> QED
    BY <1>1, <1>2, <1>3, NatSet
<1> QED
  BY <1>4

\* What MapThenSumSet computes.
LEMMA SumIs ==
    ASSUME NEW D, IsFiniteSet(D), NEW f \in [D -> Nat],
           NEW G \in [SUBSET D -> Nat], AddsUp(G, f, D), NEW S \in SUBSET D
    PROVE  Sum(f, S) = G[S]
<1> DEFINE Iter(h) == h = [s \in SUBSET S |->
                             IF s = {} THEN 0
                             ELSE f[CHOOSE x \in s : TRUE] + h[s \ {CHOOSE x \in s : TRUE}]]
<1>1. Iter([s \in SUBSET S |-> G[s]])
  <2> DEFINE g == [s \in SUBSET S |-> G[s]]
  <2> SUFFICES ASSUME NEW s \in SUBSET S
               PROVE  g[s] = IF s = {} THEN 0
                             ELSE f[CHOOSE x \in s : TRUE] + g[s \ {CHOOSE x \in s : TRUE}]
    BY Zenon
  <2> QED
    BY DEF AddsUp, Picked
<1>2. PICK h : Iter(h) /\ Sum(f, S) = h[S]
  <2> DEFINE it == CHOOSE h : Iter(h)
  <2>1. Iter(it)
    <3> HIDE DEF Iter
    <3> QED
      BY <1>1, Zenon
  <2>2. Sum(f, S) = it[S]
    BY DEF Sum, MapThenSumSet, MapThenFoldSet
  <2> QED
    BY <2>1, <2>2
<1>3. AddsUp(h, f, S)
  <2>1. ASSUME NEW s \in SUBSET S
        PROVE  h[s] = IF s = {} THEN 0
                      ELSE f[CHOOSE x \in s : TRUE] + h[s \ {CHOOSE x \in s : TRUE}]
    BY <1>2, Zenon
  <2> QED
    BY <2>1 DEF AddsUp, Picked
<1> QED
  BY <1>2, <1>3, AddsUpUnique

LEMMA SumType ==
    ASSUME NEW D, IsFiniteSet(D), NEW f \in [D -> Nat], NEW S \in SUBSET D
    PROVE  Sum(f, S) \in Nat
<1>1. PICK G \in [SUBSET D -> Nat] : AddsUp(G, f, D)
  BY AddsUpExists
<1>2. Sum(f, S) = G[S]
  BY <1>1, SumIs
<1>3. G[S] \in Nat
  OBVIOUS
<1> QED
  BY <1>2, <1>3

LEMMA SumEmpty ==
    ASSUME NEW D, IsFiniteSet(D), NEW f \in [D -> Nat]
    PROVE  Sum(f, {}) = 0
<1>1. PICK G \in [SUBSET D -> Nat] : AddsUp(G, f, D)
  BY AddsUpExists
<1>2. Sum(f, {}) = G[{}]
  BY <1>1, SumIs
<1> QED
  BY <1>1, <1>2 DEF AddsUp

\* The element that is taken first makes no difference.
LEMMA SumRemove ==
    ASSUME NEW D, IsFiniteSet(D), NEW f \in [D -> Nat], NEW S \in SUBSET D, NEW x \in S
    PROVE  Sum(f, S) = f[x] + Sum(f, S \ {x})
<1>1. PICK G \in [SUBSET D -> Nat] : AddsUp(G, f, D)
  BY AddsUpExists
<1> DEFINE P == {n \in Nat : \A s \in SUBSET D : Cardinality(s) = n =>
                                \A y \in s : G[s] = f[y] + G[s \ {y}]}
<1>2. 0 \in P
  <2> SUFFICES ASSUME NEW s \in SUBSET D, Cardinality(s) = 0 PROVE s = {}
    OBVIOUS
  <2> QED
    BY FS_Subset, FS_EmptySet
<1>3. ASSUME NEW n \in Nat, n \in P PROVE n + 1 \in P
  <2> SUFFICES ASSUME NEW s \in SUBSET D, Cardinality(s) = n + 1, NEW y \in s
               PROVE  G[s] = f[y] + G[s \ {y}]
    OBVIOUS
  <2> DEFINE c == Picked(s)
  <2>1. IsFiniteSet(s)
    BY FS_Subset
  <2>2. c \in s
    BY DEF Picked
  <2>3. \A z \in s : Cardinality(s \ {z}) = n
    <3> TAKE z \in s
    <3>1. Cardinality(s \ {z}) = Cardinality(s) - 1
      BY <2>1, FS_RemoveElement
    <3> QED
      BY <3>1
  <2>4. G[s] = f[c] + G[s \ {c}]
    BY <1>1, <2>2 DEF AddsUp
  <2>5. CASE y = c
    BY <2>4, <2>5
  <2>6. CASE y # c
    <3> DEFINE r == (s \ {c}) \ {y}
    <3>1. G[s \ {c}] = f[y] + G[r]
      BY <1>3, <2>2, <2>3, <2>6
    <3>2. G[s \ {y}] = f[c] + G[r]
      <4>1. r = (s \ {y}) \ {c}
        OBVIOUS
      <4>2. G[s \ {y}] = f[c] + G[(s \ {y}) \ {c}]
        BY <1>3, <2>2, <2>3, <2>6
      <4> QED
        BY <4>1, <4>2
    <3>3. f[c] \in Nat /\ f[y] \in Nat /\ G[r] \in Nat
      BY <2>2
    <3> HIDE DEF c, r
    <3> QED
      BY <2>4, <3>1, <3>2, <3>3
  <2> QED
    BY <2>5, <2>6
<1>4. IsFiniteSet(S) /\ Cardinality(S) \in Nat
  BY FS_Subset, FS_CardinalityType
<1>5. Cardinality(S) \in P
  <2> HIDE DEF P
  <2> QED
    BY <1>2, <1>3, <1>4, NatSet
<1>6. G[S] = f[x] + G[S \ {x}]
  BY <1>5
<1>7. Sum(f, S) = G[S] /\ Sum(f, S \ {x}) = G[S \ {x}]
  <2> DEFINE T == S \ {x}
  <2>1. T \in SUBSET D
    OBVIOUS
  <2> HIDE DEF P, T
  <2>2. Sum(f, S) = G[S]
    BY <1>1, SumIs
  <2>3. Sum(f, T) = G[T]
    BY <1>1, <2>1, SumIs
  <2> QED
    BY <2>2, <2>3 DEF T
<1> QED
  BY <1>6, <1>7

LEMMA SumMonotone ==
    ASSUME NEW D, IsFiniteSet(D), NEW f \in [D -> Nat],
           NEW S \in SUBSET D, NEW T \in SUBSET S
    PROVE  Sum(f, T) <= Sum(f, S)
<1> DEFINE P == {n \in Nat : \A s \in SUBSET D : Cardinality(s) = n /\ T \subseteq s =>
                                Sum(f, T) <= Sum(f, s)}
<1>1. 0 \in P
  <2> SUFFICES ASSUME NEW s \in SUBSET D, Cardinality(s) = 0, T \subseteq s
               PROVE  Sum(f, T) <= Sum(f, s)
    OBVIOUS
  <2>1. s = {} /\ T = {}
    BY FS_Subset, FS_EmptySet
  <2>2. Sum(f, {}) = 0
    BY SumEmpty
  <2> QED
    BY <2>1, <2>2
<1>2. ASSUME NEW n \in Nat, n \in P PROVE n + 1 \in P
  <2> SUFFICES ASSUME NEW s \in SUBSET D, Cardinality(s) = n + 1, T \subseteq s
               PROVE  Sum(f, T) <= Sum(f, s)
    OBVIOUS
  <2>1. Sum(f, T) \in Nat
    BY SumType
  <2>2. CASE T = s
    BY <2>1, <2>2
  <2>3. CASE T # s
    <3>1. PICK y \in s : y \notin T
      BY <2>3
    <3>2. Cardinality(s \ {y}) = n
      <4>1. Cardinality(s \ {y}) = Cardinality(s) - 1
        BY FS_Subset, FS_RemoveElement
      <4> QED
        BY <4>1
    <3>3. Sum(f, T) <= Sum(f, s \ {y})
      BY <1>2, <3>1, <3>2
    <3>4. Sum(f, s) = f[y] + Sum(f, s \ {y})
      BY SumRemove
    <3>5. Sum(f, s \ {y}) \in Nat /\ f[y] \in Nat
      BY SumType
    <3> QED
      BY <2>1, <3>3, <3>4, <3>5
  <2> QED
    BY <2>2, <2>3
<1>3. IsFiniteSet(S) /\ Cardinality(S) \in Nat
  BY FS_Subset, FS_CardinalityType
<1>4. Cardinality(S) \in P
  <2> HIDE DEF P
  <2> QED
    BY <1>1, <1>2, <1>3, NatSet
<1> QED
  BY <1>4

LEMMA SumBounded ==
    ASSUME NEW D, IsFiniteSet(D), NEW f \in [D -> Nat], NEW m \in Nat,
           \A x \in D : f[x] <= m, NEW S \in SUBSET D
    PROVE  Sum(f, S) <= Cardinality(S) * m
<1> DEFINE P == {n \in Nat : \A s \in SUBSET D : Cardinality(s) = n => Sum(f, s) <= n * m}
<1>1. 0 \in P
  <2> SUFFICES ASSUME NEW s \in SUBSET D, Cardinality(s) = 0 PROVE Sum(f, s) <= 0
    OBVIOUS
  <2>1. s = {}
    BY FS_Subset, FS_EmptySet
  <2>2. Sum(f, {}) = 0
    BY SumEmpty
  <2> QED
    BY <2>1, <2>2
<1>2. ASSUME NEW n \in Nat, n \in P PROVE n + 1 \in P
  <2> SUFFICES ASSUME NEW s \in SUBSET D, Cardinality(s) = n + 1
               PROVE  Sum(f, s) <= (n + 1) * m
    OBVIOUS
  <2>1. PICK y : y \in s
    BY FS_Subset, FS_EmptySet
  <2>2. Cardinality(s \ {y}) = n
    <3>1. Cardinality(s \ {y}) = Cardinality(s) - 1
      BY <2>1, FS_Subset, FS_RemoveElement
    <3> QED
      BY <3>1
  <2>3. Sum(f, s \ {y}) <= n * m
    BY <1>2, <2>2
  <2>4. Sum(f, s) = f[y] + Sum(f, s \ {y})
    BY <2>1, SumRemove
  <2>5. Sum(f, s \ {y}) \in Nat /\ f[y] \in Nat /\ f[y] <= m
    BY <2>1, SumType
  <2>6. n * m \in Nat /\ (n + 1) * m = n * m + m
    OBVIOUS
  <2> QED
    BY <2>3, <2>4, <2>5, <2>6
<1>3. IsFiniteSet(S) /\ Cardinality(S) \in Nat
  BY FS_Subset, FS_CardinalityType
<1>4. Cardinality(S) \in P
  <2> HIDE DEF P
  <2> QED
    BY <1>1, <1>2, <1>3, NatSet
<1> QED
  BY <1>4

-----------------------------------------------------------------------------
(* What a loop over a sequence computes: FoldLeft, one element at a time.  *)

LEMMA PlacesBounds ==
    ASSUME NEW N \in Nat, NEW S \in SUBSET (1 .. N)
    PROVE  /\ S \subseteq Int /\ IsFiniteSet(S) /\ Cardinality(S) \in 0 .. N
           /\ Cardinality(S) = 0 <=> S = {}
<1> DEFINE D == 1 .. N
<1>1. IsFiniteSet(D) /\ Cardinality(D) = N
  <2>1. 1 \in Int /\ N \in Int
    OBVIOUS
  <2>2. IsFiniteSet(D) /\ Cardinality(D) = IF 1 > N THEN 0 ELSE N - 1 + 1
    BY <2>1, FS_Interval
  <2> QED
    BY <2>2
<1>2. S \subseteq Int /\ S \in SUBSET D
  OBVIOUS
<1>3. IsFiniteSet(S) /\ Cardinality(S) <= Cardinality(D)
  <2> HIDE DEF D
  <2> QED
    BY <1>1, <1>2, FS_Subset
<1>4. Cardinality(S) \in Nat /\ (Cardinality(S) = 0 <=> S = {})
  BY <1>3, FS_CardinalityType, FS_EmptySet
<1> QED
  BY <1>1, <1>2, <1>3, <1>4

Rest(S) == S \ {Max(S)}

LEMMA RestIsSmaller ==
    ASSUME NEW N \in Nat, NEW S \in SUBSET (1 .. N), S # {}
    PROVE  /\ Max(S) \in S /\ \A y \in S : y <= Max(S)
           /\ Rest(S) \in SUBSET (1 .. N)
           /\ Cardinality(S) \in Nat /\ Cardinality(Rest(S)) = Cardinality(S) - 1
<1>1. S \subseteq Int /\ IsFiniteSet(S) /\ Cardinality(S) \in Nat
  BY PlacesBounds
<1>2. Max(S) \in S /\ \A y \in S : y <= Max(S)
  BY <1>1, MaxExists
<1>3. Cardinality(S \ {Max(S)}) = Cardinality(S) - 1
  BY <1>1, <1>2, FS_RemoveElement
<1> QED
  BY <1>1, <1>2, <1>3 DEF Rest

LEMMA RestOfPrefix ==
    ASSUME NEW n \in Nat \ {0}
    PROVE  Max(1 .. n) = n /\ Rest(1 .. n) = 1 .. n - 1
<1>1. Max(1 .. n) \in 1 .. n /\ \A y \in 1 .. n : y <= Max(1 .. n)
  <2> DEFINE D == 1 .. n
  <2>1. D \in SUBSET (1 .. n) /\ 1 \in D
    OBVIOUS
  <2>2. Max(D) \in D /\ \A y \in D : y <= Max(D)
    <3> HIDE DEF D
    <3> QED
      BY <2>1, RestIsSmaller
  <2> QED
    BY <2>2
<1>2. Max(1 .. n) = n
  <2>1. n \in 1 .. n
    OBVIOUS
  <2> QED
    BY <1>1, <2>1
<1> QED
  BY <1>2 DEF Rest

\* Two functions that start alike and go on alike.
Alike(G, H, D) ==
    /\ G[{}] = H[{}]
    /\ \A S \in SUBSET D : S # {} /\ G[Rest(S)] = H[Rest(S)] => G[S] = H[S]

LEMMA LoopsAgree ==
    ASSUME NEW N \in Nat, NEW D, D = 1 .. N, NEW G, NEW H, Alike(G, H, D)
    PROVE  G[D] = H[D]
<1> DEFINE P == {n \in Nat : \A S \in SUBSET D : Cardinality(S) = n => G[S] = H[S]}
<1>1. 0 \in P
  <2> SUFFICES ASSUME NEW S \in SUBSET D, Cardinality(S) = 0 PROVE G[S] = H[S]
    OBVIOUS
  <2>1. S = {}
    BY PlacesBounds
  <2> QED
    BY <2>1 DEF Alike
<1>2. ASSUME NEW n \in Nat, n \in P PROVE n + 1 \in P
  <2> SUFFICES ASSUME NEW S \in SUBSET D, Cardinality(S) = n + 1 PROVE G[S] = H[S]
    OBVIOUS
  <2>1. S # {}
    BY PlacesBounds
  <2>2. Rest(S) \in SUBSET D /\ Cardinality(Rest(S)) = n
    BY <2>1, RestIsSmaller
  <2>3. G[Rest(S)] = H[Rest(S)]
    BY <1>2, <2>2
  <2> QED
    BY <2>1, <2>3 DEF Alike
<1>3. \A n \in Nat : n \in P
  <2> HIDE DEF P
  <2> QED
    BY <1>1, <1>2, NatSet
<1>4. D \in SUBSET D
  OBVIOUS
<1>5. Cardinality(D) \in Nat
  BY <1>4, PlacesBounds
<1> QED
  BY <1>3, <1>4, <1>5

Steps(V, E) == [V \X E -> V]

\* G is what the loop has after each of its prefixes.
Unrolls(G, s, V, base, step) ==
    /\ G \in [SUBSET DOMAIN s -> V]
    /\ \A S \in SUBSET DOMAIN s :
          G[S] = IF S = {} THEN base ELSE step[<<G[Rest(S)], s[Max(S)]>>]

LEMMA UnrollsExists ==
    ASSUME NEW V, NEW E, NEW base \in V, NEW step \in Steps(V, E), NEW s \in Seq(E)
    PROVE  \E G : Unrolls(G, s, V, base, step)
<1> DEFINE N == Len(s)
<1> DEFINE D == SUBSET (1 .. N)
<1> DEFINE level == [S \in D |-> Cardinality(S)]
<1> DEFINE before == [S \in D |-> IF S = {} THEN S ELSE Rest(S)]
<1> DEFINE first == [S \in D |-> base]
<1> DEFINE next == [a \in D \X V |-> IF a[1] = {} THEN base ELSE step[<<a[2], s[Max(a[1])]>>]]
<1>0. N \in Nat /\ DOMAIN s = 1 .. N /\ \A i \in 1 .. N : s[i] \in E
  OBVIOUS
<1>1. \A S \in D : S # {} => Max(S) \in S /\ Rest(S) \in D
  BY <1>0, RestIsSmaller
<1>2. level \in [D -> 0 .. N] /\ \A S \in D : level[S] = 0 <=> S = {}
  BY <1>0, PlacesBounds
<1>3. before \in [D -> D] /\ first \in [D -> V]
  BY <1>1
<1>4. next \in [D \X V -> V]
  <2>1. ASSUME NEW S \in D, NEW v \in V, S # {} PROVE step[<<v, s[Max(S)]>>] \in V
    <3>1. s[Max(S)] \in E
      BY <1>0, <1>1, <2>1
    <3> QED
      BY <3>1 DEF Steps
  <2> HIDE DEF N
  <2> QED
    BY <2>1
<1>5. ASSUME NEW S \in D, level[S] # 0 PROVE level[before[S]] < level[S]
  <2>1. S # {}
    BY <1>2, <1>5
  <2>2. Rest(S) \in D /\ Cardinality(S) \in Nat /\ Cardinality(Rest(S)) = Cardinality(S) - 1
    BY <1>0, <2>1, RestIsSmaller
  <2>3. level[S] = Cardinality(S) /\ level[before[S]] = Cardinality(Rest(S))
    BY <2>1, <2>2
  <2> QED
    BY <2>2, <2>3
<1>6. Descends(D, N, level, before)
  <2> HIDE DEF level, before, D, N
  <2> QED
    BY <1>2, <1>3, <1>5 DEF Descends
<1>7. PICK G \in [D -> V] : Recurses(G, D, level, before, first, next)
  <2> HIDE DEF D, N, level, before, first, next
  <2> QED
    BY <1>0, <1>3, <1>4, <1>6, Recursion
<1>8. ASSUME NEW S \in D
      PROVE  G[S] = IF S = {} THEN base ELSE step[<<G[Rest(S)], s[Max(S)]>>]
  <2>1. CASE S = {}
    BY <1>2, <1>7, <2>1 DEF Recurses
  <2>2. CASE S # {}
    <3>1. before[S] = Rest(S) /\ G[Rest(S)] \in V
      BY <1>1, <2>2
    <3>2. next[<<S, G[Rest(S)]>>] = step[<<G[Rest(S)], s[Max(S)]>>]
      BY <2>2, <3>1
    <3>3. level[S] # 0
      BY <1>2, <2>2
    <3>4. G[S] = next[<<S, G[before[S]]>>]
      <4> HIDE DEF next, before, level, D
      <4> QED
        BY <1>7, <3>3 DEF Recurses
    <3> QED
      BY <2>2, <3>1, <3>2, <3>4
  <2> QED
    BY <2>1, <2>2
<1> QED
  BY <1>0, <1>8 DEF Unrolls

Folded(step, base, s) == FoldLeft(LAMBDA v, e : step[<<v, e>>], base, s)

LEMMA FoldedIs ==
    ASSUME NEW V, NEW E, NEW base, NEW step, NEW s \in Seq(E),
           NEW G, Unrolls(G, s, V, base, step)
    PROVE  Folded(step, base, s) = G[DOMAIN s]
<1> DEFINE Iter(h) == h = [S \in SUBSET DOMAIN s |->
                             IF S = {} THEN base ELSE step[<<h[S \ {Max(S)}], s[Max(S)]>>]]
<1>1. Iter(G)
  <2>1. G = [S \in SUBSET DOMAIN s |-> G[S]]
    BY DEF Unrolls
  <2>2. ASSUME NEW S \in SUBSET DOMAIN s
        PROVE  G[S] = IF S = {} THEN base ELSE step[<<G[S \ {Max(S)}], s[Max(S)]>>]
    BY DEF Unrolls, Rest
  <2> QED
    BY <2>1, <2>2, Zenon
<1>2. PICK h : Iter(h) /\ Folded(step, base, s) = h[DOMAIN s]
  <2> DEFINE it == CHOOSE h : Iter(h)
  <2>1. Iter(it)
    <3> HIDE DEF Iter
    <3> QED
      BY <1>1, Zenon
  <2>2. Folded(step, base, s) = it[DOMAIN s]
    BY DEF Folded, FoldLeft, MapThenFoldSet
  <2> QED
    BY <2>1, <2>2
<1>3. ASSUME NEW S \in SUBSET DOMAIN s
      PROVE  h[S] = IF S = {} THEN base ELSE step[<<h[S \ {Max(S)}], s[Max(S)]>>]
  BY <1>2, Zenon
<1>4. Alike(G, h, DOMAIN s)
  BY <1>3 DEF Unrolls, Rest, Alike
<1>5. Len(s) \in Nat /\ DOMAIN s = 1 .. Len(s)
  OBVIOUS
<1> HIDE DEF Iter
<1>6. G[DOMAIN s] = h[DOMAIN s]
  BY <1>4, <1>5, LoopsAgree
<1> QED
  BY <1>2, <1>6

LEMMA FoldedType ==
    ASSUME NEW V, NEW E, NEW base \in V, NEW step \in Steps(V, E), NEW s \in Seq(E)
    PROVE  Folded(step, base, s) \in V
<1>1. PICK G : Unrolls(G, s, V, base, step)
  BY UnrollsExists
<1>2. Folded(step, base, s) = G[DOMAIN s]
  BY <1>1, FoldedIs
<1> QED
  BY <1>1, <1>2 DEF Unrolls

LEMMA FoldedEmpty ==
    ASSUME NEW V, NEW E, NEW base \in V, NEW step \in Steps(V, E)
    PROVE  Folded(step, base, <<>>) = base
<1> DEFINE s == << >>
<1>0. s \in Seq(E)
  OBVIOUS
<1>1. DOMAIN s = {}
  OBVIOUS
<1> HIDE DEF s
<1>2. PICK G : Unrolls(G, s, V, base, step)
  BY <1>0, UnrollsExists
<1>3. Folded(step, base, s) = G[DOMAIN s]
  BY <1>0, <1>2, FoldedIs
<1>4. Folded(step, base, s) = base
  BY <1>1, <1>2, <1>3 DEF Unrolls
<1> QED
  BY <1>4 DEF s

LEMMA FoldedAppend ==
    ASSUME NEW V, NEW E, NEW base \in V, NEW step \in Steps(V, E), NEW s \in Seq(E), NEW e \in E
    PROVE  Folded(step, base, Append(s, e)) = step[<<Folded(step, base, s), e>>]
<1> DEFINE t == Append(s, e)
<1> DEFINE n == Len(s)
<1> DEFINE D == DOMAIN t
<1>1. /\ t \in Seq(E) /\ n \in Nat /\ DOMAIN s = 1 .. n /\ DOMAIN t = 1 .. n + 1
      /\ t[n + 1] = e /\ \A i \in DOMAIN s : t[i] = s[i]
  OBVIOUS
<1>2. n + 1 \in Nat \ {0} /\ n + 1 - 1 = n /\ n + 1 \in DOMAIN t /\ DOMAIN s \subseteq DOMAIN t
  BY <1>1
<1> HIDE DEF t, n
<1>3. PICK G : Unrolls(G, s, V, base, step)
  BY UnrollsExists
<1>4. PICK H : Unrolls(H, t, V, base, step)
  BY <1>1, UnrollsExists
<1>5. Folded(step, base, s) = G[DOMAIN s] /\ Folded(step, base, t) = H[DOMAIN t]
  BY <1>1, <1>3, <1>4, FoldedIs
<1>6. Alike(G, H, DOMAIN s)
  <2>1. G[{}] = H[{}]
    BY <1>3, <1>4 DEF Unrolls
  <2>2. ASSUME NEW S \in SUBSET DOMAIN s, S # {}, G[Rest(S)] = H[Rest(S)] PROVE G[S] = H[S]
    <3>1. Max(S) \in S
      BY <1>1, <2>2, RestIsSmaller
    <3>2. t[Max(S)] = s[Max(S)]
      BY <1>1, <3>1
    <3>3. G[S] = step[<<G[Rest(S)], s[Max(S)]>>]
      BY <1>3, <2>2 DEF Unrolls
    <3>4. S \in SUBSET DOMAIN t
      BY <1>2
    <3>5. H[S] = step[<<H[Rest(S)], t[Max(S)]>>]
      BY <1>4, <2>2, <3>4 DEF Unrolls
    <3> QED
      BY <2>2, <3>2, <3>3, <3>5
  <2> QED
    BY <2>1, <2>2 DEF Alike
<1>7. G[DOMAIN s] = H[DOMAIN s]
  BY <1>1, <1>6, LoopsAgree
<1>8. Max(DOMAIN t) = n + 1 /\ Rest(DOMAIN t) = DOMAIN s
  <2> DEFINE m == n + 1
  <2>1. m \in Nat \ {0} /\ DOMAIN t = 1 .. m /\ DOMAIN s = 1 .. m - 1
    BY <1>1, <1>2
  <2> HIDE DEF m
  <2>2. Max(DOMAIN t) = m /\ Rest(DOMAIN t) = DOMAIN s
    BY <2>1, RestOfPrefix
  <2> QED
    BY <2>2 DEF m
<1>9. H[DOMAIN t] = step[<<H[DOMAIN s], e>>]
  <2>1. DOMAIN t \in SUBSET DOMAIN t /\ DOMAIN t # {}
    BY <1>2
  <2> QED
    BY <1>1, <1>4, <1>8, <2>1 DEF Unrolls
<1> QED
  BY <1>5, <1>7, <1>9 DEF t

\* What is needed of a loop written with an operator: that it takes these steps.
Runs(G, s, V, E, base, step) ==
    /\ G = [S \in SUBSET DOMAIN s |-> G[S]]
    /\ G[{}] = base
    /\ \A S \in SUBSET DOMAIN s : S # {} =>
          /\ G[S \ {Max(S)}] \in V /\ s[Max(S)] \in E
          /\ G[S] = step[<<G[S \ {Max(S)}], s[Max(S)]>>]

LEMMA LoopExists ==
    ASSUME NEW V, NEW E, NEW base \in V, NEW step \in Steps(V, E), NEW s \in Seq(E)
    PROVE  \E G : Runs(G, s, V, E, base, step)
<1>1. PICK G : Unrolls(G, s, V, base, step)
  BY UnrollsExists
<1>2. Len(s) \in Nat /\ DOMAIN s = 1 .. Len(s) /\ \A i \in DOMAIN s : s[i] \in E
  OBVIOUS
<1>3. ASSUME NEW S \in SUBSET DOMAIN s, S # {}
      PROVE  G[Rest(S)] \in V /\ s[Max(S)] \in E
  <2>1. Max(S) \in S /\ Rest(S) \in SUBSET DOMAIN s
    BY <1>2, <1>3, RestIsSmaller
  <2> QED
    BY <1>1, <1>2, <2>1 DEF Unrolls
<1>4. G[{}] = base /\ G = [S \in SUBSET DOMAIN s |-> G[S]]
  BY <1>1 DEF Unrolls
<1>5. \A S \in SUBSET DOMAIN s : S # {} => G[S] = step[<<G[Rest(S)], s[Max(S)]>>]
  BY <1>1 DEF Unrolls
<1> QED
  BY <1>3, <1>4, <1>5 DEF Rest, Runs

\* h takes step wherever it has come to a value of V.
Follows(h, s, V, E, base, step) ==
    /\ h[{}] = base
    /\ \A S \in SUBSET DOMAIN s :
          S # {} /\ h[S \ {Max(S)}] \in V /\ s[Max(S)] \in E
          => h[S] = step[<<h[S \ {Max(S)}], s[Max(S)]>>]

LEMMA LoopIs ==
    ASSUME NEW V, NEW E, NEW base \in V, NEW step \in Steps(V, E), NEW s \in Seq(E),
           NEW h, Follows(h, s, V, E, base, step)
    PROVE  h[DOMAIN s] = Folded(step, base, s)
<1>1. PICK G : Unrolls(G, s, V, base, step)
  BY UnrollsExists
<1>2. Len(s) \in Nat /\ DOMAIN s = 1 .. Len(s) /\ \A i \in DOMAIN s : s[i] \in E
  OBVIOUS
<1>3. ASSUME NEW S \in SUBSET DOMAIN s, S # {}, G[Rest(S)] = h[Rest(S)] PROVE G[S] = h[S]
  <2>1. Max(S) \in S /\ Rest(S) \in SUBSET DOMAIN s
    BY <1>2, <1>3, RestIsSmaller
  <2>2. G[Rest(S)] \in V /\ s[Max(S)] \in E
    BY <1>1, <1>2, <2>1 DEF Unrolls
  <2>3. G[S] = step[<<G[Rest(S)], s[Max(S)]>>]
    BY <1>1, <1>3 DEF Unrolls
  <2>4. h[S] = step[<<h[Rest(S)], s[Max(S)]>>]
    BY <1>3, <2>2 DEF Follows, Rest
  <2> QED
    BY <1>3, <2>3, <2>4
<1>4. Alike(G, h, DOMAIN s)
  BY <1>1, <1>3 DEF Alike, Unrolls, Follows
<1>5. G[DOMAIN s] = h[DOMAIN s]
  BY <1>2, <1>4, LoopsAgree
<1> QED
  BY <1>1, <1>5, FoldedIs

\* Induction over sequences.
LEMMA SeqSet ==
    ASSUME NEW E, NEW S, << >> \in S, \A s \in Seq(E), e \in E : s \in S => Append(s, e) \in S
    PROVE  \A s \in Seq(E) : s \in S
<1> DEFINE P == {n \in Nat : \A s \in Seq(E) : Len(s) = n => s \in S}
<1>1. 0 \in P
  <2>1. \A s \in Seq(E) : Len(s) = 0 => s = << >>
    OBVIOUS
  <2> QED
    BY <2>1
<1>2. ASSUME NEW n \in Nat, n \in P PROVE n + 1 \in P
  <2> SUFFICES ASSUME NEW s \in Seq(E), Len(s) = n + 1 PROVE s \in S
    OBVIOUS
  <2> DEFINE t == [i \in 1 .. n |-> s[i]]
  <2>1. t \in Seq(E) /\ Len(t) = n /\ s[n + 1] \in E
    OBVIOUS
  <2>2. s = Append(t, s[n + 1])
    OBVIOUS
  <2>3. t \in S
    BY <1>2, <2>1
  <2> HIDE DEF t
  <2> QED
    BY <2>1, <2>2, <2>3
<1>3. \A n \in Nat : n \in P
  <2> HIDE DEF P
  <2> QED
    BY <1>1, <1>2, NatSet
<1> QED
  BY <1>3
=============================================================================
