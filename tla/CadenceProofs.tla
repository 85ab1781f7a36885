--------------------------- MODULE CadenceProofs ---------------------------
(***************************************************************************)
(* The promises about timing, for every set of keys and platforms and      *)
(* every setting: when a key is due at every tick, why it never misses two *)
(* in a row, and why a platform's wait doubles once per tick.              *)
(***************************************************************************)
EXTENDS Cadence, Induction

-----------------------------------------------------------------------------
(* Back-off delays.                                                        *)

\* The delay after one failure more: once more times the multiplier, up to the cap.
Grown(d, mult, maxS) == IF d * mult >= maxS THEN maxS ELSE d * mult

\* What the loop of backoffDelay has after i rounds.
IsDelays(d, base, mult, maxS, pow) ==
    d = [i \in 0 .. pow |-> IF i = 0 THEN base
                            ELSE IF d[i - 1] * mult >= maxS THEN maxS
                                 ELSE d[i - 1] * mult]

LEMMA DelaysExist ==
    ASSUME NEW base \in Nat, NEW mult \in Nat, NEW maxS \in Int, NEW pow \in Nat
    PROVE  \E d : IsDelays(d, base, mult, maxS, pow)
<1> DEFINE D == 0 .. pow
<1> DEFINE level == [i \in D |-> i]
<1> DEFINE before == [i \in D |-> IF i = 0 THEN 0 ELSE i - 1]
<1> DEFINE first == [i \in D |-> base]
<1> DEFINE step == [a \in D \X Int |-> Grown(a[2], mult, maxS)]
<1>1. Descends(D, pow, level, before)
  BY DEF Descends
<1>2. first \in [D -> Int] /\ step \in [D \X Int -> Int]
  <2>1. \A d \in Int : d * mult \in Int
    OBVIOUS
  <2> QED
    BY <2>1 DEF Grown
<1>3. PICK g \in [D -> Int] : Recurses(g, D, level, before, first, step)
  <2> HIDE DEF D, level, before, first, step
  <2> QED
    BY <1>1, <1>2, Recursion
<1>4. ASSUME NEW i \in D
      PROVE  g[i] = IF i = 0 THEN base
                    ELSE IF g[i - 1] * mult >= maxS THEN maxS ELSE g[i - 1] * mult
  <2>1. CASE i = 0
    BY <1>3, <2>1 DEF Recurses
  <2>2. CASE i # 0
    <3>1. i - 1 \in D /\ g[i - 1] \in Int
      BY <2>2
    <3>2. g[i] = step[<<i, g[i - 1]>>]
      BY <1>3, <2>2, <3>1 DEF Recurses
    <3> QED
      BY <2>2, <3>1, <3>2 DEF Grown
  <2> QED
    BY <2>1, <2>2
<1> QED
  BY <1>4 DEF IsDelays

\* BackoffDelay takes the last of them.
TakesLast(d, base, mult, maxS, pow) ==
    /\ IsDelays(d, base, mult, maxS, pow)
    /\ BackoffDelay(base, mult, maxS, pow) = IF d[pow] \in 0 .. maxS THEN d[pow] ELSE maxS

LEMMA BackoffDelayIs ==
    ASSUME NEW base \in Nat, NEW mult \in Nat, NEW maxS \in Int, NEW pow \in Nat
    PROVE  \E d : TakesLast(d, base, mult, maxS, pow)
<1> DEFINE it == CHOOSE d : IsDelays(d, base, mult, maxS, pow)
<1>1. IsDelays(it, base, mult, maxS, pow)
  BY DelaysExist
<1>2. BackoffDelay(base, mult, maxS, pow)
        = IF it[pow] \in 0 .. maxS THEN it[pow] ELSE maxS
  BY DEF BackoffDelay, IsDelays
<1> QED
  BY <1>1, <1>2 DEF TakesLast

\* One by one.
LEMMA DelaysStep ==
    ASSUME NEW base, NEW mult, NEW maxS, NEW pow \in Nat, NEW d,
           IsDelays(d, base, mult, maxS, pow)
    PROVE  /\ d[0] = base
           /\ \A n \in Nat : n + 1 <= pow => d[n + 1] = Grown(d[n], mult, maxS)
<1>1. d[0] = base
  BY DEF IsDelays
<1>2. ASSUME NEW n \in Nat, n + 1 <= pow PROVE d[n + 1] = Grown(d[n], mult, maxS)
  <2>1. n + 1 \in 0 .. pow /\ n + 1 # 0 /\ n + 1 - 1 = n
    BY <1>2
  <2>2. \A i \in 0 .. pow : d[i] = IF i = 0 THEN base
                                   ELSE IF d[i - 1] * mult >= maxS THEN maxS
                                        ELSE d[i - 1] * mult
    BY Zenon DEF IsDelays
  <2> QED
    BY <2>1, <2>2 DEF Grown
<1> QED
  BY <1>1, <1>2

LEMMA BackoffDelayInt ==
    ASSUME NEW base \in Nat, NEW mult \in Nat, NEW maxS \in Int, NEW pow \in Nat
    PROVE  BackoffDelay(base, mult, maxS, pow) \in Int
<1>1. PICK d : TakesLast(d, base, mult, maxS, pow)
  BY BackoffDelayIs
<1> QED
  BY <1>1 DEF TakesLast

\* The values the loop has, by induction over its rounds.
LEMMA DelaysBounded ==
    ASSUME NEW base \in Nat, NEW mult \in Nat \ {0}, NEW maxS \in Nat, NEW pow \in Nat,
           NEW d, IsDelays(d, base, mult, maxS, pow)
    PROVE  \A n \in 0 .. pow : /\ d[n] \in Nat
                               /\ base <= maxS => d[n] \in base .. maxS
                               /\ n # 0 => d[n] <= maxS
<1> DEFINE P == {n \in Nat : n <= pow => /\ d[n] \in Nat
                                         /\ base <= maxS => d[n] \in base .. maxS
                                         /\ n # 0 => d[n] <= maxS}
<1>1. 0 \in P
  BY DelaysStep
<1>2. ASSUME NEW n \in Nat, n \in P PROVE n + 1 \in P
  <2> SUFFICES ASSUME n + 1 <= pow
               PROVE  /\ d[n + 1] \in Nat
                      /\ base <= maxS => d[n + 1] \in base .. maxS
                      /\ d[n + 1] <= maxS
    OBVIOUS
  <2>1. d[n] \in Nat /\ (base <= maxS => d[n] \in base .. maxS)
    BY <1>2
  <2>2. d[n + 1] = Grown(d[n], mult, maxS)
    BY DelaysStep
  <2>3. d[n] * mult \in Nat /\ d[n] * mult >= d[n]
    BY <2>1
  <2> QED
    BY <2>1, <2>2, <2>3 DEF Grown
<1>3. \A n \in Nat : n \in P
  <2> HIDE DEF P
  <2> QED
    BY <1>1, <1>2, NatSet
<1> QED
  BY <1>3

\* backoff.go's comment, base, base * mult, base * mult^2 and so on, cut at the
\* cap: the first wait is the base and each failure more multiplies it.
THEOREM BackoffDelayGrows ==
    ASSUME NEW base \in Nat, NEW mult \in Nat \ {0}, NEW maxS \in Nat
    PROVE  /\ BackoffDelay(base, mult, maxS, 0) = IF base <= maxS THEN base ELSE maxS
           /\ \A n \in Nat : BackoffDelay(base, mult, maxS, n + 1)
                               = Grown(BackoffDelay(base, mult, maxS, n), mult, maxS)
<1>1. BackoffDelay(base, mult, maxS, 0) = IF base <= maxS THEN base ELSE maxS
  <2>1. PICK d : TakesLast(d, base, mult, maxS, 0)
    BY BackoffDelayIs
  <2>2. d[0] = base
    BY <2>1, DelaysStep DEF TakesLast
  <2> QED
    BY <2>1, <2>2 DEF TakesLast
<1>2. ASSUME NEW n \in Nat
      PROVE  BackoffDelay(base, mult, maxS, n + 1)
               = Grown(BackoffDelay(base, mult, maxS, n), mult, maxS)
  <2>1. PICK d : TakesLast(d, base, mult, maxS, n)
    BY BackoffDelayIs
  <2>2. PICK e : TakesLast(e, base, mult, maxS, n + 1)
    BY BackoffDelayIs
  <2> DEFINE P == {i \in Nat : i <= n => d[i] = e[i]}
  <2>3. 0 \in P
    <3>1. d[0] = base
      BY <2>1, DelaysStep DEF TakesLast
    <3>2. e[0] = base
      BY <2>2, DelaysStep DEF TakesLast
    <3> QED
      BY <3>1, <3>2
  <2>4. ASSUME NEW i \in Nat, i \in P PROVE i + 1 \in P
    <3> SUFFICES ASSUME i + 1 <= n PROVE d[i + 1] = e[i + 1]
      OBVIOUS
    <3>1. d[i + 1] = Grown(d[i], mult, maxS)
      BY <2>1, DelaysStep DEF TakesLast
    <3>2. e[i + 1] = Grown(e[i], mult, maxS)
      BY <2>2, DelaysStep DEF TakesLast
    <3> QED
      BY <2>4, <3>1, <3>2
  <2>5. d[n] = e[n]
    <3>1. n \in P
      <4> HIDE DEF P
      <4> QED
        BY <2>3, <2>4, NatSet
    <3> QED
      BY <3>1
  <2>6. e[n + 1] = Grown(d[n], mult, maxS)
    BY <2>2, <2>5, DelaysStep DEF TakesLast
  <2>7. d[n] \in Nat /\ e[n + 1] \in 0 .. maxS
    BY <2>1, <2>2, DelaysBounded DEF TakesLast
  <2>8. CASE d[n] <= maxS
    BY <2>1, <2>2, <2>6, <2>7, <2>8 DEF TakesLast, Grown
  <2>9. CASE d[n] > maxS
    <3>1. d[n] * mult >= d[n] /\ maxS * mult >= maxS
      BY <2>7
    <3>2. BackoffDelay(base, mult, maxS, n) = maxS
      BY <2>1, <2>7, <2>9 DEF TakesLast
    <3>3. d[n] * mult >= maxS
      <4>1. d[n] * mult \in Nat
        BY <2>7
      <4> QED
        BY <2>7, <2>9, <3>1, <4>1
    <3> QED
      BY <2>2, <2>6, <2>7, <3>1, <3>2, <3>3 DEF TakesLast, Grown
  <2> QED
    BY <2>7, <2>8, <2>9
<1> QED
  BY <1>1, <1>2

\* No wait is shorter than the base, unless the cap is.
LEMMA BackoffDelayLeast ==
    ASSUME NEW base \in Nat, NEW mult \in Nat \ {0}, NEW maxS \in Int, base <= maxS,
           NEW pow \in Nat
    PROVE  BackoffDelay(base, mult, maxS, pow) \in base .. maxS
<1>1. PICK d : TakesLast(d, base, mult, maxS, pow)
  BY BackoffDelayIs
<1>2. d[pow] \in base .. maxS
  BY <1>1, DelaysBounded DEF TakesLast
<1> QED
  BY <1>1, <1>2 DEF TakesLast

-----------------------------------------------------------------------------
(* The places of a platform's keys in the period.                          *)

\* k comes after j in the list, on the same platform.
Before(j, k) == PlatformOf[j] = PlatformOf[k] /\ Position[j] < Position[k]

LEMMA SiblingsFinite ==
    ASSUME NEW k \in Keys
    PROVE  /\ IsFiniteSet(Siblings(k)) /\ k \in Siblings(k)
           /\ KeyCount(k) \in Nat \ {0}
           /\ KeyIndex(k) \in 0 .. KeyCount(k) - 1
<1>1. IsFiniteSet(Siblings(k)) /\ k \in Siblings(k)
  BY CadenceAssumption, FS_Subset DEF Siblings
<1>2. KeyCount(k) \in Nat \ {0}
  BY <1>1, FS_CardinalityType, FS_EmptySet DEF KeyCount
<1> DEFINE Earlier == {j \in Siblings(k) : Position[j] < Position[k]}
<1>3. IsFiniteSet(Earlier) /\ Cardinality(Earlier) \in Nat
  BY <1>1, FS_Subset, FS_CardinalityType
<1>4. Cardinality(Earlier) <= Cardinality(Siblings(k) \ {k})
  <2>1. Earlier \subseteq Siblings(k) \ {k}
    BY CadenceAssumption
  <2>2. IsFiniteSet(Siblings(k) \ {k})
    BY <1>1, FS_RemoveElement
  <2> HIDE DEF Earlier
  <2> QED
    BY <2>1, <2>2, FS_Subset
<1>5. Cardinality(Siblings(k) \ {k}) = Cardinality(Siblings(k)) - 1
  BY <1>1, FS_RemoveElement
<1> QED
  BY <1>1, <1>2, <1>3, <1>4, <1>5 DEF KeyIndex, KeyCount

\* The durations of a setting are natural numbers.
LEMMA BaseType ==
    ASSUME settings \in Settings
    PROVE  /\ settings.interval \in Nat \ {0}
           /\ Second \in Nat \ {0} /\ Base \in Nat \ {0} /\ Cap \in Int
<1>1. settings.interval \in Nat \ {0}
  BY CadenceAssumption DEF IsSetting
<1>2. \A m, n \in Nat \ {0} : m * n \in Nat \ {0}
  OBVIOUS
<1> QED
  BY <1>1, <1>2, CadenceAssumption DEF Base, Cap

\* The shares of a platform's keys fit into the interval.
LEMMA ShareBounds ==
    ASSUME settings \in Settings, NEW k \in Keys
    PROVE  Share(k) \in Nat /\ KeyCount(k) * Share(k) <= Base
<1>1. KeyCount(k) \in Nat \ {0} /\ Base \in Nat
  BY SiblingsFinite, BaseType
<1>2. \A b \in Nat, m \in Nat \ {0} : b \div m \in Nat /\ m * (b \div m) <= b
  OBVIOUS
<1> QED
  BY <1>1, <1>2 DEF Share

\* The last key of a platform has had its share when the interval ends.
LEMMA OffsetAndShare ==
    ASSUME settings \in Settings, NEW k \in Keys
    PROVE  /\ KeyOffset(k) \in Nat /\ Share(k) \in Nat
           /\ KeyOffset(k) + Share(k) <= Base
<1> DEFINE n == KeyCount(k)
<1> DEFINE i == KeyIndex(k)
<1> DEFINE q == Share(k)
<1>1. n \in Nat \ {0} /\ i \in 0 .. n - 1 /\ q \in Nat /\ n * q <= Base /\ Base \in Nat
  BY SiblingsFinite, ShareBounds, BaseType
<1>2. KeyOffset(k) = i * q
  BY DEF KeyOffset
<1> HIDE DEF q, n, i
<1>3. i + 1 \in Nat /\ i + 1 <= n /\ i \in Nat /\ (i + 1) * q = i * q + q
  BY <1>1
<1>4. i * q \in Nat /\ n * q \in Nat /\ (i + 1) * q <= n * q
  BY <1>1, <1>3, ProductMonotone
<1> QED
  BY <1>1, <1>2, <1>3, <1>4 DEF q

\* Whole seconds of a key's share are no more than the share.
LEMMA WholeSeconds ==
    ASSUME NEW b \in Nat, NEW n \in Nat \ {0}, NEW s \in Nat
    PROVE  (b \div n) * s \in Nat /\ (b \div n) * s <= (b * s) \div n
<1> DEFINE q == b \div n
<1>1. q \in Nat /\ n * q <= b
  OBVIOUS
<1>2. (n * q) * s <= b * s /\ n * q \in Nat /\ b * s \in Nat
  BY <1>1, ProductMonotone
<1>3. q * s \in Nat /\ n * (q * s) = (n * q) * s
  BY <1>1
<1>4. \A c, d \in Nat : n * d <= c => d <= c \div n
  OBVIOUS
<1> QED
  BY <1>2, <1>3, <1>4

LEMMA PeriodType ==
    ASSUME settings \in Settings, NEW k \in Keys
    PROVE  /\ KeyPeriod(k) \in Nat
           /\ KeyCount(k) <= settings.interval => KeyPeriod(k) <= Share(k)
           /\ KeyCount(k) > settings.interval => KeyPeriod(k) = Second
<1> DEFINE n == KeyCount(k)
<1> DEFINE b == settings.interval
<1> DEFINE q == b \div n
<1>1. n \in Nat \ {0} /\ b \in Nat \ {0} /\ Second \in Nat /\ Base = b * Second
  BY SiblingsFinite, BaseType DEF Base
<1>2. /\ q \in Nat
      /\ n <= b => q >= 1
      /\ n > b => q < 1
  BY <1>1
<1>3. q * Second \in Nat /\ q * Second <= Share(k)
  BY <1>1, WholeSeconds DEF Share
<1>4. n <= 1 => n = 1 /\ Share(k) = Base /\ Base \in Nat
  BY <1>1, BaseType DEF Share
<1>5. KeyPeriod(k) = IF n <= 1 THEN Base ELSE IF q < 1 THEN Second ELSE q * Second
  BY DEF KeyPeriod
<1> HIDE DEF n, b, q
<1>6. CASE n <= 1
  BY <1>1, <1>4, <1>5, <1>6 DEF n, b
<1>7. CASE n > 1
  BY <1>1, <1>2, <1>3, <1>5, <1>7 DEF n, b
<1> QED
  BY <1>1, <1>6, <1>7

LEMMA OverhangType ==
    ASSUME settings \in Settings
    PROVE  Overhang \in Nat
  BY BaseType DEF Overhang

\* The KeyPeriod of a platform's last key is over when the interval and the
\* overhang are.
LEMMA OffsetAndPeriod ==
    ASSUME settings \in Settings, NEW k \in Keys
    PROVE  /\ KeyOffset(k) \in Nat /\ KeyPeriod(k) \in Nat
           /\ KeyOffset(k) + KeyPeriod(k) <= Base + Overhang
<1>1. /\ KeyOffset(k) \in Nat /\ Share(k) \in Nat /\ Base \in Nat
      /\ KeyOffset(k) + Share(k) <= Base
  BY OffsetAndShare, BaseType
<1>2. /\ KeyPeriod(k) \in Nat
      /\ KeyCount(k) <= settings.interval => KeyPeriod(k) <= Share(k)
      /\ KeyCount(k) > settings.interval => KeyPeriod(k) = Second
  BY PeriodType
<1>3. /\ KeyCount(k) \in Nat /\ settings.interval \in Nat
      /\ KeyCount(k) > settings.interval => Overhang = Second
      /\ Overhang \in Nat
  BY SiblingsFinite, BaseType, OverhangType DEF Overhang
<1> QED
  BY <1>1, <1>2, <1>3

\* A later key of the platform starts a whole share later.
LEMMA OffsetOrder ==
    ASSUME settings \in Settings, NEW j \in Keys, NEW k \in Keys, Before(j, k)
    PROVE  /\ KeyCount(k) > 1
           /\ KeyOffset(j) + Share(k) <= KeyOffset(k)
<1>1. Siblings(j) = Siblings(k) /\ KeyCount(j) = KeyCount(k)
  BY DEF Siblings, KeyCount, Before
<1> DEFINE EarlierJ == {i \in Siblings(k) : Position[i] < Position[j]}
<1> DEFINE EarlierK == {i \in Siblings(k) : Position[i] < Position[k]}
<1>2. IsFiniteSet(EarlierJ) /\ IsFiniteSet(EarlierK)
  BY SiblingsFinite, FS_Subset
<1>3. j \in EarlierK /\ j \notin EarlierJ /\ EarlierJ \subseteq EarlierK
  BY CadenceAssumption DEF Siblings, Before
<1>4. Cardinality(EarlierJ) + 1 <= Cardinality(EarlierK)
  <2> HIDE DEF EarlierJ, EarlierK
  <2>1. Cardinality(EarlierJ \cup {j}) = Cardinality(EarlierJ) + 1
    BY <1>2, <1>3, FS_AddElement
  <2>2. EarlierJ \cup {j} \subseteq EarlierK
    BY <1>3
  <2>3. Cardinality(EarlierJ \cup {j}) <= Cardinality(EarlierK)
    BY <1>2, <2>2, FS_Subset
  <2> QED
    BY <2>1, <2>3
<1>5. KeyIndex(j) + 1 <= KeyIndex(k)
  BY <1>1, <1>4 DEF KeyIndex
<1> DEFINE n == KeyCount(k)
<1> DEFINE q == Share(k)
<1>6. /\ n \in Nat \ {0} /\ q \in Nat
      /\ KeyIndex(j) \in 0 .. n - 1 /\ KeyIndex(k) \in 0 .. n - 1
  BY <1>1, SiblingsFinite, ShareBounds
<1>7. n > 1
  BY <1>5, <1>6
<1>8. KeyOffset(j) = KeyIndex(j) * q /\ KeyOffset(k) = KeyIndex(k) * q
  BY <1>1 DEF KeyOffset, Share
<1>9. KeyIndex(j) * q + q <= KeyIndex(k) * q
  <2> HIDE DEF q, n
  <2>1. KeyIndex(j) + 1 \in Nat /\ (KeyIndex(j) + 1) * q = KeyIndex(j) * q + q
    BY <1>6
  <2> QED
    BY <1>5, <1>6, <2>1, ProductMonotone
<1> QED
  BY <1>7, <1>8, <1>9

-----------------------------------------------------------------------------
(* The staggers of the keys before.                                        *)

LEMMA SettingBounds ==
    ASSUME settings \in Settings
    PROVE  /\ Max(settings.stagger) \in Nat /\ Max(settings.latency) \in Nat
           /\ \A d \in settings.stagger : d \in Nat /\ d <= Max(settings.stagger)
           /\ \A d \in settings.latency : d \in Nat /\ d <= Max(settings.latency)
           /\ MinJitter \in Int
           /\ \A d \in settings.jitter : d * Second \in Int /\ MinJitter <= d * Second
<1>1. IsSetting(settings)
  BY CadenceAssumption
<1>2. Max(settings.stagger) \in settings.stagger
      /\ \A d \in settings.stagger : d <= Max(settings.stagger)
  BY <1>1, MaxExists DEF IsSetting
<1>3. Max(settings.latency) \in settings.latency
      /\ \A d \in settings.latency : d <= Max(settings.latency)
  BY <1>1, MaxExists DEF IsSetting
<1>4. Min(settings.jitter) \in settings.jitter
      /\ \A d \in settings.jitter : Min(settings.jitter) <= d
  BY <1>1, MinExists DEF IsSetting
<1>5. \A d \in settings.jitter : d \in Int
  BY <1>1 DEF IsSetting
<1>6. \A c, d \in Int : c <= d => c * Second \in Int /\ c * Second <= d * Second
  BY CadenceAssumption
<1>7. MinJitter \in Int
      /\ \A d \in settings.jitter : d * Second \in Int /\ MinJitter <= d * Second
  BY <1>4, <1>5, <1>6 DEF MinJitter
<1> QED
  BY <1>1, <1>2, <1>3, <1>7 DEF IsSetting

LEMMA LastStaggerType ==
    ASSUME settings \in Settings, NEW k \in Keys
    PROVE  LastStagger \in Nat /\ Spread \in Nat /\ Spread >= LastStagger
<1>1. Cardinality(Keys) \in Nat /\ Cardinality(Keys) # 0
  BY CadenceAssumption, FS_CardinalityType, FS_EmptySet
<1>2. Max(settings.stagger) \in Nat /\ Max(settings.latency) \in Nat
  BY SettingBounds
<1>3. \A n \in Nat, m \in Nat : n # 0 => (n - 1) * m \in Nat
  OBVIOUS
<1>4. LastStagger \in Nat
  BY <1>1, <1>2, <1>3, CadenceAssumption DEF LastStagger
<1> QED
  BY <1>2, <1>4 DEF Spread

\* The keys whose staggers k waits for.
AheadOf(k) == {j \in Keys : Due(j) /\ Position[j] < Position[k]}

LEMMA AccumulatedIs ==
    ASSUME NEW k \in Keys, NEW stagger
    PROVE  Accumulated(k, stagger) = Second * Sum(stagger, AheadOf(k))
  BY DEF Accumulated, Sum, AheadOf

LEMMA AccumulatedBounds ==
    ASSUME settings \in Settings, NEW k \in Keys, NEW stagger \in [Keys -> settings.stagger]
    PROVE  Accumulated(k, stagger) \in Nat /\ Accumulated(k, stagger) <= LastStagger
<1> DEFINE m == Max(settings.stagger)
<1>1. stagger \in [Keys -> Nat] /\ m \in Nat /\ \A j \in Keys : stagger[j] <= m
  BY SettingBounds
<1>2. AheadOf(k) \subseteq Keys \ {k}
  BY CadenceAssumption DEF AheadOf
<1>3. Cardinality(Keys \ {k}) = Cardinality(Keys) - 1 /\ IsFiniteSet(Keys \ {k})
  BY CadenceAssumption, FS_RemoveElement
<1>4. Cardinality(Keys) \in Nat /\ Cardinality(Keys) # 0
  BY CadenceAssumption, FS_CardinalityType, FS_EmptySet
<1>5. /\ Cardinality(AheadOf(k)) <= Cardinality(Keys) - 1
      /\ Cardinality(AheadOf(k)) \in Nat
  BY <1>2, <1>3, FS_Subset, FS_CardinalityType
<1>6. Sum(stagger, AheadOf(k)) \in Nat /\ Sum(stagger, AheadOf(k)) <= Cardinality(AheadOf(k)) * m
  BY <1>1, <1>2, SumType, SumBounded, CadenceAssumption
<1>7. /\ Cardinality(AheadOf(k)) * m \in Nat /\ (Cardinality(Keys) - 1) * m \in Nat
      /\ Cardinality(AheadOf(k)) * m <= (Cardinality(Keys) - 1) * m
  <2>1. Cardinality(Keys) - 1 \in Nat
    BY <1>4
  <2> QED
    BY <1>1, <1>5, <2>1, ProductMonotone
<1> DEFINE sum == Sum(stagger, AheadOf(k))
<1> DEFINE most == (Cardinality(Keys) - 1) * m
<1>8. sum \in Nat /\ most \in Nat /\ sum <= most
  BY <1>6, <1>7
<1>9. Accumulated(k, stagger) = Second * sum /\ LastStagger = Second * most
  BY AccumulatedIs DEF LastStagger
<1> HIDE DEF sum, most
<1> QED
  BY <1>8, <1>9, CadenceAssumption, ProductMonotone

LEMMA AccumulatedOrder ==
    ASSUME settings \in Settings, NEW j \in Keys, NEW k \in Keys,
           Position[j] < Position[k], NEW stagger \in [Keys -> settings.stagger]
    PROVE  Accumulated(j, stagger) <= Accumulated(k, stagger)
<1>1. stagger \in [Keys -> Nat]
  BY SettingBounds
<1>2. AheadOf(j) \subseteq AheadOf(k) /\ AheadOf(k) \subseteq Keys
  BY CadenceAssumption DEF AheadOf
<1>3. Sum(stagger, AheadOf(j)) <= Sum(stagger, AheadOf(k))
  BY <1>1, <1>2, SumMonotone, CadenceAssumption
<1>4. Sum(stagger, AheadOf(j)) \in Nat /\ Sum(stagger, AheadOf(k)) \in Nat
  BY <1>1, <1>2, SumType, CadenceAssumption
<1> QED
  BY <1>3, <1>4, AccumulatedIs, CadenceAssumption, ProductMonotone

-----------------------------------------------------------------------------
(* Types, and where every instant lies.                                    *)

\* Nothing stops a platform or a key here.
Records == [fails : Nat, next : Int, stopped : {FALSE}]

TypeInv ==
    /\ settings \in Settings
    /\ now \in Nat /\ tickStart \in Nat /\ wakeAt \in Nat
    /\ phase \in {"plan", "collecting", "sleeping"}
    /\ job \in [Keys -> Job \cup {None}]
    /\ backoffs \in [Keys -> Records]
    /\ platformBackoffs \in [Platforms -> Records]
    /\ missed \in [Keys -> Nat]
    /\ raised \in [Platforms -> Nat]

Waiting(k) == job[k] # None /\ job[k].phase = "waiting"

Fetching(k) == job[k] # None /\ job[k].phase = "fetching"

\* A key starts, and is answered, within a known stretch after its place in the
\* period; the next tick is a period and a jitter after this one.
TimeInv ==
    /\ tickStart <= now
    /\ \A k \in Keys :
          /\ phase # "collecting" => job[k] = None
          /\ job[k] # None => now <= job[k].until
          /\ Waiting(k) => job[k].until <= tickStart + KeyOffset(k) + LastStagger
          /\ Fetching(k) => job[k].until <= tickStart + KeyOffset(k) + Spread
    /\ phase = "sleeping" =>
          now <= wakeAt /\ tickStart + Base + MinJitter <= wakeAt

Timing == TypeInv /\ TimeInv

LEMMA JobIsRecord ==
    ASSUME TypeInv, NEW k \in Keys, job[k] # None
    PROVE  job[k] \in Job /\ job[k].until \in Nat
  BY DEF TypeInv, Job

LEMMA NewJob ==
    ASSUME NEW where \in {"waiting", "fetching"}, NEW t \in Nat
    PROVE  /\ [phase |-> where, until |-> t] \in Job
           /\ [phase |-> where, until |-> t] # None
  BY NoneIsNoJob DEF Job

LEMMA TimingInit == Init => Timing
  BY SettingBounds DEF Init, Timing, TypeInv, TimeInv, ZeroBackoff, Records, Waiting, Fetching

\* What depends on the settings alone.
LEMMA DurationsStay ==
    ASSUME settings' = settings
    PROVE  /\ Base' = Base /\ LastStagger' = LastStagger /\ Spread' = Spread
           /\ MinJitter' = MinJitter /\ Overhang' = Overhang
           /\ \A k \in Keys : /\ KeyOffset(k)' = KeyOffset(k)
                              /\ Share(k)' = Share(k)
  BY DEF Base, LastStagger, Spread, MinJitter, Overhang, KeyOffset, Share, KeyIndex,
         KeyCount, Siblings

\* The steps one by one.
LEMMA TimingPlanTick ==
    ASSUME Timing, PlanTick PROVE Timing'
<1>1. PICK stagger \in [Keys -> settings.stagger] :
        job' = [k \in Keys |->
            IF Due(k)
            THEN [phase |-> "waiting", until |-> now + KeyOffset(k) + Accumulated(k, stagger)]
            ELSE None]
  BY DEF PlanTick
<1>2. ASSUME NEW k \in Keys
      PROVE  /\ now + KeyOffset(k) + Accumulated(k, stagger) \in Nat
             /\ now <= now + KeyOffset(k) + Accumulated(k, stagger)
             /\ now + KeyOffset(k) + Accumulated(k, stagger) <= now + KeyOffset(k) + LastStagger
  <2>1. KeyOffset(k) \in Nat
    BY OffsetAndShare DEF Timing, TypeInv
  <2>2. /\ Accumulated(k, stagger) \in Nat /\ Accumulated(k, stagger) <= LastStagger
        /\ LastStagger \in Nat
    BY AccumulatedBounds, LastStaggerType DEF Timing, TypeInv
  <2> QED
    BY <2>1, <2>2 DEF Timing, TypeInv
<1>3. job' \in [Keys -> Job \cup {None}]
  <2>1. \A k \in Keys :
          [phase |-> "waiting", until |-> now + KeyOffset(k) + Accumulated(k, stagger)] \in Job
    BY <1>2, NewJob
  <2> QED
    BY <1>1, <2>1
<1>4. TypeInv'
  BY <1>3 DEF PlanTick, Timing, TypeInv
<1>5. /\ LastStagger' = LastStagger
      /\ \A k \in Keys : KeyOffset(k)' = KeyOffset(k)
  BY DurationsStay DEF PlanTick
<1>6. ASSUME NEW k \in Keys, job'[k] # None
      PROVE  /\ job'[k].phase = "waiting"
             /\ now' <= job'[k].until
             /\ job'[k].until <= tickStart' + KeyOffset(k)' + LastStagger'
  BY <1>1, <1>2, <1>5, <1>6 DEF PlanTick
<1> QED
  BY <1>4, <1>6 DEF PlanTick, Timing, TypeInv, TimeInv, Waiting, Fetching

LEMMA TimingStartJob ==
    ASSUME Timing, NEW k \in Keys, StartJob(k) PROVE Timing'
<1>1. PICK latency \in settings.latency :
        job' = [job EXCEPT ![k] = [phase |-> "fetching", until |-> now + latency]]
  BY DEF StartJob
<1>2. latency \in Nat /\ latency <= Max(settings.latency) /\ Max(settings.latency) \in Nat
  BY SettingBounds DEF Timing, TypeInv
<1>3. [phase |-> "fetching", until |-> now + latency] \in Job
  BY <1>2, NewJob DEF Timing, TypeInv
<1>4. TypeInv'
  BY <1>1, <1>3 DEF StartJob, Timing, TypeInv
<1>5. KeyOffset(k) \in Nat /\ LastStagger \in Nat /\ Spread = LastStagger + Max(settings.latency)
  BY OffsetAndShare, LastStaggerType DEF Timing, TypeInv, Spread
<1>6. now <= tickStart + KeyOffset(k) + LastStagger
  BY DEF StartJob, Timing, TimeInv, Waiting
<1>7. /\ LastStagger' = LastStagger /\ Spread' = Spread
      /\ \A j \in Keys : KeyOffset(j)' = KeyOffset(j)
  BY DurationsStay DEF StartJob
<1>8. /\ job'[k] = [phase |-> "fetching", until |-> now + latency]
      /\ now <= now + latency
      /\ now + latency <= tickStart + KeyOffset(k) + Spread
  BY <1>1, <1>2, <1>5, <1>6 DEF Timing, TypeInv
<1>9. ASSUME NEW j \in Keys, j # k PROVE job'[j] = job[j]
  BY <1>1, <1>9 DEF Timing, TypeInv
<1>10. phase = "collecting"
  BY DEF StartJob, Timing, TimeInv
<1>11. ASSUME NEW j \in Keys
       PROVE  /\ job'[j] # None => now <= job'[j].until
              /\ job'[j] # None /\ job'[j].phase = "waiting" =>
                    job'[j].until <= tickStart + KeyOffset(j) + LastStagger
              /\ job'[j] # None /\ job'[j].phase = "fetching" =>
                    job'[j].until <= tickStart + KeyOffset(j) + Spread
  <2>1. CASE j = k
    BY <1>8, <2>1
  <2>2. CASE j # k
    BY <1>9, <2>2 DEF Timing, TimeInv, Waiting, Fetching
  <2> QED
    BY <2>1, <2>2
<1> QED
  BY <1>4, <1>7, <1>10, <1>11 DEF StartJob, Timing, TimeInv, Waiting, Fetching

LEMMA RecordTypes ==
    ASSUME NEW b \in Records, NEW t \in Nat, NEW period \in Nat,
           NEW base \in Nat, NEW maxS \in Int
    PROVE  /\ OnSuccess(b) \in Records
           /\ OnSuccessAt(b, t, period) \in Records
           /\ OnFailure(b, t, base, Mult, maxS) \in Records
<1>1. FailureDelay(b, base, Mult, maxS) \in Int
  BY BackoffDelayInt, CadenceAssumption DEF FailureDelay, Records
<1>0. 0 \in Nat /\ 0 \in Int
  OBVIOUS
<1>2. OnSuccess(b) \in Records
  BY <1>0, Zenon DEF OnSuccess, Records
<1>3. OnSuccessAt(b, t, period) \in Records
  <2>1. t + period \in Int
    OBVIOUS
  <2> QED
    BY <1>0, <2>1, Zenon DEF OnSuccessAt, Records
<1>4. OnFailure(b, t, base, Mult, maxS) \in Records
  <2>1. t + FailureDelay(b, base, Mult, maxS) \in Int /\ b.fails + 1 \in Nat
    BY <1>1 DEF Records
  <2> QED
    BY <2>1, Zenon DEF OnFailure, Records
<1> QED
  BY <1>2, <1>3, <1>4

\* A goroutine ends: skipped or answered.
EndsJob(k) == SkipBusy(k) \/ CollectOk(k) \/ CollectPlatformError(k)

LEMMA TimingEndsJob ==
    ASSUME Timing, NEW k \in Keys, EndsJob(k) PROVE Timing'
<1>1. /\ job' = [job EXCEPT ![k] = None]
      /\ UNCHANGED <<settings, now, phase, tickStart, wakeAt>>
  BY DEF EndsJob, SkipBusy, CollectOk, CollectPlatformError
<1>2. TypeInv'
  <2>1. /\ PlatformOf[k] \in Platforms /\ KeyPeriod(k) \in Nat
        /\ Base \in Nat /\ Cap \in Int
    BY OffsetAndPeriod, BaseType, CadenceAssumption DEF Timing, TypeInv
  <2>2. backoffs[k] \in Records /\ platformBackoffs[PlatformOf[k]] \in Records /\ now \in Nat
    BY <2>1 DEF Timing, TypeInv
  <2>3. /\ OnSuccess(platformBackoffs[PlatformOf[k]]) \in Records
        /\ OnSuccessAt(backoffs[k], now, KeyPeriod(k)) \in Records
        /\ OnFailure(platformBackoffs[PlatformOf[k]], now, Base, Mult, Cap) \in Records
    BY <2>1, <2>2, RecordTypes
  <2>4. CASE SkipBusy(k)
    BY <1>1, <2>4 DEF SkipBusy, Timing, TypeInv
  <2>5. CASE CollectOk(k)
    BY <1>1, <2>1, <2>3, <2>5 DEF CollectOk, Timing, TypeInv
  <2>6. CASE CollectPlatformError(k)
    BY <1>1, <2>1, <2>3, <2>6 DEF CollectPlatformError, Timing, TypeInv
  <2> QED
    BY <2>4, <2>5, <2>6 DEF EndsJob
<1>3. settings' = settings
  BY <1>1
<1>4. \A j \in Keys : job'[j] = None \/ job'[j] = job[j]
  BY <1>1 DEF Timing, TypeInv
<1> QED
  BY <1>1, <1>2, <1>3, <1>4, DurationsStay DEF Timing, TimeInv, Waiting, Fetching

LEMMA TimingTickDone ==
    ASSUME Timing, TickDone PROVE Timing'
<1>1. PICK jitter \in settings.jitter :
        wakeAt' = IF tickStart + Base + jitter * Second > now
                  THEN tickStart + Base + jitter * Second ELSE now
  BY DEF TickDone
<1>2. /\ jitter * Second \in Int /\ MinJitter \in Int /\ MinJitter <= jitter * Second
      /\ Base \in Nat
  BY SettingBounds, BaseType DEF Timing, TypeInv
<1>3. wakeAt' \in Nat /\ now <= wakeAt' /\ tickStart + Base + MinJitter <= wakeAt'
  BY <1>1, <1>2 DEF Timing, TypeInv
<1>4. TypeInv'
  BY <1>3 DEF TickDone, Timing, TypeInv
<1> QED
  BY <1>3, <1>4, DurationsStay DEF TickDone, Timing, TimeInv, Waiting, Fetching

\* The next instant is that of something pending, and not earlier than any.
LEMMA AdvanceTo ==
    ASSUME Timing, Advance
    PROVE  now' \in Nat /\ now < now' /\ \A t \in Pending : now' <= t
<1> DEFINE Busies == {j \in Keys : job[j] # None}
<1>1. Pending \subseteq Nat /\ Pending \subseteq Int /\ Pending # {}
  <2>1. \A k \in Busies : job[k].until \in Nat
    BY JobIsRecord DEF Timing
  <2>2. Pending \subseteq Nat
    BY <2>1 DEF Pending, Timing, TypeInv
  <2> QED
    BY <2>2 DEF Advance
<1>2. IsFiniteSet(Pending)
  <2>1. IsFiniteSet(Busies)
    BY CadenceAssumption, FS_Subset
  <2> DEFINE at == [k \in Busies |-> job[k].until]
  <2> DEFINE Ends == {job[k].until : k \in Busies}
  <2>2. at \in Surjection(Busies, Ends)
    BY DEF Surjection
  <2>3. IsFiniteSet(Ends)
    <3> HIDE DEF Busies, Ends, at
    <3> QED
      BY <2>1, <2>2, FS_Surjection
  <2>4. Pending = IF phase = "sleeping" THEN Ends \cup {wakeAt} ELSE Ends
    BY DEF Pending
  <2>5. IsFiniteSet(Ends \cup {wakeAt})
    <3> HIDE DEF Ends
    <3> QED
      BY <2>3, FS_AddElement
  <2> HIDE DEF Ends
  <2> QED
    BY <2>3, <2>4, <2>5
<1>3. now' = Min(Pending) /\ \A t \in Pending : t > now
  BY DEF Advance
<1>4. Min(Pending) \in Pending /\ \A t \in Pending : Min(Pending) <= t
  BY <1>1, <1>2, MinExists
<1> QED
  BY <1>1, <1>3, <1>4

LEMMA TimingAdvance ==
    ASSUME Timing, Advance PROVE Timing'
<1>1. now' \in Nat /\ now < now' /\ \A t \in Pending : now' <= t
  BY AdvanceTo
<1>2. /\ UNCHANGED <<settings, phase, tickStart, wakeAt, job, backoffs, platformBackoffs,
                     missed, raised>>
      /\ phase # "plan"
  BY DEF Advance
<1>3. TypeInv'
  BY <1>1, <1>2 DEF Timing, TypeInv
<1>4. \A k \in Keys : job[k] # None => now' <= job[k].until
  BY <1>1 DEF Pending
<1>5. phase = "sleeping" => now' <= wakeAt
  BY <1>1 DEF Pending
<1>6. settings' = settings
  BY <1>2
<1>7. tickStart <= now'
  BY <1>1 DEF Timing, TimeInv, TypeInv
<1> QED
  BY <1>2, <1>3, <1>4, <1>5, <1>6, <1>7, DurationsStay DEF Timing, TimeInv, Waiting, Fetching

LEMMA TimingNext == Timing /\ [Next]_vars => Timing'
<1> SUFFICES ASSUME Timing, [Next]_vars PROVE Timing'
  OBVIOUS
<1>1. CASE TimerFires
  BY <1>1, DurationsStay DEF TimerFires, Timing, TypeInv, TimeInv, Waiting, Fetching
<1>2. CASE UNCHANGED vars
  BY <1>2, DurationsStay DEF vars, Timing, TypeInv, TimeInv, Waiting, Fetching
<1>3. CASE Finished
  BY <1>2, <1>3 DEF Finished
<1>4. ASSUME NEW k \in Keys,
             StartJob(k) \/ SkipBusy(k) \/ CollectOk(k) \/ CollectPlatformError(k)
      PROVE  Timing'
  BY <1>4, TimingStartJob, TimingEndsJob DEF EndsJob
<1> QED
  BY <1>1, <1>2, <1>3, <1>4, TimingPlanTick, TimingTickDone, TimingAdvance DEF Next

\* Every instant of a tick lies where the offsets, staggers and latencies put it.
THEOREM TimingAlways == Spec => []Timing
  BY TimingInit, TimingNext, PTL DEF Spec

-----------------------------------------------------------------------------
(* What a record says after an answer.                                     *)

LEMMA NextOf ==
    ASSUME NEW b \in Records, NEW t \in Nat, NEW period \in Nat
    PROVE  /\ OnSuccess(b).next = 0
           /\ OnSuccessAt(b, t, period).next = t + period
  BY Zenon DEF OnSuccess, OnSuccessAt, Records

LEMMA NextOfFailure ==
    ASSUME NEW b \in Records, NEW t, NEW base, NEW mult, NEW maxS
    PROVE  OnFailure(b, t, base, mult, maxS).next = t + FailureDelay(b, base, mult, maxS)
  BY Zenon DEF OnFailure, Records

\* Of a key answered ok, of its platform, and of the others.
LEMMA AfterOk ==
    ASSUME Timing, NEW k \in Keys, CollectOk(k)
    PROVE  /\ now = job[k].until /\ Fetching(k)
           /\ job' = [job EXCEPT ![k] = None]
           /\ UNCHANGED <<settings, now, phase, tickStart, wakeAt, missed>>
           /\ backoffs'[k].next = now + KeyPeriod(k)
           /\ \A j \in Keys : j # k => backoffs'[j] = backoffs[j]
           /\ platformBackoffs'[PlatformOf[k]].next = 0
           /\ \A p \in Platforms : p # PlatformOf[k] => platformBackoffs'[p] = platformBackoffs[p]
           /\ raised' = [raised EXCEPT ![PlatformOf[k]] = 0]
<1>1. PlatformOf[k] \in Platforms /\ KeyPeriod(k) \in Nat
  BY OffsetAndPeriod, CadenceAssumption DEF Timing, TypeInv
<1>2. backoffs[k] \in Records /\ platformBackoffs[PlatformOf[k]] \in Records /\ now \in Nat
  BY <1>1 DEF Timing, TypeInv
<1>3. /\ OnSuccessAt(backoffs[k], now, KeyPeriod(k)).next = now + KeyPeriod(k)
      /\ OnSuccess(platformBackoffs[PlatformOf[k]]).next = 0
  BY <1>1, <1>2, NextOf
<1> QED
  BY <1>1, <1>3 DEF CollectOk, Answered, Fetching, Timing, TypeInv

-----------------------------------------------------------------------------
(* While requests succeed no platform waits.                               *)

OpenInv == AllSucceed => \A p \in Platforms : platformBackoffs[p].next = 0

LEMMA OpenInit == Init => OpenInv
  BY DEF Init, OpenInv, ZeroBackoff

LEMMA OpenNext == Timing /\ OpenInv /\ [Next]_vars => OpenInv'
<1> SUFFICES ASSUME Timing, OpenInv, [Next]_vars, AllSucceed', NEW p \in Platforms
             PROVE  platformBackoffs'[p].next = 0
  BY DEF OpenInv
<1>1. settings' = settings /\ AllSucceed
  BY DEF Next, vars, PlanTick, TickDone, TimerFires, Advance, Finished, StartJob, SkipBusy,
         CollectOk, CollectPlatformError, AllSucceed
<1>2. platformBackoffs[p].next = 0
  BY <1>1 DEF OpenInv
<1>3. ASSUME NEW k \in Keys, CollectOk(k) PROVE platformBackoffs'[p].next = 0
  BY <1>2, <1>3, AfterOk
<1>4. ~\E k \in Keys : CollectPlatformError(k)
  BY <1>1 DEF CollectPlatformError, AllSucceed
<1> QED
  BY <1>2, <1>3, <1>4 DEF Next, vars, PlanTick, TickDone, TimerFires, Advance, Finished,
                          StartJob, SkipBusy

\* Then only its own record can keep a key from a tick.
LEMMA DueWhen ==
    ASSUME Timing, OpenInv, AllSucceed, NEW k \in Keys
    PROVE  Due(k) <=> backoffs[k].next <= now
<1>1. /\ PlatformOf[k] \in Platforms
      /\ platformBackoffs[PlatformOf[k]] \in Records /\ backoffs[k] \in Records
      /\ now \in Nat
  BY CadenceAssumption DEF Timing, TypeInv
<1>2. platformBackoffs[PlatformOf[k]].next = 0
  BY <1>1 DEF OpenInv
<1>3. ~platformBackoffs[PlatformOf[k]].stopped /\ ~backoffs[k].stopped
  BY <1>1 DEF Records
<1>4. backoffs[k].next \in Int
  BY <1>1 DEF Records
<1> QED
  BY <1>1, <1>2, <1>3, <1>4 DEF Due, Eligible

\* The settings of a behaviour and what depends on them alone.
LEMMA SettingsStay ==
    ASSUME [Next]_vars
    PROVE  settings' = settings /\ AllSucceed' = AllSucceed /\ Brief' = Brief
<1>1. settings' = settings
  BY DEF Next, vars, PlanTick, TickDone, TimerFires, Advance, Finished, StartJob, SkipBusy,
         CollectOk, CollectPlatformError
<1> QED
  BY <1>1, DurationsStay DEF AllSucceed, Brief, KeyCount, Siblings

\* A key answered in a tick is due again an interval, an overhang
\* and a spread after the tick began.
LEMMA NextAfterOk ==
    ASSUME Timing, NEW k \in Keys, CollectOk(k)
    PROVE  backoffs'[k].next <= tickStart + Base + Overhang + Spread
<1>1. backoffs'[k].next = job[k].until + KeyPeriod(k) /\ Fetching(k)
  BY AfterOk
<1>2. job[k].until <= tickStart + KeyOffset(k) + Spread
  BY <1>1 DEF Timing, TimeInv
<1>3. /\ job[k].until \in Nat /\ tickStart \in Nat
      /\ Spread \in Nat /\ Base \in Nat /\ Overhang \in Nat
  BY <1>1, JobIsRecord, LastStaggerType, BaseType, OverhangType DEF Timing, TypeInv, Fetching
<1>4. /\ KeyOffset(k) \in Nat /\ KeyPeriod(k) \in Nat
      /\ KeyOffset(k) + KeyPeriod(k) <= Base + Overhang
  BY OffsetAndPeriod DEF Timing, TypeInv
<1> QED
  BY <1>1, <1>2, <1>3, <1>4

-----------------------------------------------------------------------------
(* Every key is due at every tick while the spread fits into the jitter.   *)

EveryInv ==
    AllSucceed /\ Spread + Overhang <= MinJitter =>
        \A k \in Keys : IF phase = "plan" THEN backoffs[k].next <= now
                        ELSE backoffs[k].next <= tickStart + Base + Overhang + Spread

LEMMA EveryInit == Init => EveryInv
  BY DEF Init, EveryInv, ZeroBackoff

LEMMA EveryNext == Timing /\ Timing' /\ EveryInv /\ [Next]_vars => EveryInv'
<1> SUFFICES ASSUME Timing, Timing', EveryInv, [Next]_vars,
                    AllSucceed', Spread' + Overhang' <= MinJitter', NEW k \in Keys
             PROVE  IF phase' = "plan" THEN backoffs'[k].next <= now'
                    ELSE backoffs'[k].next <= tickStart' + Base' + Overhang' + Spread'
  BY DEF EveryInv
<1>1. /\ Base' = Base /\ Spread' = Spread /\ Overhang' = Overhang /\ AllSucceed
      /\ Spread + Overhang <= MinJitter
  BY SettingsStay, DurationsStay
<1>2. IF phase = "plan" THEN backoffs[k].next <= now
      ELSE backoffs[k].next <= tickStart + Base + Overhang + Spread
  BY <1>1 DEF EveryInv
<1>3. /\ backoffs[k].next \in Int /\ now \in Nat /\ tickStart \in Nat /\ wakeAt \in Nat
      /\ Spread \in Nat /\ Base \in Nat /\ Overhang \in Nat /\ MinJitter \in Int
  BY LastStaggerType, SettingBounds, BaseType, OverhangType DEF Timing, TypeInv, Records
<1>4. CASE PlanTick
  BY <1>1, <1>2, <1>3, <1>4 DEF PlanTick
<1>5. CASE TimerFires
  <2>1. tickStart + Base + MinJitter <= now
    BY <1>5 DEF TimerFires, Timing, TimeInv
  <2> QED
    BY <1>1, <1>2, <1>3, <1>5, <2>1 DEF TimerFires
<1>6. ASSUME NEW j \in Keys, CollectOk(j)
      PROVE  /\ phase' = phase /\ phase # "plan" /\ tickStart' = tickStart
             /\ backoffs'[k].next <= tickStart + Base + Overhang + Spread
  <2>1. Fetching(j) /\ phase' = phase /\ tickStart' = tickStart
    BY <1>6, AfterOk
  <2>2. phase # "plan"
    BY <2>1 DEF Timing, TimeInv, Fetching
  <2>3. CASE k = j
    BY <1>6, <2>1, <2>2, <2>3, NextAfterOk
  <2>4. CASE k # j
    BY <1>2, <1>6, <2>1, <2>2, <2>4, AfterOk
  <2> QED
    BY <2>1, <2>2, <2>3, <2>4
<1>7. ~\E j \in Keys : CollectPlatformError(j)
  BY <1>1 DEF CollectPlatformError, AllSucceed
<1>8. CASE \/ TickDone \/ Advance \/ Finished \/ UNCHANGED vars
           \/ \E j \in Keys : StartJob(j) \/ SkipBusy(j)
  <2>1. /\ UNCHANGED <<tickStart, backoffs>>
        /\ (phase = "plan") <=> (phase' = "plan")
        /\ phase = "plan" => now' = now
    BY <1>8 DEF TickDone, Advance, Finished, vars, StartJob, SkipBusy
  <2> QED
    BY <1>1, <1>2, <2>1
<1> QED
  BY <1>1, <1>4, <1>5, <1>6, <1>7, <1>8 DEF Next

\* README: each key is still collected once per period.  While requests succeed
\* and the staggers before a key, one request and the overhang fit into the
\* smallest jitter, every tick finds every key due: the tick is planned an interval
\* and that jitter after the last one, the key is due an interval, the overhang and
\* at most the spread after it.
THEOREM EveryTickFindsEveryKey == Spec => []EveryKeyEveryTick
<1>1. Timing /\ OpenInv /\ EveryInv => EveryKeyEveryTick
  BY DueWhen DEF EveryInv, EveryKeyEveryTick, EachKeyOncePerPeriod
<1>2. Init => OpenInv /\ EveryInv
  BY OpenInit, EveryInit
<1>3. Timing /\ Timing' /\ OpenInv /\ EveryInv /\ [Next]_vars => (OpenInv /\ EveryInv)'
  BY OpenNext, EveryNext
<1> QED
  BY <1>1, <1>2, <1>3, TimingAlways, PTL DEF Spec

-----------------------------------------------------------------------------
(* The keys of a platform take turns while a request is shorter than a     *)
(* share of the period.                                                    *)

OrderInv ==
    AllSucceed /\ Brief =>
        \A j, k \in Keys : Before(j, k) =>
            /\ Waiting(j) /\ Waiting(k) => job[j].until + Share(k) <= job[k].until
            /\ Fetching(j) /\ Waiting(k) => job[j].until < job[k].until
            /\ Fetching(k) => ~Waiting(j)

\* A share of a platform with several keys is longer than any request.
LEMMA ShareIsLonger ==
    ASSUME Timing, Brief, NEW j \in Keys, NEW k \in Keys, Before(j, k)
    PROVE  /\ Share(k) \in Nat
           /\ Share(k) > 0
           /\ \A d \in settings.latency : d \in Nat /\ d < Share(k)
<1>1. KeyCount(k) > 1
  BY OffsetOrder DEF Timing, TypeInv
<1>2. Share(k) \in Nat
  BY ShareBounds DEF Timing, TypeInv
<1>3. Max(settings.latency) < Share(k)
  BY <1>1 DEF Brief
<1>4. /\ Max(settings.latency) \in Nat
      /\ \A d \in settings.latency : d \in Nat /\ d <= Max(settings.latency)
  BY SettingBounds DEF Timing, TypeInv
<1> HIDE DEF Brief
<1> QED
  BY <1>2, <1>3, <1>4

\* So a key whose delay is over finds the slot of its platform free.
LEMMA NoSkip ==
    ASSUME Timing, OrderInv, AllSucceed, Brief, NEW k \in Keys
    PROVE  ~SkipBusy(k)
<1> SUFFICES ASSUME SkipBusy(k) PROVE FALSE
  OBVIOUS
<1>1. Waiting(k) /\ job[k].until = now /\ now \in Nat
  BY DEF SkipBusy, Waiting, Timing, TypeInv
<1>2. PICK j \in Keys : PlatformOf[j] = PlatformOf[k] /\ Fetching(j)
  BY DEF SkipBusy, Busy, Fetching
<1>3. j # k
  BY <1>1, <1>2 DEF Waiting, Fetching
<1>4. Before(j, k) \/ Before(k, j)
  <2>1. /\ Position[j] # Position[k]
        /\ Position[j] \in Int /\ Position[k] \in Int
    BY <1>3, CadenceAssumption
  <2> QED
    BY <1>2, <2>1 DEF Before
<1>5. now <= job[j].until /\ job[j].until \in Nat
  BY <1>2, JobIsRecord DEF Timing, TimeInv, Fetching
<1>6. CASE Before(j, k)
  <2>1. job[j].until < job[k].until
    BY <1>1, <1>2, <1>6 DEF OrderInv
  <2> QED
    BY <1>1, <1>5, <2>1
<1>7. CASE Before(k, j)
  BY <1>1, <1>2, <1>7 DEF OrderInv
<1> QED
  BY <1>4, <1>6, <1>7

LEMMA OrderInit == Init => OrderInv
  BY DEF Init, OrderInv, Waiting, Fetching

LEMMA OrderPlanTick ==
    ASSUME Timing, PlanTick, NEW j \in Keys, NEW k \in Keys, Before(j, k)
    PROVE  /\ Waiting(j)' /\ Waiting(k)' =>
                 job'[j].until + Share(k) <= job'[k].until
           /\ ~Fetching(j)' /\ ~Fetching(k)'
<1>1. PICK stagger \in [Keys -> settings.stagger] :
        job' = [i \in Keys |->
            IF Due(i)
            THEN [phase |-> "waiting", until |-> now + KeyOffset(i) + Accumulated(i, stagger)]
            ELSE None]
  BY DEF PlanTick
<1>2. ASSUME NEW i \in Keys, job'[i] # None
      PROVE  job'[i].phase = "waiting" /\ job'[i].until = now + KeyOffset(i) + Accumulated(i, stagger)
  BY <1>1, <1>2
<1>3. Accumulated(j, stagger) <= Accumulated(k, stagger)
  BY AccumulatedOrder DEF Timing, TypeInv, Before
<1>4. Accumulated(j, stagger) \in Nat /\ Accumulated(k, stagger) \in Nat /\ now \in Nat
  BY AccumulatedBounds DEF Timing, TypeInv
<1>5. KeyOffset(j) + Share(k) <= KeyOffset(k)
  BY OffsetOrder DEF Timing, TypeInv
<1>6. KeyOffset(j) \in Nat /\ KeyOffset(k) \in Nat /\ Share(k) \in Nat
  BY OffsetAndShare DEF Timing, TypeInv
<1>7. now + KeyOffset(j) + Accumulated(j, stagger) + Share(k)
        <= now + KeyOffset(k) + Accumulated(k, stagger)
  BY <1>3, <1>4, <1>5, <1>6
<1> QED
  BY <1>2, <1>7 DEF Waiting, Fetching

LEMMA OrderStartJob ==
    ASSUME Timing, OrderInv, AllSucceed, Brief, NEW s \in Keys, StartJob(s),
           NEW j \in Keys, NEW k \in Keys, Before(j, k)
    PROVE  /\ Waiting(j)' /\ Waiting(k)' =>
                 job'[j].until + Share(k) <= job'[k].until
           /\ Fetching(j)' /\ Waiting(k)' => job'[j].until < job'[k].until
           /\ Fetching(k)' => ~Waiting(j)'
<1>1. PICK latency \in settings.latency :
        job' = [job EXCEPT ![s] = [phase |-> "fetching", until |-> now + latency]]
  BY DEF StartJob
<1>2. /\ job'[s] = [phase |-> "fetching", until |-> now + latency]
      /\ job'[s] # None
      /\ \A i \in Keys : i # s => job'[i] = job[i]
  <2>1. now + latency \in Nat
    BY SettingBounds DEF Timing, TypeInv
  <2>2. [phase |-> "fetching", until |-> now + latency] # None
    BY <2>1, NewJob
  <2> QED
    BY <1>1, <2>2 DEF Timing, TypeInv
<1>3. Fetching(s)' /\ ~Waiting(s)'
  BY <1>2 DEF Fetching, Waiting
<1>4. \A i \in Keys : i # s => (Fetching(i)' <=> Fetching(i)) /\ (Waiting(i)' <=> Waiting(i))
  BY <1>2 DEF Fetching, Waiting
<1>5. /\ Waiting(j) /\ Waiting(k) => job[j].until + Share(k) <= job[k].until
      /\ Fetching(j) /\ Waiting(k) => job[j].until < job[k].until
      /\ Fetching(k) => ~Waiting(j)
  BY DEF OrderInv
<1>6. j # k
  BY CadenceAssumption DEF Before
<1>7. Waiting(s) /\ job[s].until = now /\ now \in Nat
  BY DEF StartJob, Waiting, Timing, TypeInv
<1>8. CASE s = j
  <2>1. latency \in Nat /\ latency < Share(k) /\ Share(k) \in Nat
    BY ShareIsLonger
  <2>2. Waiting(k)' => now + Share(k) <= job[k].until
    BY <1>4, <1>5, <1>6, <1>7, <1>8
  <2>3. Waiting(k) => job[k].until \in Nat
    BY JobIsRecord DEF Timing, Waiting
  <2>4. Waiting(k)' => now + latency < job'[k].until
    BY <1>2, <1>4, <1>6, <1>7, <1>8, <2>1, <2>2, <2>3
  <2> QED
    BY <1>2, <1>3, <1>8, <2>4
<1>9. CASE s = k
  <2>1. Share(k) \in Nat /\ Share(k) > 0
    BY ShareIsLonger
  <2>2. Waiting(j) => now <= job[j].until /\ job[j].until \in Nat
    BY JobIsRecord DEF Timing, TimeInv, Waiting
  <2>3. ~Waiting(j)
    BY <1>5, <1>7, <1>9, <2>1, <2>2
  <2> QED
    BY <1>3, <1>4, <1>6, <1>9, <2>3
<1>10. CASE s # j /\ s # k
  BY <1>2, <1>4, <1>5, <1>10
<1> QED
  BY <1>8, <1>9, <1>10

LEMMA OrderNext == Timing /\ OrderInv /\ [Next]_vars => OrderInv'
<1> SUFFICES ASSUME Timing, OrderInv, [Next]_vars, AllSucceed', Brief',
                    NEW j \in Keys, NEW k \in Keys, Before(j, k)
             PROVE  /\ Waiting(j)' /\ Waiting(k)' =>
                          job'[j].until + Share(k)' <= job'[k].until
                    /\ Fetching(j)' /\ Waiting(k)' => job'[j].until < job'[k].until
                    /\ Fetching(k)' => ~Waiting(j)'
  BY DEF OrderInv, Before
<1>1. AllSucceed /\ Brief /\ Share(k)' = Share(k)
  BY SettingsStay, DurationsStay
<1>2. CASE PlanTick
  BY <1>1, <1>2, OrderPlanTick
<1>3. ASSUME NEW s \in Keys, StartJob(s)
      PROVE  /\ Waiting(j)' /\ Waiting(k)' =>
                   job'[j].until + Share(k) <= job'[k].until
             /\ Fetching(j)' /\ Waiting(k)' => job'[j].until < job'[k].until
             /\ Fetching(k)' => ~Waiting(j)'
  BY <1>1, <1>3, OrderStartJob
<1>4. CASE \/ TickDone \/ TimerFires \/ Advance \/ Finished \/ UNCHANGED vars
           \/ \E s \in Keys : EndsJob(s)
  <2>1. \A i \in Keys : job'[i] = None \/ job'[i] = job[i]
    BY <1>4 DEF TickDone, TimerFires, Advance, Finished, vars, EndsJob, SkipBusy, CollectOk,
                CollectPlatformError, Timing, TypeInv
  <2>2. /\ Waiting(j) /\ Waiting(k) => job[j].until + Share(k) <= job[k].until
        /\ Fetching(j) /\ Waiting(k) => job[j].until < job[k].until
        /\ Fetching(k) => ~Waiting(j)
    BY <1>1 DEF OrderInv
  <2> QED
    BY <1>1, <2>1, <2>2 DEF Waiting, Fetching
<1> QED
  BY <1>1, <1>2, <1>3, <1>4 DEF Next, EndsJob

-----------------------------------------------------------------------------
(* A key misses no two ticks in a row.                                     *)

Unhurried ==
    AllSucceed /\ Brief /\ Spread + Overhang <= Base /\ MinJitter >= 0

\* What a key that missed a tick is due by leaves it no other tick to miss.
MissOf(k) ==
    /\ missed[k] <= 1
    /\ Fetching(k) => missed[k] = 0
    /\ Waiting(k) => backoffs[k].next <= tickStart
    /\ phase = "plan" =>
          backoffs[k].next <= now + (IF missed[k] = 0 THEN Base ELSE 0)
    /\ phase # "plan" =>
          backoffs[k].next <= tickStart + Base + (IF missed[k] = 0 THEN Base ELSE 0)

MissInv == Unhurried => \A k \in Keys : MissOf(k)

LEMMA MissInit == Init => MissInv
  BY BaseType DEF Init, MissInv, MissOf, Waiting, Fetching, ZeroBackoff

LEMMA MissPlanTick ==
    ASSUME Timing, OpenInv, AllSucceed, PlanTick, NEW k \in Keys, MissOf(k)
    PROVE  MissOf(k)'
<1>1. /\ backoffs' = backoffs /\ tickStart' = now /\ phase' = "collecting" /\ Base' = Base
      /\ missed'[k] = IF Due(k) THEN missed[k] ELSE missed[k] + 1
  BY DurationsStay DEF PlanTick
<1>2. Due(k) <=> backoffs[k].next <= now
  BY DueWhen
<1>3. ~Fetching(k)' /\ (Waiting(k)' => Due(k))
  BY DEF PlanTick, Waiting, Fetching
<1>4. missed[k] \in Nat /\ backoffs[k].next \in Int /\ now \in Nat /\ Base \in Nat
  BY BaseType DEF Timing, TypeInv, Records
<1>5. /\ missed[k] <= 1
      /\ backoffs[k].next <= now + (IF missed[k] = 0 THEN Base ELSE 0)
  BY DEF MissOf, PlanTick
<1>6. CASE Due(k)
  BY <1>1, <1>2, <1>3, <1>4, <1>5, <1>6 DEF MissOf
<1>7. CASE ~Due(k)
  <2>1. missed[k] = 0 /\ missed'[k] = 1
    BY <1>1, <1>2, <1>4, <1>5, <1>7
  <2> QED
    BY <1>1, <1>3, <1>4, <1>5, <1>7, <2>1 DEF MissOf
<1> QED
  BY <1>6, <1>7

LEMMA MissStartJob ==
    ASSUME Timing, NEW j \in Keys, StartJob(j), NEW k \in Keys, MissOf(k)
    PROVE  MissOf(k)'
<1>1. /\ UNCHANGED <<tickStart, phase, backoffs>> /\ phase = "collecting"
      /\ missed' = [missed EXCEPT ![j] = 0] /\ Base' = Base
  BY DurationsStay DEF StartJob, Timing, TimeInv
<1>2. /\ missed \in [Keys -> Nat] /\ tickStart \in Nat /\ Base \in Nat
      /\ backoffs[k].next \in Int
  BY BaseType DEF Timing, TypeInv, Records
<1>3. CASE k = j
  <2>1. Waiting(k)
    BY <1>3 DEF StartJob, Waiting
  <2>2. backoffs[k].next <= tickStart
    BY <2>1 DEF MissOf
  <2>3. ~Waiting(k)'
    <3>1. PICK latency \in settings.latency :
            job' = [job EXCEPT ![k] = [phase |-> "fetching", until |-> now + latency]]
      BY <1>3 DEF StartJob
    <3>2. job'[k].phase = "fetching"
      BY <3>1 DEF Timing, TypeInv
    <3> QED
      BY <3>2 DEF Waiting
  <2> QED
    BY <1>1, <1>2, <1>3, <2>2, <2>3 DEF MissOf
<1>4. CASE k # j
  <2>1. missed'[k] = missed[k] /\ job'[k] = job[k]
    BY <1>1, <1>2, <1>4 DEF StartJob, Timing, TypeInv
  <2>2. (Waiting(k)' <=> Waiting(k)) /\ (Fetching(k)' <=> Fetching(k))
    BY <2>1 DEF Waiting, Fetching
  <2> QED
    BY <1>1, <2>1, <2>2 DEF MissOf
<1> QED
  BY <1>3, <1>4

LEMMA MissCollectOk ==
    ASSUME Timing, Unhurried, NEW j \in Keys, CollectOk(j), NEW k \in Keys, MissOf(k)
    PROVE  MissOf(k)'
<1>1. /\ UNCHANGED <<tickStart, phase, missed>> /\ Fetching(j)
      /\ job' = [job EXCEPT ![j] = None] /\ Base' = Base
  BY AfterOk, DurationsStay
<1>2. phase = "collecting"
  BY <1>1 DEF Timing, TimeInv, Fetching
<1>3. CASE k = j
  <2>1. backoffs'[k].next <= tickStart + Base + Overhang + Spread
    BY <1>3, NextAfterOk
  <2>2. /\ Spread + Overhang <= Base /\ Spread \in Nat /\ Overhang \in Nat
        /\ Base \in Nat /\ tickStart \in Nat
    BY LastStaggerType, BaseType, OverhangType DEF Unhurried, Timing, TypeInv
  <2>3. Timing'
    BY TimingEndsJob DEF EndsJob
  <2>4. backoffs'[k].next \in Int
    BY <2>3 DEF Timing, TypeInv, Records
  <2>5. missed[k] = 0 /\ missed'[k] = 0
    BY <1>1, <1>3 DEF MissOf
  <2>6. ~Waiting(k)' /\ ~Fetching(k)'
    BY <1>1, <1>3 DEF Waiting, Fetching, Timing, TypeInv
  <2>7. backoffs'[k].next <= tickStart + Base + Base
    BY <2>1, <2>2, <2>4
  <2> QED
    BY <1>1, <1>2, <2>5, <2>6, <2>7 DEF MissOf
<1>4. CASE k # j
  <2>1. backoffs'[k] = backoffs[k] /\ job'[k] = job[k]
    BY <1>1, <1>4, AfterOk DEF Timing, TypeInv
  <2>2. (Waiting(k)' <=> Waiting(k)) /\ (Fetching(k)' <=> Fetching(k))
    BY <2>1 DEF Waiting, Fetching
  <2> QED
    BY <1>1, <1>2, <2>1, <2>2 DEF MissOf
<1> QED
  BY <1>3, <1>4

LEMMA MissTimerFires ==
    ASSUME Timing, Unhurried, TimerFires, NEW k \in Keys, MissOf(k)
    PROVE  MissOf(k)'
<1>1. /\ UNCHANGED <<now, missed, job, backoffs, tickStart>>
      /\ phase = "sleeping" /\ phase' = "plan" /\ wakeAt = now
      /\ Base' = Base
  BY DurationsStay DEF TimerFires
<1>2. tickStart + Base + MinJitter <= now
  BY <1>1 DEF Timing, TimeInv
<1>3. /\ now \in Nat /\ tickStart \in Nat /\ Base \in Nat /\ missed[k] \in Nat
      /\ MinJitter \in Int /\ backoffs[k].next \in Int
  BY SettingBounds, BaseType DEF Timing, TypeInv, Records
<1>4. MinJitter >= 0
  BY DEF Unhurried
<1>5. backoffs[k].next <= tickStart + Base + (IF missed[k] = 0 THEN Base ELSE 0)
  BY <1>1 DEF MissOf
<1>6. ~Waiting(k)' /\ ~Fetching(k)'
  BY <1>1 DEF Timing, TimeInv, Waiting, Fetching
<1> QED
  BY <1>1, <1>2, <1>3, <1>4, <1>5, <1>6 DEF MissOf

LEMMA MissNext == Timing /\ OpenInv /\ OrderInv /\ MissInv /\ [Next]_vars => MissInv'
<1> SUFFICES ASSUME Timing, OpenInv, OrderInv, MissInv, [Next]_vars, Unhurried', NEW k \in Keys
             PROVE  MissOf(k)'
  BY DEF MissInv
<1>1. Unhurried /\ AllSucceed /\ Brief /\ Base' = Base
  BY SettingsStay, DurationsStay DEF Unhurried
<1>2. MissOf(k)
  BY <1>1 DEF MissInv
<1>3. CASE PlanTick
  BY <1>1, <1>2, <1>3, MissPlanTick
<1>4. CASE TimerFires
  BY <1>1, <1>2, <1>4, MissTimerFires
<1>5. ASSUME NEW j \in Keys, StartJob(j) \/ CollectOk(j)
      PROVE  MissOf(k)'
  BY <1>1, <1>2, <1>5, MissStartJob, MissCollectOk
<1>6. ~\E j \in Keys : SkipBusy(j) \/ CollectPlatformError(j)
  BY <1>1, NoSkip DEF CollectPlatformError, AllSucceed
<1>7. CASE TickDone \/ Advance \/ Finished \/ UNCHANGED vars
  <2>1. /\ UNCHANGED <<tickStart, job, backoffs, missed>>
        /\ (phase = "plan") <=> (phase' = "plan")
        /\ phase = "plan" => now' = now
    BY <1>7 DEF TickDone, Advance, Finished, vars
  <2> QED
    BY <1>1, <1>2, <2>1 DEF MissOf, Waiting, Fetching
<1> QED
  BY <1>3, <1>4, <1>5, <1>6, <1>7 DEF Next

\* README: each key is still collected once per period.  While requests succeed
\* and are shorter than a share of the period, no key gives way to a sibling, and
\* one answered late is due again before the tick after the next.
THEOREM NoKeyIsLeftOutTwice == Spec => []NoKeyMissesTwice
<1>1. MissInv => NoKeyMissesTwice
  BY DEF MissInv, MissOf, Unhurried, NoKeyMissesTwice
<1>2. Init => OpenInv /\ OrderInv /\ MissInv
  BY OpenInit, OrderInit, MissInit
<1>3. Timing /\ OpenInv /\ OrderInv /\ MissInv /\ [Next]_vars => (OpenInv /\ OrderInv /\ MissInv)'
  BY OpenNext, OrderNext, MissNext
<1> QED
  BY <1>1, <1>2, <1>3, TimingAlways, PTL DEF Spec

-----------------------------------------------------------------------------
(* A platform's wait doubles once per tick.                                *)

Punctual == Cap >= Base /\ (\A k \in Keys : Spread < Share(k))

\* The wait a failure starts outlasts every request of the tick.
RaiseInv ==
    Punctual =>
        \A p \in Platforms :
            /\ raised[p] <= 1
            /\ raised[p] = 1 => platformBackoffs[p].next >= tickStart + Base

LEMMA RaiseInit == Init => RaiseInv
  BY DEF Init, RaiseInv

LEMMA AnsweredInPeriod ==
    ASSUME Timing, Punctual, NEW k \in Keys, Answered(k)
    PROVE  now < tickStart + Base
<1>1. Fetching(k) /\ job[k].until = now
  BY DEF Answered, Fetching
<1>2. now <= tickStart + KeyOffset(k) + Spread
  BY <1>1 DEF Timing, TimeInv
<1>3. KeyOffset(k) \in Nat /\ Share(k) \in Nat /\ KeyOffset(k) + Share(k) <= Base
  BY OffsetAndShare DEF Timing, TypeInv
<1>4. now \in Nat /\ tickStart \in Nat /\ Spread \in Nat /\ Base \in Nat
  BY LastStaggerType, BaseType DEF Timing, TypeInv
<1>5. Spread < Share(k)
  BY DEF Punctual
<1> HIDE DEF Punctual
<1> QED
  BY <1>2, <1>3, <1>4, <1>5

LEMMA RaisePlatformError ==
    ASSUME Timing, Punctual, RaiseInv, NEW k \in Keys, CollectPlatformError(k),
           NEW p \in Platforms
    PROVE  /\ raised'[p] <= 1
           /\ raised'[p] = 1 => platformBackoffs'[p].next >= tickStart' + Base'
<1> DEFINE q == PlatformOf[k]
<1>1. q \in Platforms
  BY CadenceAssumption
<1>2. now < tickStart + Base
  BY AnsweredInPeriod DEF CollectPlatformError
<1>3. /\ tickStart' = tickStart /\ now \in Nat /\ tickStart \in Nat /\ tickStart <= now
      /\ Base' = Base /\ Base \in Nat /\ Cap \in Int
      /\ raised \in [Platforms -> Nat] /\ platformBackoffs \in [Platforms -> Records]
  BY DurationsStay, BaseType DEF CollectPlatformError, Timing, TypeInv, TimeInv
<1>4. /\ raised[p] <= 1
      /\ raised[p] = 1 => platformBackoffs[p].next >= tickStart + Base
  BY DEF RaiseInv
<1>5. CASE ~Escalates(q)
  BY <1>3, <1>4, <1>5 DEF CollectPlatformError
<1>6. CASE Escalates(q)
  <2>1. /\ platformBackoffs' = [platformBackoffs EXCEPT ![q] =
               OnFailure(@, now, Base, Mult, Cap)]
        /\ raised' = [raised EXCEPT ![q] = @ + 1]
    BY <1>6 DEF CollectPlatformError
  <2>2. platformBackoffs[q] \in Records /\ platformBackoffs[q].next <= now
    BY <1>1, <1>3, <1>6 DEF Escalates, Eligible, Records
  <2>3. raised[q] = 0
    <3>1. raised[q] \in Nat /\ platformBackoffs[q].next \in Int /\ Base \in Nat
      BY <1>1, <1>3, <2>2, CadenceAssumption DEF Records
    <3>2. raised[q] <= 1 /\ (raised[q] = 1 => platformBackoffs[q].next >= tickStart + Base)
      BY <1>1 DEF RaiseInv
    <3> QED
      BY <1>2, <1>3, <2>2, <3>1, <3>2
  <2>4. FailureDelay(platformBackoffs[q], Base, Mult, Cap) \in Base .. Cap
    <3>1. platformBackoffs[q].fails \in Nat
      BY <2>2 DEF Records
    <3> QED
      BY <1>3, <3>1, BackoffDelayLeast, CadenceAssumption DEF FailureDelay, Punctual
  <2>5. platformBackoffs'[q].next
          = now + FailureDelay(platformBackoffs[q], Base, Mult, Cap)
    BY <1>1, <1>3, <2>1, <2>2, NextOfFailure
  <2>6. platformBackoffs'[q].next >= tickStart + Base
    BY <1>3, <2>4, <2>5, CadenceAssumption
  <2>7. CASE p = q
    BY <1>1, <1>3, <2>1, <2>3, <2>6, <2>7
  <2>8. CASE p # q
    BY <1>3, <1>4, <2>1, <2>8
  <2> QED
    BY <2>7, <2>8
<1> QED
  BY <1>5, <1>6

LEMMA RaiseNext == Timing /\ RaiseInv /\ [Next]_vars => RaiseInv'
<1> SUFFICES ASSUME Timing, RaiseInv, [Next]_vars, Punctual', NEW p \in Platforms
             PROVE  /\ raised'[p] <= 1
                    /\ raised'[p] = 1 => platformBackoffs'[p].next >= tickStart' + Base'
  BY DEF RaiseInv
<1>1. Punctual /\ Base' = Base
  BY SettingsStay, DurationsStay DEF Punctual
<1>2. /\ raised[p] <= 1
      /\ raised[p] = 1 => platformBackoffs[p].next >= tickStart + Base
  BY <1>1 DEF RaiseInv
<1>3. CASE PlanTick
  BY <1>3 DEF PlanTick
<1>4. ASSUME NEW k \in Keys, CollectOk(k)
      PROVE  /\ raised'[p] <= 1
             /\ raised'[p] = 1 => platformBackoffs'[p].next >= tickStart' + Base'
  <2>1. /\ tickStart' = tickStart /\ raised' = [raised EXCEPT ![PlatformOf[k]] = 0]
        /\ p # PlatformOf[k] => platformBackoffs'[p] = platformBackoffs[p]
    BY <1>4, AfterOk
  <2>2. raised \in [Platforms -> Nat]
    BY DEF Timing, TypeInv
  <2> QED
    BY <1>1, <1>2, <2>1, <2>2
<1>5. ASSUME NEW k \in Keys, CollectPlatformError(k)
      PROVE  /\ raised'[p] <= 1
             /\ raised'[p] = 1 => platformBackoffs'[p].next >= tickStart' + Base'
  BY <1>1, <1>5, RaisePlatformError
<1>6. CASE \/ TickDone \/ TimerFires \/ Advance \/ Finished \/ UNCHANGED vars
           \/ \E k \in Keys : StartJob(k) \/ SkipBusy(k)
  <2>1. UNCHANGED <<tickStart, raised, platformBackoffs>>
    BY <1>6 DEF TickDone, TimerFires, Advance, Finished, vars, StartJob, SkipBusy
  <2> QED
    BY <1>1, <1>2, <2>1
<1> QED
  BY <1>3, <1>4, <1>5, <1>6 DEF Next

\* CollectPlatformError's comment: several failing keys of one platform count as
\* one failure per tick.  While no key is answered after its share of the period
\* is over and the cap on waits is no shorter than the interval, the wait the
\* first failure starts outlasts every other request of the tick.
THEOREM OneFailurePerTick == Spec => []PlatformFailsOncePerTick
<1>1. RaiseInv => PlatformFailsOncePerTick
  BY DEF RaiseInv, Punctual, PlatformFailsOncePerTick
<1> QED
  BY <1>1, RaiseInit, RaiseNext, TimingAlways, PTL DEF Spec
=============================================================================
