\* Two saves of any kind over two keys of one platform and both cache files, in
\* one instant: the saves may meet any step of a tick.  Fair behaviours, with no
\* help from the sleep timer.
CONSTANTS
    k1 = k1  k2 = k2  k3 = k3  p1 = p1  p2 = p2
    t1 = t1  t2 = t2  lost = lost  n1 = n1  n2 = n2  f1 = f1
    None = None
    Keys = {k1, k2}
    Platforms = {p1}
    PlatformOf <- Platform
    Tokens = {t1, t2, lost}
    Unreadable = {lost}
    Names = {n1, n2}
    Configs <- PairConfigs
    Files <- PairFiles
    Base = 2
    Mult = 2
    BackoffMax = 3
    Faults = {f1}
    Answers <- OneOfEachClass
    RevisionRange = 2
    MaxTime = 1
    MaxReloads = 2
SPECIFICATION FairSpec
INVARIANTS
    TypeOK
    WakeNotLost
    CacheHoldsEveryOk
    CacheOnlyConfigured
PROPERTIES
    StopUntilRedefined
    InvalidNeverFetched
    OnlyLateAnswersDiffer
    ReloadTakesEffect
    CancelEndsLoop
