\* The counterexample to StopNeedsCurrentToken.
CONSTANTS
    k1 = k1  k2 = k2  k3 = k3  p1 = p1  p2 = p2
    t1 = t1  t2 = t2  lost = lost  n1 = n1  n2 = n2  f1 = f1
    None = None
    Keys = {k1, k2}
    Platforms = {p1}
    PlatformOf <- Platform
    Tokens = {t1, t2, lost}
    Unreadable = {lost}
    Names = {n1, n2}
    Configs <- PairConfigs
    Files <- NoFiles
    Base = 2
    Mult = 2
    BackoffMax = 3
    Faults = {f1}
    Answers <- OneOfEachClass
    RevisionRange = 2
    MaxTime = 1
    MaxReloads = 1
SPECIFICATION Spec
PROPERTIES
    StopNeedsCurrentToken
