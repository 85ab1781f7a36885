\* One save, three instants, two platforms: results of every kind, back-off and
\* recovery.
CONSTANTS
    k1 = k1  k2 = k2  k3 = k3  p1 = p1  p2 = p2
    t1 = t1  t2 = t2  lost = lost  n1 = n1  n2 = n2  f1 = f1
    None = None
    Keys = {k1, k2, k3}
    Platforms = {p1, p2}
    PlatformOf <- Platform
    Tokens = {t1, t2, lost}
    Unreadable = {lost}
    Names = {n1, n2}
    Configs <- FewConfigs
    Files <- NoFiles
    Base = 2
    Mult = 2
    BackoffMax = 3
    Faults = {f1}
    Answers <- ManyAnswers
    RevisionRange = 2
    MaxTime = 3
    MaxReloads = 1
SPECIFICATION Spec
INVARIANTS
    SnapshotFresh
    InflightMatchesJobs
    OneFetchPerPlatform
PROPERTIES
    RevisionTracksResponse
    NoEarlyRefetch
    HistoryKept
