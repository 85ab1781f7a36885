\* Two keys, one handler, three Saves, a crash and any number of stops; every step
\* of a write may fail.  Fair behaviours.
CONSTANTS
    i1 = i1  i2 = i2  i3 = i3  j1 = j1  j2 = j2  h1 = h1
    None = None  Empty = Empty  Torn = Torn
    Inodes = {i1, i2, i3}
    Jobs = {j1, j2}
    Handlers = {h1}
    MaxSaves = 3
    MaxCrashes = 1
SPECIFICATION FairShutdown
INVARIANTS
    DiskIsWhole
    CloseKeepsLast
    NoFetchAfterWait
    StoppedIsSaved
PROPERTIES
    StoresInOrder
    SavedReachesDisk
    SignalEndsProcess
