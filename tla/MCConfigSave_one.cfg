\* One request at a time, four PUTs, two crashes, three master keys; any step of a
\* write may fail.
CONSTANTS
    h1 = h1  h2 = h2  k1 = k1  k2 = k2  t1 = t1  t2 = t2
    i1 = i1  i2 = i2  i3 = i3  i4 = i4  i5 = i5
    Blank = Blank  Lost = Lost  None = None  Empty = Empty  Torn = Torn  Damaged = Damaged
    Handlers = {h1}
    Keys = {k1, k2}
    Tokens = {t1, t2}
    SomeBodies <- MCBodies
    FirstStored <- MCFirst
    Inodes = {i1, i2, i3}
    MaxKeys = 3
    MaxPuts = 4
    MaxCrashes = 2
SPECIFICATION Spec
INVARIANTS
    DiskLoads
    MemoryIsDisk
    RefusedNotOnDisk
    AnsweredIsDurable
    SealedCanBeOpened
PROPERTIES
    EmptyTokenKeeps
    ImportRestores
