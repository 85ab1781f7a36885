\* The counterexample to StartsAgain: two requests share config.json.tmp.
CONSTANTS
    h1 = h1  h2 = h2  k1 = k1  k2 = k2  t1 = t1  t2 = t2
    i1 = i1  i2 = i2  i3 = i3  i4 = i4  i5 = i5
    Blank = Blank  Lost = Lost  None = None  Empty = Empty  Torn = Torn  Damaged = Damaged
    Handlers = {h1, h2}
    Keys = {k1, k2}
    Tokens = {t1, t2}
    SomeBodies <- MCBodies
    FirstStored <- MCFirst
    Inodes = {i1, i2, i3, i4, i5}
    MaxKeys = 1
    MaxPuts = 2
    MaxCrashes = 1
SPECIFICATION Spec
INVARIANTS
    StartsAgain
