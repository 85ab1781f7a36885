\* The counterexample to SavedFileLoads: -interval below 30 with -admin-password.
CONSTANTS
    s1 = s1  s2 = s2  t1 = t1  t2 = t2  t3 = t3
    Stems = {"k", "x", "y", "z"}
    Tokens = {t1, t2, t3}
    NoToken = NoToken
    Processes = {s1}
    None = None
    Inodes = {1, 2, 3}
    Empty = Empty
    Torn = Torn
    Files <- OneFile
    Flags <- ShortFlags
    Bodies <- OneBody
    MaxStarts = 3
    MaxPuts = 1
    MaxBackups = 2
SPECIFICATION Spec
INVARIANTS
    SavedFileLoads
