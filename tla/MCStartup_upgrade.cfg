\* Two starts in any overlap over every kind of file, each ending anywhere, at any
\* step of a write.
CONSTANTS
    s1 = s1  s2 = s2  t1 = t1  t2 = t2  t3 = t3
    Stems = {"k", "x", "y", "z"}
    Tokens = {t1, t2, t3}
    NoToken = NoToken
    Processes = {s1, s2}
    None = None
    Inodes = {1, 2, 3}
    Empty = Empty
    Torn = Torn
    Files <- AllFiles
    Flags <- ValidFlags
    Bodies <- OneBody
    MaxStarts = 3
    MaxPuts = 1
    MaxBackups = 2
SYMMETRY Starts
SPECIFICATION Spec
INVARIANTS
    OldFileSurvives
    MigrationKeepsKeys
    SavedFileLoads
