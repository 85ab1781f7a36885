\* Four starts, one after the other, over any leftover; holders come and go
\* meanwhile, and the calls of two of them may fail.  Fair behaviours.
CONSTANTS
    q1 = q1  q2 = q2  q3 = q3  q4 = q4
    Processes = {q1, q2, q3, q4}
    None = None
    Serial = TRUE
    Faulty = {q3, q4}
    maxTakeoverAttempts = 3
SPECIFICATION FairSpec
INVARIANTS
    HolderIsNamed
PROPERTIES
    StaleIsTakenOver
