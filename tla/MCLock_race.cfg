\* The counterexample to OneHolder: two starts overlap.
CONSTANTS
    q1 = q1  q2 = q2  q3 = q3  q4 = q4
    Processes = {q1, q2}
    None = None
    Serial = FALSE
    Faulty = {}
    maxTakeoverAttempts = 3
SPECIFICATION Spec
INVARIANTS
    OneHolder
