\* Violated: an older digest is written with a newer cursor.
SPECIFICATION
    Spec

CONSTANTS
    Runner = {p1, p2}
    MaxLogSeq = 1
    MaxCalls = 2
    MaxFaults = 0

INVARIANTS
    DigestIsCheckpoint

\* All transactions are used up.
CHECK_DEADLOCK FALSE
