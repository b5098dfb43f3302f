\* Two transactions at a time, of three projections.
SPECIFICATION
    FairSpec

CONSTANTS
    Runner = {p1, p2}
    MaxLogSeq = 1
    MaxCalls = 3
    MaxFaults = 1

INVARIANTS
    FullIsMinimum

PROPERTIES
    OwnDigestIsFresh
    EveryBatchEnds

\* All transactions are used up.
CHECK_DEADLOCK FALSE
