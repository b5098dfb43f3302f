\* A request that tells two workers, one after the other.
SPECIFICATION
    FairSpec

CONSTANTS
    Client = {c1}
    Names <- TwoNames
    MaxRetries = 1
    MaxRestarts = 1
    MaxLogSeq = 1
    MaxCrashes = 2
    MaxFaults = 2

INVARIANTS
    NoWakeupIsLost

PROPERTIES
    AcknowledgedIsSynced

CHECK_DEADLOCK FALSE
