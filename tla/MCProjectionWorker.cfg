\* A request, two workers, a supervisor that allows one restart.
SPECIFICATION
    FairSpec

CONSTANTS
    Client = {c1}
    Names <- OneName
    MaxRetries = 1
    MaxRestarts = 1
    MaxLogSeq = 2
    MaxCrashes = 2
    MaxFaults = 2

INVARIANTS
    NoWakeupIsLost

PROPERTIES
    AcknowledgedIsSynced

CHECK_DEADLOCK FALSE
