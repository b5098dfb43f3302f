\* Violated: the retries are used up, and the failure cannot be recorded either.
SPECIFICATION
    Spec

CONSTANTS
    Client = {c1}
    Names <- OneName
    MaxRetries = 1
    MaxRestarts = 1
    MaxLogSeq = 1
    MaxCrashes = 0
    MaxFaults = 3

INVARIANTS
    FailedIsRecorded

CHECK_DEADLOCK FALSE
