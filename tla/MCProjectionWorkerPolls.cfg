\* Violated: the sync cast of an append starts a second chain of polls.
SPECIFICATION
    Spec

CONSTANTS
    Client = {c1}
    Names <- OneName
    MaxRetries = 1
    MaxRestarts = 1
    MaxLogSeq = 1
    MaxCrashes = 0
    MaxFaults = 0

INVARIANTS
    OnePoll

CHECK_DEADLOCK FALSE
