\* Two calls at once.
SPECIFICATION
    FairSpec

CONSTANTS
    Requester = {p1, p2}
    Workflow <- OneItem
    ExceptionWorkflow = {"exception"}
    RequestId = {q1}
    NoRequest = NoRequest
    External <- RequestOnly
    MaxActive = 2
    MaxExternal = 2
    MaxCalls = 2
    MaxCrashes = 0

INVARIANTS
    ClosedIsBacked
    AnsweredIsApplied
    OneDecisionPerRequest
    NotifiedIsRecorded

PROPERTIES
    EveryCallEnds
    OnlyStaleWritesReopen

\* All calls are used up and time has passed.
CHECK_DEADLOCK FALSE
