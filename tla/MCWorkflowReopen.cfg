\* A decision and another action at once.
SPECIFICATION
    Spec

CONSTANTS
    Requester = {p1, p2}
    Workflow <- OneItem
    ExceptionWorkflow = {"exception"}
    RequestId = {q1}
    NoRequest = NoRequest
    External <- RequestOnly
    MaxActive = 2
    MaxExternal = 1
    MaxCalls = 2
    MaxCrashes = 0

PROPERTIES
    TerminalIsFinal

\* All calls are used up and time has passed.
CHECK_DEADLOCK FALSE
