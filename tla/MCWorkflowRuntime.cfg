\* One call at a time; requests die and are sent again.
SPECIFICATION
    Spec

CONSTANTS
    Requester = {p1}
    Workflow <- TwoItems
    ExceptionWorkflow = {"exception"}
    RequestId = {q1}
    NoRequest = NoRequest
    External <- AgentEvents
    MaxActive = 1
    MaxExternal = 2
    MaxCalls = 2
    MaxCrashes = 1

INVARIANTS
    AppliedUpToCursor
    OverdueIsEscalated

\* All calls are used up and time has passed.
CHECK_DEADLOCK FALSE
