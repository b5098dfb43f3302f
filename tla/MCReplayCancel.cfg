\* A job is cancelled while its last messages are on the way.
SPECIFICATION
    Spec

CONSTANTS
    Projection <- OneProjection
    Scope <- OneProjection
    Mode = {"catch_up"}
    NoJob = NoJob
    MaxJobs = 1
    MaxFaults = 0

PROPERTIES
    CancelledIsFinal

\* No job is left to start and none runs.
CHECK_DEADLOCK FALSE
