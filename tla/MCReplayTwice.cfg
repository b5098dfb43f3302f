\* No crash but those the coordinator's own state causes.
SPECIFICATION
    Spec

CONSTANTS
    Projection <- OneProjection
    Scope <- OneProjection
    Mode = {"catch_up"}
    NoJob = NoJob
    MaxJobs = 3
    MaxFaults = 0

INVARIANTS
    OneJobPerProjection

\* No job is left to start and none runs.
CHECK_DEADLOCK FALSE
