\* Jobs for one projection and for all of them, cancels, and a crash.
SPECIFICATION
    FairSpec

CONSTANTS
    Projection <- TwoProjections
    Scope <- AllOrOne
    Mode = {"catch_up", "rebuild"}
    NoJob = NoJob
    MaxJobs = 2
    MaxFaults = 1

INVARIANTS
    ScopesMatchJobs
    OneJobPerScope
    CompletedRunsRan

PROPERTIES
    EveryRunEnds
    ScopesAreReleased

\* No job is left to start and none runs.
CHECK_DEADLOCK FALSE
