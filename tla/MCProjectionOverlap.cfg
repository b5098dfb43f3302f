CONSTANTS
    t1 = t1
    t2 = t2
    i1 = i1
    i2 = i2
    i3 = i3
    i4 = i4
    i5 = i5
    c1 = c1
    c2 = c2
    worker = worker
    job = job
    Trace <- MCTrace
    Key <- MCEventId
    EventId <- MCEventId
    Content <- MCContent
    Envelope <- MCEnvelope
    Runner <- MCRunner
    Worker = worker
    NoRunner = NoRunner
    Projection = {"context_graph", "precedent_index"}
    Modes <- CatchUpOnly
    BatchSize = 2
    Until = {3}
    MaxActive = 2
    MaxInserted = 1
    MaxLogSeq = 3
    MaxFaults = 1
SPECIFICATION FairSpec
INVARIANTS
    NothingSkipped
PROPERTIES
    Converges
    OnlyStaleBatchesDiverge
    ResolvedIsProjected
CHECK_DEADLOCK FALSE
