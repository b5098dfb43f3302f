CONSTANTS
    t1 = t1
    t2 = t2
    i1 = i1
    i2 = i2
    i3 = i3
    i4 = i4
    i5 = i5
    c1 = c1
    c2 = c2
    worker = worker
    job = job
    Trace <- MCTrace
    Key <- MCEventId
    EventId <- MCEventId
    Content <- MCContent
    Envelope <- MCEnvelope
    Runner <- MCRunner
    Worker = worker
    NoRunner = NoRunner
    Projection = {"context_graph", "trace_summary", "precedent_index"}
    Modes <- MCModes
    BatchSize = 2
    Until = {3}
    MaxActive = 2
    MaxInserted = 2
    MaxLogSeq = 3
    MaxFaults = 0
SPECIFICATION Spec
PROPERTIES
    OnlyStaleBatchesDiverge
    OnlyGapsSkip
    OnlyStaleRewinds
CHECK_DEADLOCK FALSE
