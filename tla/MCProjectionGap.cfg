CONSTANTS
    t1 = t1
    t2 = t2
    i1 = i1
    i2 = i2
    i3 = i3
    i4 = i4
    i5 = i5
    c1 = c1
    c2 = c2
    worker = worker
    job = job
    Trace <- MCTrace
    Key <- MCEventId
    EventId <- MCEventId
    Content <- MCContent
    Envelope <- MCEnvelope
    Runner <- MCRunner
    Worker = worker
    NoRunner = NoRunner
    Projection = {"context_graph"}
    Modes <- CatchUpOnly
    BatchSize = 2
    Until = {4}
    MaxActive = 1
    MaxInserted = 2
    MaxLogSeq = 4
    MaxFaults = 0
SPECIFICATION Spec
INVARIANTS
    NothingSkipped
CHECK_DEADLOCK FALSE
