CONSTANTS
    None = None
    t1 = t1
    t2 = t2
    e1 = e1
    e2 = e2
    a1 = a1
    a2 = a2
    i1 = i1
    refund = refund
    v1 = v1
    v2 = v2
    x1 = x1
    c1 = c1
    yes = yes
    no = no
    Trace <- MCTrace
    Scripts <- MCScripts
    DefaultBatchSize = 3
    BatchSizes = {2}
    MaxLogSeq = 6
    FailingDeletes = {3, 6}
    MaxFailures = 1
    EdgeIdBefore <- MCEdgeIdBefore
    GraphQueries <- MCGraphQueries
    EdgeQueries <- MCEdgeQueries
    PrecedentQueries <- MCPrecedentQueries
SPECIFICATION QuerySpec
INVARIANTS
    NoEventIsRejected
CHECK_DEADLOCK FALSE
