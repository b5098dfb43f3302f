CONSTANTS
    t1 = t1
    t2 = t2
    k1 = k1
    k2 = k2
    k3 = k3
    k4 = k4
    i1 = i1
    i2 = i2
    i3 = i3
    i4 = i4
    i5 = i5
    c1 = c1
    c2 = c2
    Trace <- MCTrace
    Key <- MCKey
    EventId <- MCEventId
    Content <- MCContent
    Envelope <- MCEnvelope
    Writer = {w1, w2}
    NoEvent = NoEvent
    MaxLogSeq = 4
SPECIFICATION FairSpec
PROPERTIES
    AppendsInOrder
    EveryCallEnds
    ImplementsDecisionLog
CHECK_DEADLOCK FALSE
