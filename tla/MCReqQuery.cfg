CONSTANTS
    e1 = e1
    x = x
    y = y
    z = z
    s2 = s2
    s3 = s3
    s4 = s4
    s5 = s5
    s6 = s6
    EOSE = EOSE
    Event = {e1}
    Sendable = {e1}
    SubId = {x, y, z}
    LongId = {z}
    Sub <- SubsOfAllKinds
    Content <- ContentOfAllKinds
    MaxSubs = 1
    MaxRequests = 2
    Permits = 1
    QueueCap = 1
    BroadcastCap = 1
    CheckEvery = 1

SPECIFICATION FairSpec

INVARIANTS
    TypeOK
    AbandonedIffUnwanted
    EoseMeansComplete
    NoGap
    AbandonedStopsSoon

PROPERTIES
    OthersEnd
    OthersServe

CHECK_DEADLOCK FALSE
