SPECIFICATION FairSpec
CONSTANTS
    r1 = r1
    r2 = r2
    NoRequest = NoRequest
    Requests <- TwoRequests
    TimedRequests <- OneRequest
    MaxSession = 2
    RingCapacity = 1
    FaultFamilies <- FairFaults
    ConcurrentInit = FALSE
INVARIANTS NeverOrphaned
PROPERTIES ShutdownTerminates RequestsAreAnswered
