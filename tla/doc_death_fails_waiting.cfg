SPECIFICATION FairSpec
CONSTANTS
    r1 = r1
    r2 = r2
    NoRequest = NoRequest
    Requests <- OneRequest
    TimedRequests <- NoRequests
    MaxSession = 1
    RingCapacity = 1
    FaultFamilies <- DieOnly
    ConcurrentInit = FALSE
PROPERTIES DeathFailsWaiting
