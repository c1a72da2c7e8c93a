SPECIFICATION FairSpec
CONSTANTS
    a = a
    b = b
    c = c
    h = h
    n = n
    Event = Event
    NoItem = NoItem
    Requests <- ThreeRequests
    HighWorkers <- HighThreads
    NormalWorkers <- NormalThreads
    Workloads <- FairWorkloads
PROPERTIES RequestsComplete StopReturns
