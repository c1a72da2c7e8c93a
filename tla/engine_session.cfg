SPECIFICATION FairSpec
CONSTANTS
    c1 = c1
    c2 = c2
    k1 = k1
    k2 = k2
    Main = Main
    NoKinds = NoKinds
    Callers <- TwoCallers
    Kinds <- OneKind
    MaxStarts = 2
    MaxCalls <- OneAndTwo
    MaxWork = 4
    MaxSessions = 3
    MaxFailures = 1
INVARIANTS SessionIsServed ReopenWaitsForStop PublishersAreJoined StopLeavesNothing
PROPERTIES CallsReturn
CHECK_DEADLOCK FALSE
