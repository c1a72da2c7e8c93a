SPECIFICATION Spec
CONSTANTS
    r1 = r1
    r2 = r2
    NoRequest = NoRequest
    Requests <- TwoRequests
    TimedRequests <- TwoRequests
    MaxSession = 2
    RingCapacity = 1
    FaultFamilies <- SafetyFaults
    ConcurrentInit = FALSE
INVARIANTS OneOwner LiveSessionIsActive NoLostNotification NoNestedRecovery ShutdownComplete
PROPERTIES DeathClosesOnlyTheDead NoOpenDuringCooldown
SYMMETRY RequestSymmetry
