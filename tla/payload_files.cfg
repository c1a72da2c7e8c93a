\* Two client processes; one process dies, or one request is sent again.
SPECIFICATION Spec
CONSTANTS
    p1 = p1
    p2 = p2
    Nobody = Nobody
    Clients <- TwoClients
    BigRequests <- First
    BigReplies <- First
    Unhandled <- Second
    MaxSessions = 2
    MaxTrouble = 1
INVARIANTS NoFileIsLeft FileIsThere
CHECK_DEADLOCK FALSE
