\* Two client processes; two processes of the system die.
SPECIFICATION FairSpec
CONSTANTS
    p1 = p1
    p2 = p2
    Nobody = Nobody
    PidZero = PidZero
    Clients <- TwoClients
    MaxSessions = 2
    MaxDeaths = 2
    PidsReused = TRUE
INVARIANTS OneAttachedClient
PROPERTIES DeadClientIsReplaced LeftSessionIsDropped
CHECK_DEADLOCK FALSE
