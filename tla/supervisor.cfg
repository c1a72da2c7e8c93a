\* Six requests of the client and two crashes, with slow and prompt engines, patient and hasty clients.
SPECIFICATION FairSpec
CONSTANTS
    MaxRequests = 6
    MaxCrashes = 2
INVARIANTS OneEngine NoEngineLeft
PROPERTIES GivenPathIsServed SupervisorEnds
CHECK_DEADLOCK FALSE
