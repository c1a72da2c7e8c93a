\* Up to three instances of VesClient in a process; a restart budget of two.
SPECIFICATION FairSpec
CONSTANTS
    Generations = 3
    DeathLimit = 2
    MaxEngines = 3
    MaxSessions = 19
    Scenarios <- Crowds
INVARIANTS TypeOK RecipientFollowsControl SessionIsKnown
PROPERTIES SpentBudgetIsFinal StaleSessionIsLeft LostAccessEndsSession OwnerIsServed
CHECK_DEADLOCK FALSE
