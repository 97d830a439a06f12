\* One device on each kind of link.
SPECIFICATION FairSpec
CONSTANTS
    Links <- MCLinks
    MaxPlugs = 2
    MaxSessions = 3
    MaxCommands <- MCCommands
    MaxFaults <- MCFaults
    MaxRetry = 1
INVARIANTS
    TypeOK
    ListsAreTrue
    OwnSessionsExist

    
CHECK_DEADLOCK FALSE
