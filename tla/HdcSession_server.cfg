\* The server with two TCP sessions.
SPECIFICATION FairSpec
CONSTANTS
    s1 = s1
    s2 = s2
    None = None
    Sessions <- MCTwo
    Tcp <- MCTwo
    serverOrDaemon = TRUE
    PoolSize = 2
    MaxWrites = 1
    MaxMainWrites = 0
    MaxTasks = 1
    GLOBAL_TIMEOUT = 1
INVARIANTS
    TakenApartAlone
    CloseAccounting
    ResetOnlyWhenAllDead
    InstanceClearedAlone
PROPERTIES
    OwnershipKept
    
    
CHECK_DEADLOCK FALSE
