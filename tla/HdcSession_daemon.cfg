\* The daemon with one TCP session, two writes in flight, and one UART session.
SPECIFICATION FairSpec
CONSTANTS
    s1 = s1
    s2 = s2
    None = None
    Sessions <- MCTwo
    Tcp <- MCOne
    serverOrDaemon = FALSE
    PoolSize = 2
    MaxWrites = 2
    MaxMainWrites = 1
    MaxTasks = 1
    GLOBAL_TIMEOUT = 1
INVARIANTS
    TypeOK
PROPERTIES
    BrokenLinkKillsSession
CHECK_DEADLOCK FALSE
