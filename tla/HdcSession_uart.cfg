\* The daemon with one UART session: its worker is not always waited for.
SPECIFICATION Spec
CONSTANTS
    s1 = s1
    s2 = s2
    None = None
    Sessions <- MCOne
    Tcp <- MCNoTcp
    serverOrDaemon = FALSE
    PoolSize = 2
    MaxWrites = 1
    MaxMainWrites = 0
    MaxTasks = 1
    GLOBAL_TIMEOUT = 1
INVARIANTS
    AnyContinueAfterChild
CHECK_DEADLOCK FALSE
