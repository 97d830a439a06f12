\* All the commands, over one session and one channel.
SPECIFICATION FairSpec
CONSTANTS
    Kinds <- MCKinds
    Origins = {"host","daemon"}
    MaxNet = 2
    SessionFails = TRUE
    PoolFills = TRUE
    Faults <- MCFaults
    MaxConn = 1
    Targets = {"tcp","abstract","dev","jdwp"}
    SameMs = FALSE
    MaxData = 1
    NFiles = 2
    Sizes = {0,2}
    MaxOut = 2
    MaxInput = 2
INVARIANTS
    TypeOK
    RefCounted
    NothingOutlives
    

    
    
    
CHECK_DEADLOCK FALSE
