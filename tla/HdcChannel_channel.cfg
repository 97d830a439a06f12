\* One channel of a device, two writes per socket, a session that may end.
SPECIFICATION FairSpec
CONSTANTS
    c1 = c1
    c2 = c2
    None = None
    Channels <- MCBound
    Local <- MCNone
    MaxWrites = 2
    MaxLink = 1
    SessionEnds = TRUE
INVARIANTS
    TypeOK
    RefCounted
PROPERTIES
    OwnershipKept
    DeadChannelFreed
    EndsAgree
CHECK_DEADLOCK FALSE
