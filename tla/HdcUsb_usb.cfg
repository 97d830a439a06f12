\* Two sessions of the host on one cable, an unplugging and a crash.
SPECIFICATION FairSpec
CONSTANTS
    MaxSessions = 2
    MaxBlocks = 1
    MaxUnplugs = 1
    MaxCrashes = 1
    MaxAntique = 1
    Dummies = {}
INVARIANTS
    TypeOK
    NoCrossTalk
    AliveIsReading
PROPERTIES
    EndpointsReopened
    
    HandshakeSettled
CHECK_DEADLOCK FALSE
