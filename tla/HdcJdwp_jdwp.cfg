\* Two processes, two connections and a tracker.
SPECIFICATION FairSpec
CONSTANTS
    MaxPid = 2
    MaxConns = 2
    Trackers = {t1}
    MaxList = 2
INVARIANTS
    TypeOK
    LiveListed
    TrackersKnow
PROPERTIES
    GoneUnlisted
CHECK_DEADLOCK FALSE
