\* The host sends two packages, which may be sent again; the daemon answers.
SPECIFICATION FairSpec
CONSTANTS
    current = current
    former = former
    Cur = current
    Old <- MCNoOld
    RetryChance = 1
    MaxIndex <- MCHostOnly
    MaxNew = 2
    MayRefuse = TRUE
INVARIANTS
    Faithful

    
CHECK_DEADLOCK FALSE
