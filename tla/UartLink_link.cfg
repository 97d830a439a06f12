\* Both ends send, and a session that is over still does, no package is sent again.
SPECIFICATION Spec
CONSTANTS
    current = current
    former = former
    Cur = current
    Old <- MCOld
    RetryChance = 0
    MaxIndex <- MCOne
    MaxNew = 1
    MayRefuse = TRUE
INVARIANTS
    TypeOK
    Faithful
CHECK_DEADLOCK FALSE
