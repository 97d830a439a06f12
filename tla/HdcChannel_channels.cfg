\* A channel of a device and one without, whose client removes forwards: safety.
SPECIFICATION Spec
CONSTANTS
    c1 = c1
    c2 = c2
    None = None
    Channels <- MCBoth
    Local <- MCLocal
    MaxWrites = 1
    MaxLink = 1
    SessionEnds = FALSE
INVARIANTS
    NoDangling
CHECK_DEADLOCK FALSE
