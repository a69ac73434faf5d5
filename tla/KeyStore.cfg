SPECIFICATION Spec
CHECK_DEADLOCK FALSE
CONSTANTS
    r1 = r1
    r2 = r2
    r3 = r3
    k1 = k1
    k2 = k2
    k3 = k3
    Runs <- MCRuns
    Keys <- MCKeys
    Absent = Absent
    Empty = Empty
SYMMETRY Interchangeable
INVARIANTS
    LostOnlyToARace
PROPERTIES
    KeySettles
    RefusedOnlyMidWrite
