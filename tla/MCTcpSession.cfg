SPECIFICATION FairSpec
CONSTANTS
    Apps = {a1, a2}
    Ios = {i1, i2}
    MaxSends = 3
    a1 = a1
    a2 = a2
    i1 = i1
    i2 = i2
INVARIANTS
    StreamInOrder
    EndsOnce
PROPERTIES
    BufferDrains
    ClosedIsRemoved
CHECK_DEADLOCK FALSE
