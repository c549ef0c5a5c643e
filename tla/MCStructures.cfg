SPECIFICATION StructuresSpec
CONSTANTS
    Begin = 1
    End = 7
    Reserve = 2
    t1 = t1
    t2 = t2
    t3 = t3
    n1 = n1
    n2 = n2
    a1 = a1
    a2 = a2
    a3 = a3
    r1 = r1
    r2 = r2
INVARIANTS
    PoolSound
    
    TrackerExact
    BufferKeepsBytes
    
    PacketsInOrder
PROPERTIES
    ChannelsKept
    SegmentsKeepBytes
    PacketsArrive
CHECK_DEADLOCK FALSE
