SPECIFICATION TimerSpec
CONSTANTS
    Requests <- MCRequests
    Intervals <- MCIntervals
    MinInterval = 1
    IdEnd = 3
    Reserve = 1
    MaxReqs = 3
    MaxTick = 3
INVARIANTS
    Punctual
PROPERTIES
    ImplementsIdPool
    
    ExecuteEnds
CHECK_DEADLOCK FALSE
