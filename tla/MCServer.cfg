SPECIFICATION ServerSpec
CONSTANTS
    t1 = t1
    t2 = t2
    Threads = {t1, t2}
    Callers = {t1, t2}
    Ids = {1, 2}
    Names = {n1, n2}
    NoId = 0
    Trans = {x1, x2}
    Ops = {o1, o2}
    CountEnd = 4
    Domain = 7
    SeqEnd = 2
    MsEnd = 3
    MaxClock = 4
    MaxGiven = 5
    n1 = n1
    n2 = n2
    x1 = x1
    x2 = x2
    o1 = o1
    o2 = o2
    NoName = NoName
    task = task
    NoTask = NoTask
INVARIANTS
    UniqueIds
    
    NeverForgotten

    
CHECK_DEADLOCK FALSE
