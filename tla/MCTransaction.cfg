SPECIFICATION TSpec
CONSTANTS
    x1 = x1
    x2 = x2
    o1 = o1
    o2 = o2
    Trans = {x1, x2}
    Ops = {o1, o2}
    CountEnd = 4
INVARIANT
    UncommittedUndone
CHECK_DEADLOCK FALSE
