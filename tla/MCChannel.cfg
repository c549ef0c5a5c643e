SPECIFICATION FairSpec
CONSTANTS
    p1 = p1
    o = o
    Publishers = {p1}
    Owner = o
    Topics <- MCTopics
    KeyEnd = 3
    Reserve = 1
    LoopLimit = 0
    MaxSubs = 3
    MaxPub = 1
    MaxPurge = 1
INVARIANTS
    CopiesAgree
    
PROPERTIES
    NoLateCallback
    
CHECK_DEADLOCK FALSE
