SPECIFICATION Spec
CONSTANTS
    Threads = {t1}
    Topics <- MCTopics
    Values = {7}
    SeqEnd = 3
    SumEnd = 4
    ByteEnd = 4
    MaxPacket = 6
    MaxSends = 2
INVARIANT
    UnpackUsesAll
CHECK_DEADLOCK FALSE
