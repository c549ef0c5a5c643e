SPECIFICATION CSpec
CONSTANTS
    Topics = {1, 2}
    BodyLen <- MCBodyLen
    MaxPackets = 2
    MaxPacketSize = 9
    BufferSize = 8
    MaxPosted = 4
INVARIANT
    ProcessedWithin
CHECK_DEADLOCK FALSE
