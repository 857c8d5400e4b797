SPECIFICATION FairSpec
CONSTANTS
    Versions <- TwoVersions
    Statuses <- StartAndEnd
    FrameCells = 2
    MaxEvents = 2
    MaxConns = 2
    Habits <- None
PROPERTIES
    HandshakeEnds
    ReceiveEnds
CHECK_DEADLOCK FALSE
