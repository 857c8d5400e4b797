SPECIFICATION Spec
CONSTANTS
    Commands <- InstallSetAndQuery
    MsgCells = 2
    ImageCells = 2
    SocketCells = 3
    MaxCalls = 3
    MaxConns = 2
    Habits <- Straight
INVARIANTS
    NackIsRejected
CHECK_DEADLOCK FALSE
