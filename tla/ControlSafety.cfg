SPECIFICATION Spec
CONSTANTS
    Commands <- OneOfEach
    MsgCells = 2
    ImageCells = 2
    SocketCells = 3
    MaxCalls = 3
    MaxConns = 2
    Habits <- AllHabits
INVARIANTS
    TypeOK
    OwnReply
    AckIsTruthful
    ImageIntact
    NoStandoff
    IInv
    Outcome
PROPERTIES
    NoLateExecution
CHECK_DEADLOCK FALSE
