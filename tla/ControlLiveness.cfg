SPECIFICATION FairSpec
CONSTANTS
    Commands <- InstallAndSet
    MsgCells = 2
    ImageCells = 2
    SocketCells = 2
    MaxCalls = 3
    MaxConns = 2
    Habits <- AllHabits
PROPERTIES
    ImplementsCalls
    CallReturns
    InstallerReleased
CHECK_DEADLOCK FALSE
