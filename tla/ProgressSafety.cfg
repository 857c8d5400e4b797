SPECIFICATION Spec
CONSTANTS
    Versions <- AllVersions
    Statuses <- StartAndEnd
    FrameCells = 2
    MaxEvents = 2
    MaxConns = 2
    Habits <- Cancelling
INVARIANTS
    TypeOK
    SoundEvents
    VersionsAgree
    NothingOwed
    IInv
PROPERTIES
    NothingDiscarded
    ImplementsFeed
CHECK_DEADLOCK FALSE
