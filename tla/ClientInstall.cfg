SPECIFICATION FairSpec
CONSTANTS
    Situations <- Deployments
    MaxStarts = 1
    ImageCells = 3
    SocketCells = 1
    QueueLength = 1
    MaxOthers = 2
INVARIANTS
    TypeOK
    ExitMeansEnded
    StatusIsTrue
    FindsDaemon
    NoStandoff
    IInv
PROPERTIES
    CommandEnds
    InstallerFreed
    ImplementsCalls
CHECK_DEADLOCK FALSE
