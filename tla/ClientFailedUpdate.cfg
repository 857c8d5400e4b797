SPECIFICATION Spec
CONSTANTS
    Situations <- OneDeployment
    MaxStarts = 0
    ImageCells = 3
    SocketCells = 1
    QueueLength = 1
    MaxOthers = 2
INVARIANTS
    OkMeansInstalled
CHECK_DEADLOCK FALSE
