SPECIFICATION Spec
CONSTANTS
    Sizes <- SmallSizes
    SizeBytes = 8
    Builds <- EveryBuild
    Messages <- EveryMessage
    MaxMessages = 3
INVARIANTS
    LayoutDetected
    EventsDecoded
    FirstKindSurvives
    IInv
CHECK_DEADLOCK FALSE
