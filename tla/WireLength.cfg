SPECIFICATION Spec
CONSTANTS
    Sizes <- SmallSizes
    SizeBytes = 4
    Texts <- EveryText
    CStrings <- EveryAnswer
    Lengths <- EveryLength
    Codes <- EveryCode
INVARIANTS
    LengthArrives
CHECK_DEADLOCK FALSE
