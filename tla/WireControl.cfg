SPECIFICATION Spec
CONSTANTS
    Sizes <- SmallSizes
    SizeBytes = 8
    Texts <- EveryText
    CStrings <- EveryAnswer
    Lengths <- EveryLength
    Codes <- EveryCode
INVARIANTS
    ArgumentsArrive
    AnswerArrives
CHECK_DEADLOCK FALSE
