SPECIFICATION Spec
CONSTANTS
    Versions <- OneVersion
    Statuses <- NotTerminal
    FrameCells = 2
    MaxEvents = 2
    MaxConns = 2
    Habits <- None
INVARIANTS
    TerminalIsGenuine
CHECK_DEADLOCK FALSE
