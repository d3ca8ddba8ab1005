SPECIFICATION Spec
CONSTANTS
    MaxChunks = 3
    NativeMayStall = TRUE
CHECK_DEADLOCK FALSE
INVARIANTS
    NoSendOnFreedState
    TerminalIsLast
PROPERTIES
    DropReturns
    NextReturnsBeforeEnd
