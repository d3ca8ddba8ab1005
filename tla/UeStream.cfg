SPECIFICATION Spec
CONSTANTS
    MaxChunks = 3
    NativeMayStall = TRUE
    SpawnMayFail = TRUE
INVARIANTS
    DoneAgrees
    OneLateToken
PROPERTIES
    NoCallbackAfterFree
    StartIsAnswered
    FreeReturns
    UsesTextStream
