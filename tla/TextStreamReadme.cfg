SPECIFICATION Spec
CONSTANTS
    MaxChunks = 1
    NativeMayStall = FALSE
CHECK_DEADLOCK FALSE
PROPERTY ReadmeLoopGoesOn
