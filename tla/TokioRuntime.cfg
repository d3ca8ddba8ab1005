SPECIFICATION Spec
CONSTANTS
    Tasks = {t1, t2}
    MaxCalls = 4
    MaxChunks = 1
    MayPanic = TRUE
    MayStall = TRUE
INVARIANTS
    NeverUnknown
    EngineOutlivesSessions
    OnlyOrphansStay
PROPERTIES
    AwaitsEnd
    StreamEnds
    WorkerEnds
