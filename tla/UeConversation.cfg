SPECIFICATION Spec
CONSTANTS
    Requests = {r1, r2}
    NoRequest = NoRequest
    QueueBound = 1
    SpawnMayFail = TRUE
INVARIANTS
    OneRequestAtATime
    BusyHeld
    SilentFailureOnlyAfterFree
PROPERTIES
    NoCallbackAfterStreamFree
    NoResponseAfterConversationFree
    CancelWins
    EveryStartIsAnswered
    FreesReturn
    ImplementsService
