SPECIFICATION Spec
CONSTANTS
    MaxHandles = 3
    MaxInputs = 2
    MaxRequests = 2
INVARIANTS
    NothingLeaks
    DeletedOnce
    ArgumentsLive
    ParentsLive
