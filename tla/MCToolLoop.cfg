SPECIFICATION Spec
CONSTANTS
    Names = {"sum", "weather"}
    Limits = {0, 1, 3}
    MaxCalls = 2
    Replies <- MCReplies
INVARIANTS
    AnswersInOrder
    EffectsReported
    LimitIsRounds
    OkIsFinal
    ReplaysAsSaid
