SPECIFICATION FairSpec
CONSTANTS
    Levels = {0, 1}
    MaxTokens = 2
    Calls = {c1, c2}
    Configs <- Launched
    Requests <- SomeRequests
    MaxConcurrency = 1
INVARIANTS
    TypeOK
    EverySlotIsAccountedFor
    OnlyVouchedEstimatesReachTheEngine
    AbstentionIsAnswered
    GateAgreesWithPredictor
    NoAnswerIsMalformed
PROPERTIES
    EveryCallEnds
