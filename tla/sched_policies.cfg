SPECIFICATION Spec
CONSTANTS
    Requests = {r1, r2, r3}
    Policies <- SomePolicies
    Scores = {5, 10}
    Fallback = 10
    Prompts <- SomePrompts
    Latency = 60
    Deadline = 1
    MaxAge = 2
    Capacity = 2
    ArrivalSkew = 1
SYMMETRY RequestSymmetry
INVARIANTS
    TypeOK
    EachLiveRequestOnce
    EveryQueuedRequestIsPredicted
PROPERTIES
    AbstainedKeepsItsPlace
    ShortestPredictionFirst
    SjfFallsBackToArrivalOrder
