SPECIFICATION Spec
CONSTANTS
    Levels = {0, 1}
    MaxTokens = 2
    Calls = {c1, c2}
    Configs <- BertService
    Requests <- SomeRequests
    MaxConcurrency = 1
INVARIANTS
    ServiceFailureFallsBack
