SPECIFICATION FairSpec
CONSTANTS
    Requests = {r1, r2, r3, r4}
    Policies <- FcfsOnly
    Scores = {10}
    Fallback = 10
    Prompts <- OnePrompt
    Latency = 60
    Deadline = 1
    MaxAge = 0
    Capacity = 2
    ArrivalSkew = 0
PROPERTIES
    NoStarvation
    ImplementsStockFcfs
