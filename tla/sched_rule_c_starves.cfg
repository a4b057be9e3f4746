SPECIFICATION FairSpec
CONSTANTS
    Requests = {r1, r2, r3}
    Policies <- RuleCOnly
    Scores = {5, 10}
    Fallback = 10
    Prompts <- OnePrompt
    Latency = 60
    Deadline = 1
    MaxAge = 0
    Capacity = 1
    ArrivalSkew = 0
PROPERTIES
    AbstainedIsNotStarved
