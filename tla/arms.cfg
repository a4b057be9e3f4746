SPECIFICATION Spec
CONSTANTS
    Parts <- OnlyArms
    Order <- ArmOrder
    Persistent = {FALSE}
    Requests = 4
    Algorithms = {"static", "aging", "deadline_guard", "las", "mlfq", "srpt_oracle", "gateway"}
    Deadline = 1
    GuardOffset = 1000
    Quantum = 2
    Levels = {2, 4}
    Times = {0, 1, 2, 3, 6}
    Works = {1, 3}
    Costs = {1, 4}
    Samples = 2
    Smoke = 1
    Pilot = 1
    Lengths = {1, 2}
    Labelable = {1}
    MaxFaults = 2
    MaxExclusions = 1
    Drivers <- TwoTiers
    Baselines = {"t1l", "t2l"}
    StartsFrom <- TierStarts
    MaxKills = 2
    Plans <- ScriptPlans
    MaxBatchFaults = 3
    Count = 3
    Warmup = 1
    Horizon = 2
    Pids = {1, 2}
    MaxStarts = 4
INVARIANT
    EachArmHasItsComponents
CHECK_DEADLOCK FALSE
