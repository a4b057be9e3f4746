SPECIFICATION FairSpec
CONSTANTS
    Callers = {c1, c2}
    Closers = {k1}
    Items = {i1}
    Shutdown = Shutdown
    NoItem = NoItem
    BatchMax = 2
PROPERTIES
    EveryBlockedCallerReturns
\* After close() the threads may all be at rest: the worker has stopped.
CHECK_DEADLOCK FALSE
