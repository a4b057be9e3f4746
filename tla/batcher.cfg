SPECIFICATION FairSpec
CONSTANTS
    Callers = {c1, c2, c3}
    Closers = {k1, k2}
    Items = {i1, i2}
    Shutdown = Shutdown
    NoItem = NoItem
    BatchMax = 2
INVARIANTS
    TypeOK
    EachJobHeldOnce
PROPERTIES
    ImplementsBlockingCalls
    SubmittedBeforeCloseIsAnswered
    CloseStopsTheWorker
\* After close() the threads may all be at rest: the worker has stopped.
CHECK_DEADLOCK FALSE
