SPECIFICATION Spec
CONSTANTS
    Repeats = {a1, a2}
    Schedulers = {"custom"}
    Failures = {0, 1, 2}
    Degradation = {FALSE}
    Tolerance = 1
INVARIANTS
    CompleteOutputIsResumable
