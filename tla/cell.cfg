SPECIFICATION Spec
CONSTANTS
    Repeats = {a1, a2}
    Schedulers = {"stock", "StockFCFSShim", "custom"}
    Failures = {0, 2, 3}
    Degradation = {FALSE}
    Tolerance = 2
SYMMETRY RepeatsAreAlike
INVARIANTS
    TypeOK
    RecordsHaveTheirSamples
    AcceptedCellIsBacked
    UndisturbedCellIsResumable
PROPERTIES
    MeasurementsAreKept
