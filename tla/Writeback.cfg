CONSTANTS
    Paths = {p1}
    Absent = Absent
    Empty = Empty
    NoOp = NoOp
    Values = {v1, v2}
    MaxOps = 2
    Workers = {w1}
    External = FALSE
    FileQueue = TRUE
    Cap = 1
    Setups <- Retried
    Threshold = 0
    LegacyRunning = {1}
SPECIFICATION FairSpec
INVARIANT ProviderConverges
PROPERTIES OperationsSettle QuarantineHolds
CHECK_DEADLOCK FALSE
