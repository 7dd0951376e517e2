CONSTANTS
    Paths = {p1}
    Absent = Absent
    Empty = Empty
    NoOp = NoOp
    Values = {v1}
    MaxOps = 2
    Workers = {w1, w2}
    External = FALSE
    FileQueue = FALSE
    Cap = 1
    Setups <- Shared
    Threshold = 1
    LegacyRunning = {}
SPECIFICATION Spec
SYMMETRY WorkerSymmetry
INVARIANTS NothingLost ExclusiveAttempts
CHECK_DEADLOCK FALSE
