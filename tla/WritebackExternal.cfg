CONSTANTS
    Paths = {p1}
    Absent = Absent
    Empty = Empty
    NoOp = NoOp
    Values = {v1}
    MaxOps = 2
    Workers = {}
    External = TRUE
    FileQueue = TRUE
    Cap = 1
    Setups <- Consumed
    Threshold = 0
    LegacyRunning = {}

SPECIFICATION ConsumerSpec
PROPERTY PendingListed
CHECK_DEADLOCK FALSE
