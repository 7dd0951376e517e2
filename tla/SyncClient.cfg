CONSTANTS
    Kinds = {"wanted", "hidden"}
    MaxSerial = 4
    Buffered = 1
    PageSize = 1
    Recent = 5
    WireSize = 1
    CleanStops = TRUE
    MaxCrashes = 1
    Starts = {"cursor", "now", "legacy"}
    Fallback = TRUE
    PollLimit = 1
    DedupeLimit = 2
    MaxDrops = 2
SPECIFICATION FairSpec
INVARIANT NothingSkipped
PROPERTY CatchesUp
CHECK_DEADLOCK FALSE
