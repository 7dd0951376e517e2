CONSTANTS
    Paths = {1, 2, 3}
    Root = 10
    Listing <- Tree3
    PageSize = 2
    FeedSize = 2
    Configs <- Scenarios
    MaxBound = 3
SPECIFICATION FairSpec
INVARIANT PassedEventsApplied
PROPERTIES BootstrapMirrors OnlyRealDeletes BootstrapEnds
CHECK_DEADLOCK FALSE
