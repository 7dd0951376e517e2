SPECIFICATION FairSpec
CONSTANTS
    NoOne = NoOne
    Source = src
    Dests = {d1, d2}
    Gens = {1, 2}
    Handbacks = {1, 2, 3, 4}
    Configs <- Scenarios
INVARIANT OneWriter
PROPERTY SourceReturns
CHECK_DEADLOCK FALSE
