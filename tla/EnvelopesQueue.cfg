CONSTANTS
    Obj <- OneObject
    Ts <- ByNumber
    Deliveries = {1, 2}
    Objects = {o1}
    Window = 1
    Flaky = {1, 2}
    Echoes = {}
    NoEnv = NoEnv
    MaxEnvs = 2
    Workers = {w1, w2}
    MaxConcurrency = 1
    FileQueue = FALSE
    Cap = 1
    MaxAttempts = 2
    MaxStored = 1
    MaxReplays = 1
    MaxCrashes = 0
SPECIFICATION FairSpec
PROPERTY EnvelopesSettle
CHECK_DEADLOCK FALSE
