CONSTANTS
    Obj <- OneObject
    Ts <- ByNumber
    Deliveries = {1, 2, 3}
    Objects = {o1}
    Window = 1
    Flaky = {1, 2}
    Echoes = {}
    NoEnv = NoEnv
    MaxEnvs = 3
    Workers = {w1}
    MaxConcurrency = 1
    FileQueue = FALSE
    Cap = 1
    MaxAttempts = 2
    MaxStored = 1
    MaxReplays = 0
    MaxCrashes = 0

SPECIFICATION Spec
INVARIANTS AcceptedKept
CHECK_DEADLOCK FALSE
