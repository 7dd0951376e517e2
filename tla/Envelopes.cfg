CONSTANTS
    Obj <- OneObject
    Ts <- ByNumber
    Deliveries = {1, 2, 3}
    Objects = {o1}
    Window = 1
    Flaky = {1}
    Echoes = {2}
    NoEnv = NoEnv
    MaxEnvs = 2
    Workers = {w1, w2}
    MaxConcurrency = 2
    FileQueue = TRUE
    Cap = 3
    MaxAttempts = 2
    MaxStored = 1
    MaxReplays = 1
    MaxCrashes = 1
SPECIFICATION Spec
SYMMETRY WorkerSymmetry
INVARIANTS HandledReflected AppliedOnce AcceptedKept
CHECK_DEADLOCK FALSE
