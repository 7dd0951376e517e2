CONSTANTS
    Configs <- Scenarios
    MaxAttempts = 2
    MaxCommands = 2
    MaxActs = 2
SPECIFICATION Spec
INVARIANTS LocalWorkKept NoLostUpdate AckedDelivered
PROPERTY ReconcileRemembered
CHECK_DEADLOCK FALSE
