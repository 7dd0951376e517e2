SPECIFICATION Spec
CONSTANTS
    Parts = {"supervisors", "loop", "credentials", "once", "catalog", "fuse"}
    p1 = p1
    p2 = p2
    p3 = p3
    p4 = p4
    p5 = p5
    u1 = u1
    u2 = u2
    u3 = u3
    Pids = {p1, p2, p3, p4, p5}
    NoPid = NoPid
    Situations <- MCSituations
    MaxKills = 1
    Edits = {e1}
    MaxTurns = 3
    MaxTicks = 2
    Users = {u1, u2, u3}
    NoUser = NoUser
    Programs <- MCPrograms
    MaxTokens = 4
    MaxDeaths = 1
    MountScopes = {s1, s2}
    MaxCheckpoint = 2
    StableLimit = 2
    MaxResumes = 1
    ViewDirs = {v1, v2}
    Roots = {ra, rb}
    NoRoot = NoRoot
    NilViews = NilViews
    MaxCommands = 4
    Handles = {h1, h2}
    Requests = {r1, r2}
    Uses <- MCUses
    MaxRevision = 3
    MaxWrites = 1
    MaxCalls = 3
INVARIANTS
    OneSupervisor
    FlushBarrier
    NothingMissed
    SessionNeverSpent
    ExitCodeTruthful
    ViewsFollowMirror
    HandlesTruthful
CHECK_DEADLOCK FALSE
