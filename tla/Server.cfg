SPECIFICATION Spec
CONSTANTS
    Parts = {"merge", "lines", "gate", "files", "import"}
    Texts <- MCTexts
    MaxMergeDiffLines = 4
    InitKey = "init"
    NoText = NoText
    Editors = {e1, e2, e3}
    NoFile = NoFile
    MaxMergeCommitAttempts = 2
    MaxProvenance = 3
    MergeConfigs <- MCMerges
    MaxRequests = 3
    Kids = {k1, k2}
    CacheTTL = 1
    StaleGrace = 1
    RateWindow = 1
    RateMax = 1
    MaxClock = 3
    NoEntry = NoEntry
    Entries = {1, 2, 3, 4, 5}
    Dirs <- MCDirs
    Marker = 2
    Governed = {3, 4}
    Reader <- MCReader
    RuleSets <- MCRuleSets
    PageSize = 2
    QueryLimit = 2
    EventPage = 2
    EventLimit = 1
    MaxChanges = 3
    Absent = Absent
    ApiConfigs <- MCRequests
    FetchIds = {j1, j2}
    DirectIds = {d1}
    Heads = {h1, h2}
    Chunks = 2
    MaxJobs = 3
    NoJob = NoJob
INVARIANTS
    EditsSurvive
    LineMergeSound
    KeyTrustBounded
    RulesRespected
    OneFetchPerHead
CHECK_DEADLOCK FALSE
