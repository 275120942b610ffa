SPECIFICATION AllSpec
CONSTANTS
    Requests = {1, 2}
    NoFile = NoFile
    Expiry = 1
    FlushEvery = 10
    MaxTime = 2
    MaxMessages = 7
    cn_Keep = 1
    cn_Every = 2
    cn_MaxTurns = 4
    cn_MaxJobs = 3
    mf_Backups = 3
    mf_MaxWrites = 6
    mf_MaxFaults = 2
    ap_Chats = {"chat", "master"}
    ap_Master = "master"
    ap_Calls <- MCCalls
    ap_Short <- MCShort
    ap_MaxRules = 2
    ap_MaxRequests = 2
    ap_MaxMessages = 3
    ts_Turns = {"a", "b"}
    ts_MaxSteps = 1
    ts_MaxTasks = 2
    ts_MaxFaults = 1
    ru_Files = {"a", "b"}
    ru_Budget = 2
    ru_MaxCalls = 1
    ru_MaxChanges = 3
    ru_MaxTurns = 2
    ru_MaxBatches = 1
    kn_Keys = {"a", "b", "c"}
    kn_Near = {{"a", "b"}, {"a", "c"}}
    kn_Old <- MCOld
    kn_MaxSaves = 2
    kn_MaxCount = 1
    kn_MaxCrashes = 1
    vs_Bulk = {"history", "tasks"}
    vs_Facts = {"memory"}
    vs_MaxLines = 2
    vs_MaxFaults = 4
    vs_Kb = "tasks"
    eg_Names <- MCNames
    eg_Within <- MCWithin
    eg_Stated <- MCStated
    eg_Templates = {"anna"}
    eg_Cards = {"card"}
    eg_Jobs = {"j1", "j2"}
    eg_MaxTriples = 2
    eg_MaxFacts = 3
    eg_MaxShown = 1
    eg_MaxSummaries = 1
INVARIANTS
    FileHoldsSaved
    AnsweredOnce
    UndisturbedNotSkipped
    LastMemoryKept
    RunOnce
    OwnTaskShown
    StaleIsNoticed
    
    Findable
    IndexHolds
PROPERTY ConsolidatedStays
