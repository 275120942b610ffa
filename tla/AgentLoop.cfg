SPECIFICATION AllSpec
CONSTANTS
    Pairs = {"read", "message"}
    Args = {1, 2}
    Message = "message"
    Batches <- MCBatches
    MaxIterations = 7
    FuzzyWindow = 6
    dl_Chats = {"weixin:a", "email:b"}
    dl_ChannelOf <- MCChannelOf
    dl_Enabled = {"weixin"}
    dl_AllowFrom = {}
    dl_MaxMessages = 2
    dl_MaxCalls = 1
    wk_Jobs = {"j1", "j2"}
    wk_MaxWorkers = 1
    pr_Window = 5
    pr_MinKeep = 2
    pr_Limit = 12
    pr_Budget = 7
    pr_Systems = {1, 3}
    pr_MaxTurns = 3
    pr_MaxCalls = 1
    sk_Skills = {"a", "b", "c"}
    sk_Builtin = {"a", "b"}
    sk_Always = {"a"}
    sk_Big = {"b"}
    sk_Budget = 2
    sk_MaxSaves = 2
    ca_Callers = {"p", "q"}
    ca_Versions = {"v1", "v2"}
    ca_PreHooks = {}
    ca_PostHooks <- MCNone
    ca_Packages = {}
    ca_ModuleOf <- MCModuleOf
    ca_MaxLog = 2
    ca_MaxEdits = 2
    ca_MaxFacts = 1
    ca_MaxRuns = 0
    ca_MaxCrashes = 1
    ho_Callers = {}
    ho_Versions = {"v1"}
    ho_PreHooks <- MCPreHooks
    ho_PostHooks <- MCPostHooks
    ho_Packages = {"p"}
    ho_ModuleOf <- MCModuleOf
    ho_MaxLog = 2
    ho_MaxEdits = 0
    ho_MaxFacts = 0
    ho_MaxRuns = 3
    ho_MaxCrashes = 1
    st_MaxRetries = 2
    st_MaxChunks = 4
    st_Tools = {"exec"}
INVARIANTS
    CallsAnswered
    FailuresStop
    CyclesStop
    NotifiedOnce
    ResultsHaveCalls
    CallsAreWhole
    CardIsCurrent
PROPERTIES
    TurnEnds
    EveryoneAnswered
    PrerequisitesFirst
