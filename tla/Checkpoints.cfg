SPECIFICATION AllSpec
CONSTANTS
    Turns = {chat1, chat2, cron}
    Background = {cron}
    Keys = {k1, k2}
    None = None
    wx_Users = {"a", "b"}
    wx_AllowFrom = {"a"}
    wx_Bot = "bot"
    wx_ConfigToken = FALSE
    wx_Window = 3
    wx_MaxMessages = 2
    wx_MaxCrashes = 1
    md_Block = 2
    md_MaxLength = 4
    mo_Window = 3
    mo_MaxEvents = 2
    mo_MaxChanges = 2
    em_Senders = {"a", "b"}
    em_AllowFrom = {"a"}
    em_MaxUids = 2
    em_MaxMails = 2
    em_MaxStarts = 2
    sc_Jobs = {"a", "b"}
    sc_At = {"b"}
    sc_MaxTime = 4
    sc_MaxLoads = 2
    sc_MaxFaults = 1
    cf_Fields = {"key", "model"}
    cf_Secrets = {"key"}
    cf_Values = {0, 1}
    cf_Editors = {"p"}
    cf_MaxTime = 3
    px_Users = {"u"}
    px_Capacity = 2
    px_Unit = 2
    px_Rate = 1
    px_HasKey = TRUE
    px_MaxTime = 4
    px_MaxRequests = 5
    wa_MaxMessages = 1
    wa_MaxSends = 1
    wa_MaxLinks = 4
    pu_Users = {"a", "b"}
    pu_AllowFrom = {"a"}
    pu_Window = 2
    pu_MaxMessages = 2
    pu_MaxPushes = 3
    pu_MaxStarts = 2
    di_Chats = {"a", "b"}
    di_MaxMessages = 3
    di_MaxLinks = 4
    tg_Chats = {"a", "b"}
    tg_AllowFrom = {"a"}
    tg_MaxLen = 2
    tg_MaxText = 4
    tg_MaxMessages = 2
    sl_Users = {"a", "b"}
    sl_DmAllowed = {"a"}
    sl_DmPolicy = "allowlist"
    sl_GroupPolicy = "mention"
    sl_GroupAllowed = TRUE
    sl_InThread = TRUE
    sl_MaxPosts = 2
    dt_Users = {"a", "b"}
    dt_AllowFrom = {"a"}
    dt_Lives = {2, 4}
    dt_Margin = 2
    dt_Delay = 1
    dt_MaxTime = 9
    dt_MaxMessages = 1
    db_Sockets = {"p1", "p2", "t1"}
    db_Streamers = {"t1"}
    db_Sessions = {"s"}
    db_Polls = 0
    db_Tries = 1
    db_MaxSaid = 1
    db_MaxPushes = 1
    db_MaxStarts = 2
INVARIANTS
    UndisturbedToolsAreRecorded
    NoFalseAlarm
    NothingSkipped
    FilesSurvive
    SlotOnce
    RateHolds
    StaysInTouch
    NothingLeftRunning
    NothingCutOff
    TokenHolds
    NoticeShown
PROPERTIES
    Inboxes
    OnlyOwnChanges
