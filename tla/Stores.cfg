SPECIFICATION MCSpec
CONSTANTS
    a = a
    p = p
    NoRow = NoRow
    Parts = {"tables", "notices", "json", "row", "file", "models", "tokens", "resolve",
             "logs", "bus", "buffers"}
    Admins <- OneAdmin
    Procs <- OneProc
    Ids <- FewIds
    Creds = {"c", "d"}
    Providers = {"x"}
    TableDrafts <- FewDrafts
    TableBuffer = 0
    NoticeDrafts <- OneModel
    NoticeBuffer = 1
    JsonDrafts <- Plain
    JsonProviders = {"x", "y"}
    Sent <- Wanted
    Envs <- Overrides
    ModelIds = {"m", "g"}
    ModelDrafts <- FewRows
    CredVersions = {1}
    Budget = 2
    PositiveTTL = 1
    NegativeTTL = 1
    StaleCap = 2
    Expiries = {3, 9}
    Second = 2
    MaxVersion = 2
    MaxClock = 4
    Keys = {"a", "b"}
    Lists = {{"a", "b"}, {"a"}}
    Windows <- Hours
    Day = 4
    DefaultCooldown = 1
    QuotaCooldown = 2
    MaxEdits = 2
    Streams = {"s", "t"}
    Cap = 2
    MaxSubscribers = 1
    MaxEvents = 5
    BufferIds = {"a", "b"}
    Sizes = {1, 3}
    MaxSize = 2
INVARIANTS ConfigSound SettingsSound CachesSound RecordsSound
PROPERTIES OutageSafe Converges Resolves
CHECK_DEADLOCK FALSE
