SPECIFICATION FairSpec
CONSTANTS
    Procs = {p}
    Keys = {"k"}
    Creds = {"a", "b"}
    RefLists <- Pair
    MaxStates = 2
    Ttl = 1
    DefaultCooldown = 1
    QuotaCooldown = 1
    QuotaCeiling = 2
    RetryAfters = {0}
    MaxClock = 3
    Shutdown = TRUE
    p = p
PROPERTIES IdleEvicted
