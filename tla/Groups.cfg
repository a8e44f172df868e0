SPECIFICATION MCSpec
CONSTANTS
    p = p
    q = q
    Procs = {p, q}
    Keys = {"k"}
    Members = {"a", "b", "c"}
    Configs <- Lists
    Wanted <- InDefault
    Ttl = 1
    Cooldown = 1
    MaxStates = 1
    MaxClock = 2
    Shutdown = FALSE
    Requests = {p, q}
    Key = "k"
    MaxEdits = 1
    RouteClock = 1
INVARIANT EngineSound
PROPERTIES PickIsHealthy KeepsAffinity LastResort
SYMMETRY Alike
CHECK_DEADLOCK FALSE
