SPECIFICATION Spec
CONSTANTS
    Procs = {p, q}
    Keys = {"k"}
    Creds = {"a", "b", "c"}
    RefLists <- TripleOrOne
    MaxStates = 1
    Ttl = 1
    DefaultCooldown = 1
    QuotaCooldown = 1
    QuotaCeiling = 2
    RetryAfters = {0}
    MaxClock = 2
    Shutdown = FALSE
    p = p
    q = q
INVARIANTS TypeOK CountMirrors BindingsConfigured
PROPERTIES GetIsAtomic AffinityKept
SYMMETRY Requests
